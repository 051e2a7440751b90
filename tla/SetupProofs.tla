---------------------------- MODULE SetupProofs ----------------------------
(***************************************************************************)
(* Proofs about how the module comes up and goes: loading, unloading and   *)
(* the API calls that race with them (ModuleLifecycle), for any number of  *)
(* loads, whichever of their steps fail, and any number of threads; and    *)
(* the uncore PMUs from discovery to destruction (UncorePmu), whatever the *)
(* discovery tables hold and whichever allocations fail.                   *)
(***************************************************************************)
EXTENDS ModuleLifecycle, UncorePmu, TLAPS

(* What hrp_pmc_init has acquired when it comes to a step.  The fixed      *)
(* major number lets nobody past the region while an earlier load's is     *)
(* still registered.                                                       *)
LoadingInv ==
  phase = "loading" =>
    /\ step \in {"mbm", "tsc", "region", "cdev", "class", "device", "buffers", "poller",
                 "log", "logger", "wq"}
    /\ step \in {"mbm", "tsc", "region"} => held \subseteq {"mbm"}
    /\ step \notin {"mbm", "tsc", "region"} => "region" \notin lost
    /\ step = "cdev" => held \subseteq {"mbm", "region"}
    /\ step = "class" => held \subseteq {"mbm", "region", "cdev"}
    /\ step = "device" => held \subseteq {"mbm", "region", "cdev", "class"}
    /\ step \in {"cdev", "class", "device"} => "region" \in held
    /\ step \in {"class", "device"} => "cdev" \in held
    /\ step = "device" => "class" \in held
    /\ step = "buffers" => held \subseteq {"mbm"} \cup DevRes
    /\ step \in {"buffers", "poller", "log", "logger", "wq"} => DevRes \subseteq held
    /\ step \in {"poller", "log", "logger", "wq"} => "buffers" \in held
    /\ step \in {"log", "logger", "wq"} => instructed \/ "poller" \in held
    /\ step = "wq" => instructed \/ "logger" \in held

LiveInv ==
  phase = "live" =>
    /\ "region" \notin lost
    /\ DevRes \subseteq held /\ "buffers" \in held
    /\ IF instructed THEN "wq" \in held ELSE {"poller", "logger"} \subseteq held

(* What cleanup still holds when it comes to a step.                       *)
UnloadingInv ==
  phase = "unloading" =>
    /\ step \in {"logger", "poller", "wq", "buffers", "device"}
    /\ step # "device" => DevRes \subseteq held /\ "buffers" \in held
    /\ step \in {"poller", "wq", "buffers"} => "logger" \notin held
    /\ step \in {"wq", "buffers"} => "poller" \notin held
    /\ step = "buffers" => "wq" \notin held
    /\ step = "device" => held \subseteq DevRes

Users == {"poller", "logger", "wq"}

LifeInv ==
  /\ phase \in {"out", "loading", "live", "unloading"}
  /\ held \subseteq Resources
  /\ lost \subseteq {"mbm"} \/ DevRes \subseteq lost
  /\ phase = "out" => held = {}
  /\ held \cap Users # {} => "buffers" \in held
  /\ LoadingInv /\ LiveInv /\ UnloadingInv

-----------------------------------------------------------------------------
(* The invariant gives the properties.                                     *)
LEMMA LifeInvImplies == LifeInv => LoadsLeaveNoTrace /\ ReadyWhenLive
<1> SUFFICES ASSUME LifeInv PROVE LoadsLeaveNoTrace /\ ReadyWhenLive
  OBVIOUS
<1>1. DeviceAllOrNothing
  BY Zenon DEF LifeInv, DeviceAllOrNothing, DevRes
<1>2. OneInstance
  BY Zenon DEF LifeInv, LiveInv, OneInstance, DevRes
<1>3. TeardownOrder
  BY DEF LifeInv, UnloadingInv, TeardownOrder, DevRes
<1>4. ReadyWhenLive
  BY SMTT(30) DEF LifeInv, LiveInv, ReadyWhenLive
<1> QED BY <1>1, <1>2, <1>3, <1>4, Zenon DEF LoadsLeaveNoTrace

(* Every way hrp_pmc_init goes on, and every way it fails.                 *)
LEMMA LifeLoad == ASSUME LifeInv, LoadStep PROVE LifeInv'
<1> USE DEF LifeInv, LoadingInv, LiveInv, UnloadingInv, DevRes, Resources, TakeRes, Fail, At
<1>1. CASE LoadMbm \/ LoadMbmFails \/ LoadTsc \/ LoadTscFails
  <2>1. CASE LoadMbm
    BY <2>1 DEF LoadMbm, Users
  <2>2. CASE LoadMbmFails
    BY <2>2, Zenon DEF LoadMbmFails
  <2>3. CASE LoadTsc
    BY <2>3, Zenon DEF LoadTsc
  <2>4. CASE LoadTscFails
    BY <2>4, Zenon DEF LoadTscFails
  <2> QED BY <1>1, <2>1, <2>2, <2>3, <2>4, Zenon
<1>2. CASE LoadRegion \/ LoadRegionFails
  <2>1. CASE LoadRegion
    BY <2>1 DEF LoadRegion, Users
  <2>2. CASE LoadRegionFails
    BY <2>2, Zenon DEF LoadRegionFails
  <2> QED BY <1>2, <2>1, <2>2, Zenon
<1>3. CASE LoadCdev \/ LoadCdevFails
  <2>1. CASE LoadCdev
    BY <2>1 DEF LoadCdev, Users
  <2>2. CASE LoadCdevFails
    BY <2>2, Zenon DEF LoadCdevFails
  <2> QED BY <1>3, <2>1, <2>2, Zenon
<1>4. CASE LoadClass \/ LoadClassFails
  <2>1. CASE LoadClass
    BY <2>1 DEF LoadClass, Users
  <2>2. CASE LoadClassFails
    BY <2>2, Zenon DEF LoadClassFails
  <2> QED BY <1>4, <2>1, <2>2, Zenon
<1>5. CASE LoadDevice \/ LoadDeviceFails
  <2>1. CASE LoadDevice
    BY <2>1 DEF LoadDevice, Users
  <2>2. CASE LoadDeviceFails
    BY <2>2, Zenon DEF LoadDeviceFails
  <2> QED BY <1>5, <2>1, <2>2, Zenon
<1>6. CASE LoadBuffers \/ LoadBuffersFail
  BY <1>6, Zenon DEF LoadBuffers, LoadBuffersFail
<1>7. CASE LoadPoller \/ LoadPollerFails
  BY <1>7, Zenon DEF LoadPoller, LoadPollerFails
<1>8. CASE LoadLog
  BY <1>8 DEF LoadLog
<1>9. CASE LoadLogger \/ LoadLoggerFails
  BY <1>9, Zenon DEF LoadLogger, LoadLoggerFails
<1>10. CASE LoadWq
  <2>1. CASE instructed
    BY <1>10, <2>1, Zenon DEF LoadWq
  <2>2. CASE ~instructed
    BY <1>10, <2>2, Zenon DEF LoadWq
  <2> QED BY <2>1, <2>2, Zenon
<1>11. CASE LoadWqFails
  BY <1>11, Zenon DEF LoadWqFails
<1> QED
  BY <1>1, <1>2, <1>3, <1>4, <1>5, <1>6, <1>7, <1>8, <1>9, <1>10, <1>11, Zenon
  DEF LoadStep

(* cleanup.                                                                *)
LEMMA LifeUnload == ASSUME LifeInv, UnloadStep PROVE LifeInv'
<1> USE DEF LifeInv, LoadingInv, LiveInv, UnloadingInv, DevRes, Resources, DropRes
<1>1. CASE Rmmod
  BY <1>1, Zenon DEF Rmmod
<1>2. CASE StopLogger \/ StopPoller \/ DestroyWq
  BY <1>2, Zenon DEF StopLogger, StopPoller, DestroyWq
<1>3. CASE FreeRest
  BY <1>3 DEF FreeRest, Users
<1>4. CASE RemoveDevice
  BY <1>4, Zenon DEF RemoveDevice
<1> QED BY <1>1, <1>2, <1>3, <1>4, Zenon DEF UnloadStep

(* Whatever the threads do, what the module holds does not change.         *)
LEMMA LifeOther ==
  ASSUME LifeInv, UNCHANGED kernelVars PROVE LifeInv'
BY DEF LifeInv, LoadingInv, LiveInv, UnloadingInv, kernelVars

(* No call of the API acquires or releases anything of the module.         *)
LEMMA ThreadsLeaveKernel ==
  ASSUME NEW t \in Threads, ThreadStep(t) PROVE UNCHANGED kernelVars
<1>1. ASSUME NEW call \in ApiCalls, Open(t, call) PROVE UNCHANGED kernelVars
  BY <1>1, Zenon DEF Open
<1> QED
  BY <1>1, Zenon DEF ThreadStep, IoctlBadFd, IoctlStale, StartMonitor, Pause, InstructedLog, TscTest,
              TscCalibrate, TscCopy, TscStale, Close, CloseAgain

-----------------------------------------------------------------------------
(* The inductive step.                                                     *)
LEMMA LifeInvStep == ASSUME LifeInv, [LifeNext]_lifeVars PROVE LifeInv'
<1>1. CASE Insmod
  BY <1>1, Zenon DEF Insmod, LifeInv, LoadingInv, LiveInv, UnloadingInv, Resources
<1>2. CASE LoggerWrites
  BY <1>2, LifeOther, Zenon DEF LoggerWrites
<1>3. CASE \E t \in Threads : ThreadStep(t)
  BY <1>3, LifeOther, ThreadsLeaveKernel, Zenon
<1>4. CASE UNCHANGED lifeVars
  BY <1>4, LifeOther, Zenon DEF lifeVars, kernelVars
<1> QED BY <1>1, <1>2, <1>3, <1>4, LifeLoad, LifeUnload, Zenon DEF LifeNext, LifeFinished

(* The invariant holds in every reachable state.                           *)
LEMMA LifeInvHolds == LifeSpec => []LifeInv
<1>1. LifeInit => LifeInv
  BY Zenon DEF LifeInit, LifeInv, LoadingInv, LiveInv, UnloadingInv
<1>2. LifeInv /\ [LifeNext]_lifeVars => LifeInv'
  BY LifeInvStep, Zenon
<1> QED BY <1>1, <1>2, PTL DEF LifeSpec

(* hrperf.c: a load that fails anywhere leaves the device whole or not at  *)
(* all, a module that is up stands alone, and cleanup takes its users down *)
(* before the buffers.                                                     *)
THEOREM LoadsCorrect == LifeSpec => []LoadsLeaveNoTrace
BY LifeInvHolds, LifeInvImplies, PTL

(* hrperf.c: once hrp_pmc_init has returned 0, everything the ioctls use   *)
(* without a test is there.                                                *)
THEOREM LiveIsReady == LifeSpec => []ReadyWhenLive
BY LifeInvHolds, LifeInvImplies, PTL

-----------------------------------------------------------------------------
(* The calls of the API.                                                   *)

Busy == {"ioctl", "calibrate", "copy", "close"}

ThreadStates ==
  [at : Busy \cup {"idle", "close2"}, call : ApiCalls, fd : Fds \cup {NoFd}, inst : Nat,
   ok : BOOLEAN, reply : {0, 1}]

CallTypes ==
  /\ insmods \in Nat /\ calls \in Nat /\ cycles \in {0, 1} /\ build \in Builds
  /\ files \in [Fds -> Nat]
  /\ thr \in [Threads -> ThreadStates]

(* A load whose device some file or ioctl still uses: while it loads it    *)
(* has the device, it does not unload, and if it is gone it failed and     *)
(* left its device behind.                                                 *)
InUseOK(i) ==
  /\ i <= insmods
  /\ i # insmods \/ phase = "out" => lost # {}
  /\ i = insmods /\ phase = "loading" => "device" \in held
  /\ i = insmods => phase # "unloading"

UseInv ==
  /\ phase # "out" => insmods > 0
  /\ \A f \in Fds : files[f] # 0 => InUseOK(files[f])
  /\ \A t \in Threads :
       thr[t].at \in {"calibrate", "copy"} => thr[t].inst # 0 /\ InUseOK(thr[t].inst)

(* A build that calibrates at load has the frequency before the device, so *)
(* that no ioctl calibrates.                                               *)
CyclesInv ==
  build.tsc =>
    /\ phase = "live" \/ (phase = "loading" /\ step \notin {"mbm", "tsc"}) => cycles = 1
    /\ \A t \in Threads : thr[t].at # "calibrate"
    /\ TscReplies

(* Every open descriptor is that of a call in progress.                    *)
OwnerInv ==
  \A f \in Fds : files[f] # 0 => \E t \in Threads : thr[t].at \in Busy /\ thr[t].fd = f

(* Until a failed hrperf_instruct_log has closed a descriptor of somebody  *)
(* else, every call has its own, and it is open.                           *)
FdInv ==
  /\ \A t \in Threads : thr[t].at = "close2" => thr[t].call = "log"
  /\ doubledBy \in {"none", "log"}
  /\ doubledBy = "none" =>
       /\ \A t \in Threads : thr[t].at \in Busy /\ thr[t].fd # NoFd => files[thr[t].fd] # 0
       /\ \A t, u \in Threads :
            thr[t].at \in Busy /\ thr[u].at \in Busy /\ thr[t].fd = thr[u].fd /\ thr[t].fd # NoFd
              => t = u

CallInv == CallTypes /\ UseInv /\ CyclesInv /\ OwnerInv /\ FdInv /\ FaultsOnlyInWindows

-----------------------------------------------------------------------------
(* What a call of the API does to a thread and to the descriptors: the     *)
(* ioctl goes on, an open succeeds or fails, and the two closes.           *)

Others(t) == \A u \in Threads \ {t} : thr'[u] = thr[u]

GoesOn(t) ==
  /\ Others(t) /\ files' = files /\ doubledBy' = doubledBy
  /\ thr[t].at \in Busy /\ thr'[t].at \in Busy
  /\ thr'[t].fd = thr[t].fd /\ thr'[t].call = thr[t].call

Opens(t) ==
  /\ Others(t) /\ doubledBy' = doubledBy /\ thr[t].at = "idle" /\ thr'[t].at = "ioctl"
  /\ phase \in {"loading", "live"} /\ "device" \in held
  /\ thr'[t].fd \in Fds /\ files[thr'[t].fd] = 0
  /\ files' = [files EXCEPT ![thr'[t].fd] = insmods]

OpenFails(t) ==
  /\ Others(t) /\ files' = files /\ doubledBy' = doubledBy
  /\ thr[t].at = "idle" /\ thr'[t].at \in {"idle", "ioctl"} /\ thr'[t].fd = NoFd

Closes(t) ==
  /\ Others(t) /\ doubledBy' = doubledBy /\ thr[t].at = "close"
  /\ files' = Closed(thr[t].fd)
  /\ thr'[t].at \in {"idle", "close2"}
  /\ thr'[t].at = "close2" => thr'[t].call = "log"

ClosesAgain(t) ==
  /\ Others(t) /\ thr[t].at = "close2" /\ thr'[t].at = "idle"
  /\ files' = Closed(thr[t].fd)
  /\ doubledBy' = IF thr[t].fd \in OpenFds THEN thr[t].call ELSE doubledBy

ApiStep(t) == GoesOn(t) \/ Opens(t) \/ OpenFails(t) \/ Closes(t) \/ ClosesAgain(t)

(* A thread's step leaves the other threads alone.                         *)
LEMMA ThreadUpdate ==
  ASSUME CallTypes, NEW t \in Threads, NEW r \in ThreadStates, Step(t, r),
         UNCHANGED kernelVars, calls' \in Nat, cycles' \in {0, 1}, files' \in [Fds -> Nat]
  PROVE  Others(t) /\ thr'[t] = r /\ CallTypes'
BY Zenon DEF CallTypes, Step, Others, kernelVars

(* Every handler of the API is one of these.                               *)
LEMMA ApiCases ==
  ASSUME CallTypes, NEW t \in Threads, ThreadStep(t)
  PROVE  ApiStep(t) /\ CallTypes'
<1>0. thr[t] \in ThreadStates /\ files \in [Fds -> Nat] /\ insmods \in Nat
  BY Zenon DEF CallTypes
<1>1. ASSUME NEW call \in ApiCalls, Open(t, call) PROVE ApiStep(t) /\ CallTypes'
  <2> DEFINE there == "device" \in held /\ phase \in {"loading", "live"}
  <2>1. /\ thr[t].at = "idle" /\ doubledBy' = doubledBy /\ calls' \in Nat
        /\ UNCHANGED <<kernelVars, cycles>> /\ cycles' \in {0, 1}
    BY <1>1 DEF Open, CallTypes
  <2>2. CASE there
    <3>1. PICK fd \in Fds :
             /\ LowestFree(fd) /\ files' = [files EXCEPT ![fd] = insmods]
             /\ Step(t, [IdleThread EXCEPT !.at = "ioctl", !.call = call, !.fd = fd])
      BY <1>1, <2>2, Zenon DEF Open
    <3>r. PICK r : r = [IdleThread EXCEPT !.at = "ioctl", !.call = call, !.fd = fd]
      OBVIOUS
    <3>2. r \in ThreadStates /\ r.at = "ioctl" /\ r.fd = fd
      BY <3>r, Zenon DEF IdleThread, ThreadStates, Busy
    <3>3. files' \in [Fds -> Nat] /\ files[fd] = 0
      BY <1>0, <3>1, Zenon DEF LowestFree, OpenFds
    <3>4. Others(t) /\ thr'[t] = r /\ CallTypes'
      BY <2>1, <3>1, <3>r, <3>2, <3>3, ThreadUpdate, Zenon
    <3> QED BY <2>1, <2>2, <3>1, <3>2, <3>3, <3>4, Zenon DEF Opens, ApiStep
  <2>3. CASE ~there
    <3>r. PICK r : r = IF call = "log" THEN [IdleThread EXCEPT !.at = "ioctl", !.call = call]
                       ELSE [IdleThread EXCEPT !.ok = FALSE]
      BY Zenon
    <3>1. files' = files /\ Step(t, r)
      BY <1>1, <2>3, <3>r, Zenon DEF Open
    <3>2. r \in ThreadStates /\ r.at \in {"idle", "ioctl"} /\ r.fd = NoFd
      BY <3>r, Zenon DEF IdleThread, ThreadStates, Busy, ApiCalls
    <3>3. Others(t) /\ thr'[t] = r /\ CallTypes'
      BY <1>0, <2>1, <3>1, <3>2, ThreadUpdate, Zenon
    <3> QED BY <2>1, <3>1, <3>2, <3>3, Zenon DEF OpenFails, ApiStep
  <2> QED BY <2>2, <2>3, Zenon
<1>2. ASSUME NEW r \in ThreadStates, Step(t, r), thr[t].at \in Busy, r.at \in Busy,
             r.fd = thr[t].fd, r.call = thr[t].call,
             UNCHANGED <<kernelVars, files, calls, doubledBy>>, cycles' \in {0, 1}
      PROVE  ApiStep(t) /\ CallTypes'
  <2>1. calls' \in Nat
    BY <1>2, Zenon DEF CallTypes
  <2>2. Others(t) /\ thr'[t] = r /\ CallTypes'
    BY <1>0, <1>2, <2>1, ThreadUpdate, Zenon
  <2> QED BY <1>2, <2>2, Zenon DEF GoesOn, ApiStep
<1>3. ASSUME NEW done \in BOOLEAN, Return(t, done), thr[t].at \in {"ioctl", "calibrate"},
             UNCHANGED <<kernelVars, files, calls, doubledBy>>, cycles' \in {0, 1}
      PROVE  ApiStep(t) /\ CallTypes'
  <2>r. PICK r : r = [thr[t] EXCEPT !.at = "close", !.ok = done]
    OBVIOUS
  <2>1. r \in ThreadStates /\ r.at = "close" /\ r.fd = thr[t].fd /\ r.call = thr[t].call
    BY <1>0, <2>r, Zenon DEF ThreadStates, Busy
  <2> QED BY <1>2, <1>3, <2>r, <2>1, Zenon DEF Return, Busy
<1>4. CASE IoctlBadFd(t) \/ StartMonitor(t) \/ Pause(t) \/ InstructedLog(t)
  <2>1. PICK done \in BOOLEAN : Return(t, done)
    BY <1>4, Zenon DEF IoctlBadFd, StartMonitor, Pause, InstructedLog
  <2>2. thr[t].at = "ioctl" /\ UNCHANGED <<kernelVars, files, calls, doubledBy>> /\ cycles' \in {0, 1}
    BY <1>4, Zenon DEF IoctlBadFd, StartMonitor, Pause, InstructedLog, Ioctl, CallTypes
  <2> QED BY <1>3, <2>1, <2>2, Zenon
<1>5. CASE IoctlStale(t) \/ TscStale(t)
  <2>1. GoesOn(t)
    BY <1>5, Zenon DEF IoctlStale, TscStale, GoesOn, Others, Busy
  <2>2. CallTypes'
    BY <1>5, Zenon DEF IoctlStale, TscStale, kernelVars, CallTypes
  <2> QED BY <2>1, <2>2, Zenon DEF ApiStep
<1>6. CASE TscTest(t)
  <2>r. PICK r : r = [thr[t] EXCEPT !.inst = insmods, !.at = IF cycles = 0 THEN "calibrate" ELSE "copy"]
    OBVIOUS
  <2>1. r \in ThreadStates /\ r.at \in Busy /\ r.fd = thr[t].fd /\ r.call = thr[t].call
    BY <1>0, <2>r, Zenon DEF ThreadStates, Busy
  <2> QED BY <1>2, <1>6, <2>r, <2>1, Zenon DEF TscTest, Ioctl, Busy, CallTypes
<1>7. CASE TscCalibrate(t)
  <2>r. PICK r : r = [thr[t] EXCEPT !.at = "copy"]
    BY Zenon
  <2>1. r \in ThreadStates /\ r.at \in Busy /\ r.fd = thr[t].fd /\ r.call = thr[t].call
    BY <1>0, <2>r, Zenon DEF ThreadStates, Busy
  <2>2. CASE Return(t, FALSE)
    BY <1>3, <1>7, <2>2, Zenon DEF TscCalibrate
  <2>3. CASE Step(t, r)
    BY <1>2, <1>7, <2>1, <2>3, Zenon DEF TscCalibrate, Busy
  <2> QED BY <1>7, <2>r, <2>2, <2>3, Zenon DEF TscCalibrate
<1>8. CASE TscCopy(t)
  <2>r. PICK r : r = [thr[t] EXCEPT !.at = "close", !.reply = cycles]
    OBVIOUS
  <2>1. r \in ThreadStates /\ r.at \in Busy /\ r.fd = thr[t].fd /\ r.call = thr[t].call
    BY <1>0, <2>r, Zenon DEF ThreadStates, Busy, CallTypes
  <2> QED BY <1>2, <1>8, <2>r, <2>1, Zenon DEF TscCopy, Busy, CallTypes
<1>9. Closed(thr[t].fd) \in [Fds -> Nat] /\ IdleThread \in ThreadStates /\ IdleThread.at = "idle"
  BY <1>0, Zenon DEF Closed, IdleThread, ThreadStates, ApiCalls
<1>10. CASE Close(t)
  <2>1. PICK r \in ThreadStates :
          /\ Step(t, r) /\ r.at \in {"idle", "close2"}
          /\ r.at = "close2" => r.call = "log"
    <3>1. [thr[t] EXCEPT !.at = "close2"] \in ThreadStates
      BY <1>0, Zenon DEF ThreadStates
    <3>2. [thr[t] EXCEPT !.at = "close2"].at = "close2"
          /\ [thr[t] EXCEPT !.at = "close2"].call = thr[t].call
      BY <1>0, Zenon DEF ThreadStates
    <3> QED BY <1>9, <1>10, <3>1, <3>2, Zenon DEF Close
  <2>2. /\ thr[t].at = "close" /\ UNCHANGED <<kernelVars, doubledBy>>
        /\ files' = Closed(thr[t].fd) /\ calls' \in Nat /\ cycles' \in {0, 1}
    BY <1>10, Zenon DEF Close, CallTypes
  <2>3. Others(t) /\ thr'[t] = r /\ CallTypes'
    BY <1>9, <2>1, <2>2, ThreadUpdate, Zenon
  <2> QED BY <2>1, <2>2, <2>3, Zenon DEF Closes, ApiStep
<1>11. CASE CloseAgain(t)
  <2>1. /\ thr[t].at = "close2" /\ UNCHANGED kernelVars /\ Step(t, IdleThread)
        /\ files' = Closed(thr[t].fd) /\ calls' \in Nat /\ cycles' \in {0, 1}
        /\ doubledBy' = IF thr[t].fd \in OpenFds THEN thr[t].call ELSE doubledBy
    BY <1>11, Zenon DEF CloseAgain, CallTypes
  <2>2. Others(t) /\ thr'[t] = IdleThread /\ CallTypes'
    BY <1>9, <2>1, ThreadUpdate, Zenon
  <2> QED BY <1>9, <2>1, <2>2, Zenon DEF ClosesAgain, ApiStep
<1> QED
  BY <1>1, <1>4, <1>5, <1>6, <1>7, <1>8, <1>10, <1>11, Zenon DEF ThreadStep

(* No call leaves a descriptor without a call in progress that owns it.    *)
LEMMA OwnerStep ==
  ASSUME CallTypes, OwnerInv, NEW t \in Threads, ApiStep(t) PROVE OwnerInv'
<1> SUFFICES ASSUME NEW f \in Fds, files'[f] # 0
             PROVE  \E u \in Threads : thr'[u].at \in Busy /\ thr'[u].fd = f
  BY Zenon DEF OwnerInv
<1>1. ASSUME files[f] # 0, thr[t].at \in Busy /\ thr[t].fd = f => thr'[t].at \in Busy /\ thr'[t].fd = f,
             Others(t)
      PROVE  \E u \in Threads : thr'[u].at \in Busy /\ thr'[u].fd = f
  BY <1>1, Zenon DEF OwnerInv, Others
<1>2. CASE GoesOn(t)
  BY <1>1, <1>2, Zenon DEF GoesOn
<1>3. CASE Opens(t)
  <2>1. CASE f = thr'[t].fd
    BY <1>3, <2>1, Zenon DEF Opens, Busy
  <2>2. CASE f # thr'[t].fd
    BY <1>1, <1>3, <2>2, Zenon DEF Opens, Busy, CallTypes
  <2> QED BY <2>1, <2>2, Zenon
<1>4. CASE OpenFails(t)
  BY <1>1, <1>4, Zenon DEF OpenFails, Busy
<1>5. CASE Closes(t) \/ ClosesAgain(t)
  <2>1. files[f] # 0 /\ f # thr[t].fd /\ Others(t)
    BY <1>5, Zenon DEF Closes, ClosesAgain, Closed
  <2> QED BY <1>1, <2>1, Zenon
<1> QED BY <1>2, <1>3, <1>4, <1>5, Zenon DEF ApiStep

(* A descriptor is closed only by its owner until one has been closed      *)
(* twice.                                                                  *)
LEMMA FdStep ==
  ASSUME CallTypes, FdInv, NEW t \in Threads, ApiStep(t), phase # "out" => insmods > 0 PROVE FdInv'
<1> DEFINE Has(u) == thr[u].at \in Busy /\ thr[u].fd # NoFd
           Has2(u) == thr'[u].at \in Busy /\ thr'[u].fd # NoFd
<1>0. \A u \in Threads \ {t} : thr'[u] = thr[u]
  BY Zenon DEF ApiStep, GoesOn, Opens, OpenFails, Closes, ClosesAgain, Others
<1>1. ASSUME NEW u \in Threads, thr'[u].at = "close2" PROVE thr'[u].call = "log"
  <2>1. CASE u # t
    BY <1>0, <1>1, <2>1, Zenon DEF FdInv
  <2>2. CASE u = t
    BY <1>1, <2>2, Zenon DEF FdInv, ApiStep, GoesOn, Opens, OpenFails, Closes, ClosesAgain, Busy
  <2> QED BY <2>1, <2>2, Zenon
<1>2. doubledBy' \in {"none", "log"} /\ (doubledBy' = "none" => doubledBy = "none")
  BY Zenon DEF FdInv, ApiStep, GoesOn, Opens, OpenFails, Closes, ClosesAgain
<1>3. ASSUME doubledBy' = "none"
      PROVE  /\ \A u \in Threads : Has2(u) => files'[thr'[u].fd] # 0
             /\ \A u, v \in Threads : Has2(u) /\ Has2(v) /\ thr'[u].fd = thr'[v].fd => u = v
  <2>1. /\ \A u \in Threads : Has(u) => files[thr[u].fd] # 0
        /\ \A u, v \in Threads : Has(u) /\ Has(v) /\ thr[u].fd = thr[v].fd => u = v
    BY <1>2, <1>3, Zenon DEF FdInv
  <2>2. CASE GoesOn(t)
    <3>1. \A u \in Threads : (Has2(u) <=> Has(u)) /\ thr'[u].fd = thr[u].fd
      BY <1>0, <2>2, Zenon DEF GoesOn
    <3> QED BY <2>1, <2>2, <3>1, ZenonT(30) DEF GoesOn
  <2>3. CASE OpenFails(t)
    <3>1. \A u \in Threads : Has2(u) => u # t /\ Has(u) /\ thr'[u].fd = thr[u].fd
      BY <1>0, <2>3, Zenon DEF OpenFails
    <3> QED BY <2>1, <2>3, <3>1, Zenon DEF OpenFails
  <2>4. CASE Opens(t)
    <3>1. \A u \in Threads : Has2(u) => u = t \/ (Has(u) /\ thr'[u].fd = thr[u].fd)
      BY <1>0, <2>4, Zenon
    <3>2. \A u \in Threads : Has(u) => thr[u].fd # thr'[t].fd
      BY <2>1, <2>4, Zenon DEF Opens
    <3>3. files'[thr'[t].fd] # 0 /\ \A f \in Fds : files[f] # 0 => files'[f] # 0
      BY <2>4 DEF Opens, CallTypes
    <3>4. \A u \in Threads : Has(u) => thr[u].fd \in Fds
      BY Zenon DEF CallTypes, ThreadStates
    <3> HIDE DEF Has, Has2
    <3>5. ASSUME NEW u \in Threads, Has2(u) PROVE files'[thr'[u].fd] # 0
      BY <3>5, <3>1, <3>3, <3>4, <2>1, Zenon
    <3>6. ASSUME NEW u \in Threads, NEW v \in Threads, Has2(u), Has2(v), thr'[u].fd = thr'[v].fd
          PROVE  u = v
      BY <3>6, <3>1, <3>2, <2>1, Zenon
    <3> QED BY <3>5, <3>6, Zenon
  <2>5. CASE Closes(t) \/ ClosesAgain(t)
    <3>1. thr'[t].at \notin Busy
      BY <2>5, Zenon DEF Closes, ClosesAgain, Busy
    <3>2. \A u \in Threads : Has2(u) => u # t /\ Has(u) /\ thr'[u].fd = thr[u].fd
      BY <1>0, <3>1, Zenon
    <3>3. ASSUME NEW u \in Threads, Has(u), u # t PROVE thr[u].fd # thr[t].fd
      <4>1. CASE Closes(t)
        BY <3>3, <2>1, <4>1, Zenon DEF Closes, Busy
      <4>2. CASE ClosesAgain(t)
        <5>1. thr[t].fd \notin OpenFds
          BY <4>2, <1>3, Zenon DEF ClosesAgain, FdInv
        <5> QED BY <3>3, <2>1, <5>1, Zenon DEF OpenFds, CallTypes, ThreadStates
      <4> QED BY <2>5, <4>1, <4>2, Zenon
    <3>4. \A f \in Fds : f # thr[t].fd => files'[f] = files[f]
      BY <2>5, Zenon DEF Closes, ClosesAgain, Closed
    <3>5. \A u \in Threads : Has(u) => thr[u].fd \in Fds
      BY Zenon DEF CallTypes, ThreadStates
    <3> HIDE DEF Has, Has2
    <3>6. ASSUME NEW u \in Threads, Has2(u) PROVE files'[thr'[u].fd] # 0
      BY <3>6, <2>1, <3>2, <3>3, <3>4, <3>5, Zenon
    <3>7. ASSUME NEW u \in Threads, NEW v \in Threads, Has2(u), Has2(v), thr'[u].fd = thr'[v].fd
          PROVE  u = v
      BY <3>7, <2>1, <3>2, Zenon
    <3> QED BY <3>6, <3>7, Zenon
  <2> QED BY <2>2, <2>3, <2>4, <2>5, Zenon DEF ApiStep
<1> HIDE DEF Has, Has2
<1>4. ASSUME doubledBy' = "none"
      PROVE  /\ \A u \in Threads : thr'[u].at \in Busy /\ thr'[u].fd # NoFd => files'[thr'[u].fd] # 0
             /\ \A u, v \in Threads :
                  thr'[u].at \in Busy /\ thr'[v].at \in Busy /\ thr'[u].fd = thr'[v].fd
                  /\ thr'[u].fd # NoFd => u = v
  BY <1>3, <1>4, Zenon DEF Has2
<1> QED BY <1>1, <1>2, <1>4, Zenon DEF FdInv

(* The steps of hrp_pmc_init and of cleanup leave whoever uses the device  *)
(* with a device, or with what a failed load left.                         *)
KernelStep == Insmod \/ LoadStep \/ UnloadStep

(* hrp_pmc_init and cleanup touch neither files nor threads.               *)
LEMMA KernelFrame ==
  ASSUME CallTypes, KernelStep
  PROVE  /\ UNCHANGED <<build, files, thr, calls, doubledBy, fault>>
         /\ CallTypes'
<1>1. UNCHANGED <<build, files, thr, calls, doubledBy, fault>>
  BY Zenon DEF KernelStep, Insmod, LoadStep, UnloadStep, LoadMbm, LoadMbmFails, LoadTsc, LoadTscFails,
         LoadRegion, LoadRegionFails, LoadCdev, LoadCdevFails, LoadClass, LoadClassFails, LoadDevice,
         LoadDeviceFails, LoadBuffers, LoadBuffersFail, LoadPoller, LoadPollerFails, LoadLog,
         LoadLogger, LoadLoggerFails, LoadWq, LoadWqFails, TakeRes, Fail, Rmmod, StopLogger,
         StopPoller, DestroyWq, FreeRest, RemoveDevice, DropRes
<1>2. insmods' \in Nat /\ cycles' \in {0, 1}
  <2>1. CASE Insmod
    BY <2>1 DEF Insmod, CallTypes
  <2>2. CASE LoadStep \/ UnloadStep
    <3>1. insmods' = insmods /\ (cycles' = cycles \/ cycles' = 1)
      BY <2>2, Zenon DEF LoadStep, UnloadStep, LoadMbm, LoadMbmFails, LoadTsc, LoadTscFails,
         LoadRegion, LoadRegionFails, LoadCdev, LoadCdevFails, LoadClass, LoadClassFails, LoadDevice,
         LoadDeviceFails, LoadBuffers, LoadBuffersFail, LoadPoller, LoadPollerFails, LoadLog,
         LoadLogger, LoadLoggerFails, LoadWq, LoadWqFails, TakeRes, Fail, Rmmod, StopLogger,
         StopPoller, DestroyWq, FreeRest, RemoveDevice, DropRes
    <3> QED BY <3>1, Zenon DEF CallTypes
  <2> QED BY <2>1, <2>2, Zenon DEF KernelStep
<1> QED BY <1>1, <1>2, Zenon DEF CallTypes

(* What a step of the load does to phase, held and lost.                   *)
LEMMA LoadEffect ==
  ASSUME LifeInv, LoadStep
  PROVE  /\ insmods' = insmods /\ phase = "loading"
         /\ \/ phase' \in {"loading", "live"} /\ held \subseteq held' /\ lost' = lost
            \/ /\ phase' = "out" /\ lost \subseteq lost'
               /\ "device" \in held => "device" \in lost'
<1> USE DEF At
<1>1. ASSUME NEW s, NEW r, NEW n, TakeRes(s, r, n)
      PROVE  /\ insmods' = insmods /\ phase = "loading"
             /\ phase' \in {"loading", "live"} /\ held \subseteq held' /\ lost' = lost
  BY <1>1, Zenon DEF TakeRes
<1>2. ASSUME NEW s, NEW undo, Fail(s, undo), "device" \notin undo
      PROVE  /\ insmods' = insmods /\ phase = "loading"
             /\ phase' = "out" /\ lost \subseteq lost'
             /\ "device" \in held => "device" \in lost'
  BY <1>2, Zenon DEF Fail
<1>3. CASE LoadWq
  BY <1>3, Zenon DEF LoadWq
<1>4. CASE \/ LoadMbm \/ LoadTsc \/ LoadRegion \/ LoadCdev \/ LoadClass \/ LoadDevice
           \/ LoadBuffers \/ LoadPoller \/ LoadLog \/ LoadLogger
  <2>1. \E s, r, n : TakeRes(s, r, n)
    BY <1>4, Zenon DEF LoadMbm, LoadTsc, LoadRegion, LoadCdev, LoadClass, LoadDevice, LoadBuffers,
                LoadPoller, LoadLog, LoadLogger
  <2> QED BY <1>1, <2>1, Zenon
<1>5. CASE \/ LoadMbmFails \/ LoadTscFails \/ LoadRegionFails \/ LoadCdevFails \/ LoadClassFails
           \/ LoadDeviceFails \/ LoadBuffersFail \/ LoadPollerFails \/ LoadLoggerFails \/ LoadWqFails
  <2>1. \E s : \E undo \in {{}, {"region"}, {"region", "cdev"}, {"region", "cdev", "class"}} :
          Fail(s, undo)
    BY <1>5, Zenon DEF LoadMbmFails, LoadTscFails, LoadRegionFails, LoadCdevFails, LoadClassFails,
                LoadDeviceFails, LoadBuffersFail, LoadPollerFails, LoadLoggerFails, LoadWqFails
  <2> QED BY <1>2, <2>1, Zenon
<1> QED BY <1>3, <1>4, <1>5, Zenon DEF LoadStep

(* cleanup keeps what a failed load left.                                  *)
LEMMA UnloadEffect ==
  ASSUME UnloadStep
  PROVE  /\ insmods' = insmods /\ lost' = lost
         /\ \/ phase = "live" /\ phase' = "unloading" /\ ~InUse
            \/ phase = "unloading" /\ phase' \in {"unloading", "out"}
<1>1. ASSUME NEW s, NEW r, NEW n, DropRes(s, r, n)
      PROVE  insmods' = insmods /\ lost' = lost /\ phase = "unloading" /\ phase' \in {"unloading", "out"}
  BY <1>1, Zenon DEF DropRes
<1>2. CASE Rmmod
  BY <1>2, Zenon DEF Rmmod
<1>3. CASE StopLogger \/ StopPoller \/ DestroyWq \/ FreeRest \/ RemoveDevice
  <2>1. \E s, r, n : DropRes(s, r, n)
    BY <1>3, Zenon DEF StopLogger, StopPoller, DestroyWq, FreeRest, RemoveDevice
  <2> QED BY <1>1, <2>1, Zenon
<1> QED BY <1>2, <1>3, Zenon DEF UnloadStep

(* The steps of loading and unloading keep what is known of descriptors in *)
(* use: a load that fails while somebody has the device leaves it behind,  *)
(* and cleanup waits until nobody has.                                     *)
LEMMA UseKernel ==
  ASSUME LifeInv, CallTypes, UseInv, KernelStep PROVE UseInv'
<1>1. UNCHANGED <<files, thr>> /\ insmods \in Nat
  BY KernelFrame, Zenon DEF CallTypes
<1>2. ASSUME NEW i \in Nat, InUseOK(i),
             phase = "live" /\ phase' = "unloading" => i # insmods
      PROVE  InUseOK(i)'
  <2>1. CASE Insmod
    BY <1>1, <1>2, <2>1 DEF Insmod, InUseOK
  <2>2. CASE LoadStep
    BY <1>1, <1>2, <2>2, LoadEffect, Zenon DEF InUseOK
  <2>3. CASE UnloadStep
    BY <1>1, <1>2, <2>3, UnloadEffect, Zenon DEF InUseOK
  <2> QED BY <2>1, <2>2, <2>3, Zenon DEF KernelStep
<1>3. phase' # "out" => insmods' > 0
  <2>1. CASE Insmod
    BY <1>1, <2>1 DEF Insmod
  <2>2. CASE LoadStep
    BY <1>1, <2>2, LoadEffect, Zenon DEF UseInv
  <2>3. CASE UnloadStep
    BY <1>1, <2>3, UnloadEffect, Zenon DEF UseInv
  <2> QED BY <2>1, <2>2, <2>3, Zenon DEF KernelStep
<1>4. phase = "live" /\ phase' = "unloading" => ~InUse
  BY LoadEffect, UnloadEffect, Zenon DEF KernelStep, Insmod
<1>5. ASSUME NEW f \in Fds, files'[f] # 0 PROVE InUseOK(files[f])'
  <2>1. files'[f] = files[f] /\ files[f] \in Nat
    BY <1>1, Zenon DEF CallTypes
  <2>2. PICK i : i = files[f]
    OBVIOUS
  <2>3. InUseOK(i)'
    BY <1>2, <1>4, <1>5, <2>1, <2>2, Zenon DEF UseInv, InUse
  <2> QED BY <2>1, <2>2, <2>3, Zenon DEF InUseOK
<1>6. ASSUME NEW t \in Threads, thr'[t].at \in {"calibrate", "copy"}
      PROVE  thr'[t].inst # 0 /\ InUseOK(thr[t].inst)'
  <2>1. thr'[t] = thr[t] /\ thr[t].inst \in Nat
    BY <1>1, Zenon DEF CallTypes, ThreadStates
  <2>2. PICK i : i = thr[t].inst
    OBVIOUS
  <2>3. InUseOK(i)' /\ thr[t].inst # 0
    BY <1>2, <1>4, <1>6, <2>1, <2>2, Zenon DEF UseInv, InUse
  <2> QED BY <2>1, <2>2, <2>3, Zenon DEF InUseOK
<1> QED BY <1>3, <1>5, <1>6, Zenon DEF UseInv

(* A call uses a load that is there, and its ioctl the one it opened.      *)
LEMMA UseThread ==
  ASSUME LifeInv, CallTypes, UseInv, NEW t \in Threads, ThreadStep(t) PROVE UseInv'
<1>1. UNCHANGED kernelVars /\ ApiStep(t) /\ CallTypes' /\ insmods \in Nat
  BY ThreadsLeaveKernel, ApiCases, Zenon DEF CallTypes
<1>2. \A i : InUseOK(i) => InUseOK(i)'
  BY <1>1, Zenon DEF InUseOK, kernelVars
<1>3. phase' # "out" => insmods' > 0
  BY <1>1, Zenon DEF UseInv, kernelVars
<1>4. ASSUME NEW f \in Fds, files'[f] # 0 PROVE InUseOK(files'[f])
  <2>1. CASE Opens(t) /\ f = thr'[t].fd
    <3>1. files'[f] = insmods /\ "device" \in held /\ phase \in {"loading", "live"}
      BY <2>1, Zenon DEF Opens, CallTypes
    <3> QED BY <1>1, <3>1 DEF InUseOK
  <2>2. CASE ~(Opens(t) /\ f = thr'[t].fd)
    <3>1. files'[f] = files[f]
      BY <1>1, <1>4, <2>2, Zenon DEF ApiStep, GoesOn, Opens, OpenFails, Closes, ClosesAgain, Closed, CallTypes
    <3> QED BY <1>4, <3>1, Zenon DEF UseInv
  <2> QED BY <2>1, <2>2, Zenon
<1>5. ASSUME NEW u \in Threads, thr'[u].at \in {"calibrate", "copy"}
      PROVE  thr'[u].inst # 0 /\ InUseOK(thr'[u].inst)
  <2>1. CASE u # t
    <3>1. thr'[u] = thr[u]
      BY <1>1, <2>1, Zenon DEF ApiStep, GoesOn, Opens, OpenFails, Closes, ClosesAgain, Others
    <3> QED BY <1>5, <3>1, Zenon DEF UseInv
  <2>2. CASE u = t
    <3>1. CASE TscTest(t)
      <4>1. thr'[t].inst = insmods /\ thr[t].fd \in Fds /\ files[thr[t].fd] # 0
            /\ files[thr[t].fd] = insmods
        BY <3>1, Zenon DEF TscTest, Ioctl, OpenFds, Gone, Step, CallTypes, ThreadStates
      <4> QED BY <2>2, <4>1, Zenon DEF UseInv
    <3>2. CASE TscCalibrate(t)
      <4>1. thr[t].at = "calibrate" /\ thr'[t].inst = thr[t].inst
        BY <3>2, Zenon DEF TscCalibrate, Return, Step, CallTypes, ThreadStates
      <4> QED BY <2>2, <4>1, Zenon DEF UseInv
    <3>3. CASE IoctlStale(t) \/ TscStale(t)
      BY <1>5, <2>2, <3>3, Zenon DEF IoctlStale, TscStale, UseInv
    <3>4. CASE TscCopy(t)
      <4>1. thr'[t].at = "close"
        BY <3>4, Zenon DEF TscCopy, Step, CallTypes, ThreadStates
      <4> QED BY <1>5, <2>2, <4>1, Zenon
    <3>5. CASE IoctlBadFd(t) \/ StartMonitor(t) \/ Pause(t) \/ InstructedLog(t)
      <4>1. PICK done \in BOOLEAN : Return(t, done)
        BY <3>5, Zenon DEF IoctlBadFd, StartMonitor, Pause, InstructedLog
      <4>2. thr'[t].at = "close"
        BY <4>1, Zenon DEF Return, Step, CallTypes, ThreadStates
      <4> QED BY <1>5, <2>2, <4>2, Zenon
    <3>6. CASE (\E call \in ApiCalls : Open(t, call)) \/ Close(t) \/ CloseAgain(t)
      <4>1. /\ thr[t].at \in {"idle", "close", "close2"}
            /\ Close(t) => thr[t].at = "close"
            /\ CloseAgain(t) => thr[t].at = "close2"
        BY <3>6, Zenon DEF Open, Close, CloseAgain
      <4>2. CASE GoesOn(t)
        <5>1. Close(t) /\ thr[t].at = "close"
          BY <3>6, <4>1, <4>2, Zenon DEF GoesOn, Open, Busy
        <5> QED BY <1>5, <2>2, <5>1, Zenon DEF Close, Step, IdleThread, CallTypes, ThreadStates
      <4>3. CASE ~GoesOn(t)
        BY <1>1, <1>5, <2>2, <4>3, Zenon DEF ApiStep, Opens, OpenFails, Closes, ClosesAgain
      <4> QED BY <4>2, <4>3, Zenon
    <3> QED BY <3>1, <3>2, <3>3, <3>4, <3>5, <3>6, Zenon DEF ThreadStep
  <2> QED BY <2>1, <2>2, Zenon
<1>6. \A f \in Fds : files'[f] # 0 => InUseOK(files[f])'
  BY <1>1, <1>4, Zenon DEF InUseOK, kernelVars
<1>7. \A u \in Threads :
        thr'[u].at \in {"calibrate", "copy"} => thr'[u].inst # 0 /\ InUseOK(thr[u].inst)'
  BY <1>1, <1>5, Zenon DEF InUseOK, kernelVars
<1> QED BY <1>3, <1>6, <1>7, Zenon DEF UseInv

(* With the frequency there before the device is, no ioctl calibrates, and *)
(* none replies with 0.                                                    *)
LEMMA CyclesKernel ==
  ASSUME LifeInv, CallTypes, CyclesInv, KernelStep PROVE CyclesInv'
<1>1. UNCHANGED <<build, thr>>
  BY KernelFrame, Zenon
<1>2. ASSUME build.tsc, phase' = "live" \/ (phase' = "loading" /\ step' \notin {"mbm", "tsc"})
      PROVE  cycles' = 1
  <2>1. CASE Insmod
    BY <1>2, <2>1, Zenon DEF Insmod
  <2>2. CASE UnloadStep
    BY <1>2, <2>2, UnloadEffect, Zenon
  <2>3. CASE LoadStep
    <3>1. CASE LoadTsc
      BY <1>2, <3>1, ZenonT(30) DEF LoadTsc
    <3>2. CASE ~LoadTsc
      BY <1>2, <2>3, <3>2
      DEF LoadStep, LoadMbm, LoadMbmFails, LoadTscFails, LoadRegion, LoadRegionFails, LoadCdev,
          LoadCdevFails, LoadClass, LoadClassFails, LoadDevice, LoadDeviceFails, LoadBuffers,
          LoadBuffersFail, LoadPoller, LoadPollerFails, LoadLog, LoadLogger, LoadLoggerFails,
          LoadWq, LoadWqFails, TakeRes, Fail, At, CyclesInv
    <3> QED BY <3>1, <3>2, Zenon
  <2> QED BY <2>1, <2>2, <2>3, Zenon DEF KernelStep
<1> QED BY <1>1, <1>2, Zenon DEF CyclesInv, TscReplies

(* No ioctl unsets or recalibrates the frequency of a build that has it    *)
(* since its load.                                                         *)
LEMMA CyclesThread ==
  ASSUME LifeInv, CallTypes, UseInv, CyclesInv, NEW t \in Threads, ThreadStep(t) PROVE CyclesInv'
<1> SUFFICES ASSUME build.tsc PROVE CyclesInv'
  BY ThreadsLeaveKernel, Zenon DEF CyclesInv, kernelVars
<1>1. UNCHANGED kernelVars /\ CallTypes' /\ ApiStep(t)
  BY ThreadsLeaveKernel, ApiCases, Zenon
<1>2. \A u \in Threads : thr[u].at # "calibrate" /\ thr[u].reply # 0
  BY Zenon DEF CyclesInv, TscReplies
<1>3. \A u \in Threads \ {t} : thr'[u] = thr[u]
  BY <1>1, Zenon DEF ApiStep, GoesOn, Opens, OpenFails, Closes, ClosesAgain, Others
<1>4. ASSUME NEW i \in Nat, InUseOK(i), ~Gone(i) PROVE cycles = 1
  <2>1. i = insmods /\ phase # "out" /\ phase # "unloading"
    BY <1>4, Zenon DEF InUseOK, Gone
  <2>2. phase = "loading" => step \notin {"mbm", "tsc"}
    BY <1>4, <2>1, Zenon DEF InUseOK, LifeInv, LoadingInv
  <2> QED BY <2>1, <2>2, Zenon DEF CyclesInv, LifeInv
<1>5. cycles' = cycles /\ thr'[t].at # "calibrate" /\ thr'[t].reply # 0
  <2>1. CASE \E call \in ApiCalls : Open(t, call)
    <3>1. PICK call \in ApiCalls : Open(t, call)
      BY <2>1, Zenon
    <3>2. PICK fd \in Fds :
            \/ Step(t, [IdleThread EXCEPT !.at = "ioctl", !.call = call, !.fd = fd])
            \/ Step(t, [IdleThread EXCEPT !.at = "ioctl", !.call = call])
            \/ Step(t, [IdleThread EXCEPT !.ok = FALSE])
      BY <3>1, Zenon DEF Open
    <3>3. cycles' = cycles
      BY <3>1, Zenon DEF Open
    <3>4. /\ [IdleThread EXCEPT !.at = "ioctl", !.call = call, !.fd = fd].at # "calibrate"
          /\ [IdleThread EXCEPT !.at = "ioctl", !.call = call, !.fd = fd].reply # 0
          /\ [IdleThread EXCEPT !.at = "ioctl", !.call = call].at # "calibrate"
          /\ [IdleThread EXCEPT !.at = "ioctl", !.call = call].reply # 0
          /\ [IdleThread EXCEPT !.ok = FALSE].at # "calibrate"
          /\ [IdleThread EXCEPT !.ok = FALSE].reply # 0
      BY DEF IdleThread
    <3>5. ASSUME NEW r, Step(t, r), r.at # "calibrate", r.reply # 0
          PROVE  thr'[t].at # "calibrate" /\ thr'[t].reply # 0
      BY <3>5, Zenon DEF Step, CallTypes
    <3> QED BY <3>2, <3>3, <3>4, <3>5, Zenon
  <2>2. CASE IoctlBadFd(t) \/ StartMonitor(t) \/ Pause(t) \/ InstructedLog(t)
    <3>1. PICK done \in BOOLEAN : Return(t, done) /\ cycles' = cycles
      BY <2>2, Zenon DEF IoctlBadFd, StartMonitor, Pause, InstructedLog
    <3> QED BY <1>2, <3>1, Zenon DEF Return, Step, CallTypes, ThreadStates
  <2>3. CASE IoctlStale(t) \/ TscStale(t)
    BY <1>2, <2>3, Zenon DEF IoctlStale, TscStale
  <2>4. CASE TscTest(t)
    <3>1. thr[t].fd \in Fds /\ files[thr[t].fd] # 0 /\ ~Gone(files[thr[t].fd])
          /\ files[thr[t].fd] \in Nat
      BY <2>4, Zenon DEF TscTest, Ioctl, OpenFds, CallTypes
    <3>2. cycles = 1
      BY <1>4, <3>1, Zenon DEF UseInv
    <3> QED BY <1>2, <2>4, <3>2 DEF TscTest, Step, CallTypes, ThreadStates
  <2>5. CASE TscCalibrate(t)
    BY <1>2, <2>5, Zenon DEF TscCalibrate
  <2>6. CASE TscCopy(t)
    <3>1. thr[t].inst \in Nat /\ InUseOK(thr[t].inst) /\ ~Gone(thr[t].inst)
      BY <2>6, Zenon DEF TscCopy, UseInv, CallTypes, ThreadStates
    <3>2. cycles = 1
      BY <1>4, <3>1, Zenon
    <3> QED BY <2>6, <3>2 DEF TscCopy, Step, CallTypes, ThreadStates
  <2>7. CASE Close(t) \/ CloseAgain(t)
    <3>1. /\ cycles' = cycles
          /\ \/ Step(t, IdleThread) \/ Step(t, [thr[t] EXCEPT !.at = "close2"])
      BY <2>7, Zenon DEF Close, CloseAgain
    <3> QED BY <1>2, <3>1 DEF Step, IdleThread, CallTypes, ThreadStates
  <2> QED BY <2>1, <2>2, <2>3, <2>4, <2>5, <2>6, <2>7, Zenon DEF ThreadStep
<1> QED BY <1>1, <1>2, <1>3, <1>5, Zenon DEF CyclesInv, TscReplies, kernelVars

(* What brings the kernel down.                                            *)
LEMMA FaultStep ==
  ASSUME LifeInv, CallTypes, UseInv, fault = "none", NEW t \in Threads, ThreadStep(t)
  PROVE  FaultsOnlyInWindows'
<1>0. UNCHANGED kernelVars
  BY ThreadsLeaveKernel, Zenon
<1>1. ASSUME NEW i \in Nat, InUseOK(i), Gone(i) PROVE lost # {}
  BY <1>1, Zenon DEF InUseOK, Gone
<1>2. CASE \E call \in ApiCalls : Open(t, call)
  BY <1>0, <1>2, Zenon DEF Open, FaultsOnlyInWindows, kernelVars
<1>3. CASE IoctlStale(t)
  <2>1. lost # {} /\ fault' = "stale"
    BY <1>1, <1>3, Zenon DEF IoctlStale, UseInv, OpenFds, CallTypes
  <2> QED BY <1>0, <2>1, Zenon DEF FaultsOnlyInWindows, kernelVars
<1>4. CASE TscStale(t)
  <2>1. lost # {} /\ fault' = "stale"
    BY <1>1, <1>4, Zenon DEF TscStale, UseInv, CallTypes, ThreadStates
  <2> QED BY <1>0, <2>1, Zenon DEF FaultsOnlyInWindows, kernelVars
<1>5. CASE StartMonitor(t)
  <2>1. InUseOK(insmods) /\ phase # "out"
    BY <1>5, Zenon DEF StartMonitor, Ioctl, OpenFds, Gone, UseInv
  <2>2. fault' = "wake" => phase = "loading"
    BY <1>5, <2>1, Zenon DEF StartMonitor, InUseOK, LifeInv, LiveInv
  <2>3. fault' \in {"wake", "none"}
    BY <1>5, Zenon DEF StartMonitor
  <2> QED BY <1>0, <2>2, <2>3, Zenon DEF FaultsOnlyInWindows, kernelVars
<1>6. CASE InstructedLog(t)
  <2>1. fault' = "none" \/ (fault' = "log" /\ "log" \notin held /\ "wq" \in held)
    BY <1>6, Zenon DEF InstructedLog
  <2>2. "wq" \in held => "buffers" \in held
    BY Zenon DEF LifeInv, Users
  <2> QED BY <1>0, <2>1, <2>2, Zenon DEF FaultsOnlyInWindows, kernelVars
<1>7. CASE fault' = fault
  BY <1>7, Zenon DEF FaultsOnlyInWindows
<1> QED
  BY Zenon, <1>2, <1>3, <1>4, <1>5, <1>6, <1>7
  DEF ThreadStep, IoctlBadFd, Pause, TscTest, TscCalibrate, TscCopy, Close, CloseAgain

(* The inductive step.                                                     *)
LEMMA CallInvStep ==
  ASSUME LifeInv, CallInv, [LifeNext]_lifeVars PROVE CallInv'
<1>1. CASE KernelStep /\ fault = "none"
  <2>1. UNCHANGED <<build, files, thr, calls, doubledBy, fault>> /\ CallTypes'
    BY <1>1, KernelFrame, Zenon DEF CallInv
  <2>2. OwnerInv' /\ FdInv'
    BY <2>1, Zenon DEF CallInv, OwnerInv, FdInv
  <2>3. FaultsOnlyInWindows'
    BY <1>1, <2>1, Zenon DEF FaultsOnlyInWindows
  <2> QED BY <1>1, <2>1, <2>2, <2>3, UseKernel, CyclesKernel, Zenon DEF CallInv
<1>2. ASSUME NEW t \in Threads, ThreadStep(t), fault = "none" PROVE CallInv'
  <2>1. ApiStep(t) /\ CallTypes'
    BY <1>2, ApiCases, Zenon DEF CallInv
  <2>2. OwnerInv' /\ FdInv'
    BY <1>2, <2>1, OwnerStep, FdStep, Zenon DEF CallInv, UseInv
  <2> QED BY <1>2, <2>1, <2>2, UseThread, CyclesThread, FaultStep, Zenon DEF CallInv
<1>3. CASE LoggerWrites
  <2>1. "buffers" \in held /\ "log" \notin held
    BY <1>3, Zenon DEF LoggerWrites, LifeInv, Users
  <2>2. FaultsOnlyInWindows'
    BY <1>3, <2>1, Zenon DEF LoggerWrites, FaultsOnlyInWindows, kernelVars
  <2>3. UNCHANGED <<kernelVars, cycles, files, thr, calls, doubledBy>>
    BY <1>3, Zenon DEF LoggerWrites
  <2>4. CallTypes' /\ UseInv' /\ CyclesInv' /\ OwnerInv' /\ FdInv'
    BY <2>3, Zenon DEF kernelVars, CallInv, CallTypes, UseInv, InUseOK, CyclesInv, TscReplies, OwnerInv, FdInv
  <2> QED BY <2>2, <2>4, Zenon DEF CallInv
<1>4. CASE UNCHANGED lifeVars
  BY <1>4, Zenon DEF lifeVars, CallInv, CallTypes, UseInv, InUseOK, CyclesInv, TscReplies, OwnerInv, FdInv,
              FaultsOnlyInWindows
<1> QED BY <1>1, <1>2, <1>3, <1>4, Zenon DEF LifeNext, LifeFinished, KernelStep

(* Before the first load nobody calls.                                     *)
LEMMA CallInvInit == LifeInit => CallInv
<1> SUFFICES ASSUME LifeInit PROVE CallInv
  OBVIOUS
<1>1. IdleThread \in ThreadStates /\ IdleThread.at = "idle" /\ IdleThread.reply = 1
  BY Zenon DEF IdleThread, ThreadStates, ApiCalls
<1>2. /\ \A t \in Threads : thr[t] = IdleThread
      /\ \A f \in Fds : files[f] = 0
  BY Zenon DEF LifeInit
<1>3. CallTypes
  BY <1>1, <1>2, Zenon DEF LifeInit, CallTypes
<1> QED BY <1>1, <1>2, <1>3 DEF LifeInit, CallInv, UseInv, CyclesInv, TscReplies, OwnerInv, FdInv,
           FaultsOnlyInWindows, Busy

(* hrperf.c, hrperf_api.h: a call of the API brings the kernel down only   *)
(* in the windows the code leaves open, the reply to the TSC ioctl is a    *)
(* frequency, and no call leaks its descriptor, or closes another thread's *)
(* unless its ioctl failed: for any number of threads, calls and loads.    *)
THEOREM CallsCorrect == LifeSpec => []CallsSafe
<1>1. LifeInv /\ CallInv => CallsSafe
  <2> SUFFICES ASSUME LifeInv, CallInv PROVE CallsSafe
    OBVIOUS
  <2>1. TscReplies
    BY Zenon DEF CallInv, CyclesInv, TscReplies
  <2>2. NoDescriptorLeak
    BY Zenon DEF CallInv, OwnerInv, NoDescriptorLeak, OpenFds, Busy
  <2>3. DescriptorOwned
    BY Zenon DEF CallInv, FdInv, DescriptorOwned, OpenFds, Busy, CallTypes, ThreadStates
  <2> QED BY <2>1, <2>2, <2>3, LifeInvImplies, Zenon DEF CallsSafe, CallInv
<1>2. CallInv /\ LifeInv /\ [LifeNext]_lifeVars => CallInv'
  BY CallInvStep, Zenon
<1> QED BY <1>1, <1>2, CallInvInit, LifeInvHolds, PTL DEF LifeSpec

-----------------------------------------------------------------------------
(* The uncore PMUs.                                                        *)

Discovering == {"count", "alloc", "fill", "next"}
Settling == Discovering \cup {"init", "program"}
Stages == Settling \cup {"ready", "freeze", "reads", "writes", "unfreeze", "destroy", "gone"}

ImcTypes ==
  /\ stage \in Stages
  /\ unit \in Nat /\ tables \in Nat /\ counts \in Nat /\ pmus \in Nat /\ num_imcs \in Nat
  /\ list \in Seq(Boxes) /\ Len(list) <= MaxUnits /\ num_imcs <= MaxUnits
  /\ imcs \in [Pos -> SUBSET Regs]
  /\ maps \subseteq Pos \X Regs
  /\ skipped \subseteq Pos /\ failed \subseteq Pos
  /\ unitctl \in [Pos -> {"off", "frozen", "counting"}]

(* What the passes over the tables know of the list.  Only a later table   *)
(* can find a list, and lose its memory.                                   *)
DiscInv ==
  /\ stage \in {"count", "fill"} => unit < MaxUnits
  /\ stage = "count" => counts <= unit
  /\ stage \in {"alloc", "fill"} => counts <= MaxUnits
  /\ stage \in Discovering => tables < MaxTables
  /\ stage \in {"count", "alloc"} /\ tables = 0 => list = << >> /\ pmus = 0
  /\ stage = "fill" /\ counts > 0 => pmus = counts
  /\ stage \in Discovering => num_imcs = 0 /\ maps = {} /\ skipped = {} /\ failed = {}
  /\ ListInBounds

(* The loop over the boxes: num_imcs falls behind only at a box passed     *)
(* over, and nothing is known yet of the boxes to come.                    *)
LoopInv ==
  stage = "init" =>
    /\ unit <= Len(list) /\ num_imcs <= unit
    /\ \A q \in skipped : q < unit
    /\ skipped = {} => num_imcs = unit
    /\ \A m \in maps : m[1] < unit

(* Without a hole the slots below num_imcs are all taken.                  *)
HoleInv ==
  /\ stage \notin {"destroy", "gone"} /\ skipped \cup failed = {} =>
       \A p \in 0..(num_imcs - 1) : imcs[p] # NULL
  /\ NullOnlyAtHole

(* A mapping belongs to a box whose set-up failed, or a PMU has it in its  *)
(* slot, which num_imcs reaches unless the slot lies behind a hole.        *)
MapsInv ==
  /\ \A m \in maps :
       \/ m[1] \in failed
       \/ /\ m[2] \in imcs[m[1]]
          /\ m[1] < num_imcs \/ \E q \in skipped : q < m[1]
  /\ stage = "destroy" => \A p \in Pos : p < unit => imcs[p] = NULL
  /\ UnmappedAtEnd

(* The controllers the loops of program_counters and of a poll have set.   *)
CountInv ==
  /\ stage \in Settling => ~ok
  /\ stage \in {"program", "unfreeze"} =>
       \A p \in Pos : p < unit => unitctl[p] = "counting"
  /\ stage = "ready" /\ ok => \A p \in Pos : p < num_imcs => unitctl[p] = "counting"

(* The controllers of a poll are frozen from the loop that freezes them to *)
(* the one that unfreezes them, and meanwhile the totals are the sums of   *)
(* the counters the poll has come past.                                    *)
SumTo(n, k) ==
  \E sum \in [0..n -> 0..total[k]] :
    /\ sum[0] = 0 /\ sum[n] = total[k]
    /\ \A p \in 0..(n - 1) : sum[p + 1] = sum[p] + McCounter(p, k)

SampleTypes == total \in [Accesses -> Nat] /\ count \in [Pos -> [Accesses -> Nat]]

FrozenInv ==
  \A p \in Pos :
    /\ stage = "freeze" /\ p < unit => unitctl[p] = "frozen"
    /\ stage \in {"reads", "writes"} /\ p < num_imcs => unitctl[p] = "frozen"
    /\ stage = "unfreeze" /\ unit = 0 /\ p < num_imcs => unitctl[p] = "frozen"

SumInv ==
  /\ stage \in {"freeze", "reads"} => total[2] = 0
  /\ stage = "freeze" => total[1] = 0
  /\ stage \in {"freeze", "reads", "writes", "unfreeze"} => unit <= num_imcs
  /\ stage = "reads" => SumTo(unit, 1)
  /\ stage = "writes" => SumTo(num_imcs, 1) /\ SumTo(unit, 2)
  /\ stage = "unfreeze" /\ unit = 0 => SumTo(num_imcs, 1) /\ SumTo(num_imcs, 2)

SnapInv == SampleTypes /\ FrozenInv /\ SumInv

UncoreInv == ImcTypes /\ DiscInv /\ LoopInv /\ HoleInv /\ MapsInv

-----------------------------------------------------------------------------
(* register_step of every width above 32 bits is 8 bytes, so the counters  *)
(* of a box, 8 bytes each, do not overlap.                                 *)
LEMMA Disjoint == RegistersDisjoint
<1> SUFFICES ASSUME NEW width \in 33..64, NEW c \in 0..3, NEW d \in 0..3, c < d,
                    NEW box, box = [base |-> 0, ctrl_offset |-> 64, ctr_offset |-> 8, width |-> width]
             PROVE  /\ get_box_ctr_addr(box, c) + 8 <= get_box_ctr_addr(box, d)
                    /\ get_box_ctl_addr_with_counter(box, c) + 4
                         <= get_box_ctl_addr_with_counter(box, d)
  BY Zenon DEF RegistersDisjoint
<1>1. register_step(box.width) = 8
  BY DEF register_step
<1>2. get_box_ctr_addr(box, c) = 8 + c * 8 /\ get_box_ctr_addr(box, d) = 8 + d * 8
  BY <1>1 DEF get_box_ctr_addr
<1> QED BY <1>2 DEF get_box_ctl_addr_with_counter

(* The invariant holds before the first table is read.                     *)
LEMMA ImcInvInit == ASSUME UncoreAssumption, ImcInit PROVE UncoreInv /\ CountInv
BY DEF UncoreAssumption, ImcInit, UncoreInv, CountInv, ImcTypes, DiscInv, LoopInv, HoleInv, MapsInv,
       ListInBounds, NullOnlyAtHole, UnmappedAtEnd, Stages, Settling, Discovering, Boxes, NULL, Pos

-----------------------------------------------------------------------------
(* Discovery.                                                              *)
LEMMA ImcDiscover ==
  ASSUME UncoreAssumption, UncoreInv, imcFault = "none", Discover PROVE UncoreInv'
<1> USE DEF UncoreAssumption, UncoreInv, ImcTypes, DiscInv, LoopInv, HoleInv, MapsInv,
            ListInBounds, NullOnlyAtHole, UnmappedAtEnd, Stages, Settling, Discovering, boxVars, hwVars
<1>1. ASSUME NEW r \in Readings, CountUnit(r) PROVE UncoreInv'
  BY <1>1, SMTT(30) DEF CountUnit
<1>2. ASSUME NEW r \in Readings, FillUnit(r) PROVE UncoreInv'
  <2>1. CASE r \in Boxes /\ pmus > 0 /\ Len(list) < counts
    <3>1. list' = Append(list, r) /\ list' \in Seq(Boxes) /\ Len(list') = Len(list) + 1
      BY <1>2, <2>1 DEF FillUnit
    <3>2. pmus = counts
      BY <1>2, <2>1 DEF FillUnit
    <3> QED BY <1>2, <3>1, <3>2, <2>1 DEF FillUnit
  <2>2. CASE ~(r \in Boxes /\ pmus > 0 /\ Len(list) < counts)
    BY <1>2, <2>2, SMTT(30) DEF FillUnit
  <2> QED BY <2>1, <2>2, SMTT(30)
<1>3. ASSUME NEW b \in BOOLEAN, AllocList(b) PROVE UncoreInv'
  <2>1. CASE counts = 0
    BY <1>3, <2>1 DEF AllocList
  <2>2. CASE counts > 0 /\ b
    BY <1>3, <2>2 DEF AllocList
  <2>3. CASE counts > 0 /\ ~b
    BY <1>3, <2>3 DEF AllocList
  <2> QED BY <2>1, <2>2, <2>3, SMTT(30)
<1>4. ASSUME NEW b \in BOOLEAN, NextTable(b) PROVE UncoreInv'
  <2>1. CASE b
    BY <1>4, <2>1 DEF NextTable
  <2>2. CASE ~b
    BY <1>4, <2>2 DEF NextTable
  <2> QED BY <2>1, <2>2, Zenon
<1> QED BY <1>1, <1>2, <1>3, <1>4, Zenon DEF Discover

-----------------------------------------------------------------------------
(* Setting up one box.                                                     *)
LEMMA ImcInitBox ==
  ASSUME UncoreAssumption, UncoreInv, imcFault = "none",
         NEW missing \in Failures, NEW kept \in {missing, {}}, NEW nomem \in BOOLEAN,
         InitBox(missing, kept, nomem)
  PROVE  UncoreInv'
<1> DEFINE noUnit == "unit" \in missing
           made == IF noUnit THEN {} ELSE Regs \ missing
           new == {unit} \X (made \cup kept)
<1>1. /\ stage = "init" /\ stage' = "init" /\ unit < Len(list) /\ unit' = unit + 1
      /\ list' = list /\ pmus' = pmus /\ tables' = tables /\ counts' = counts
      /\ unitctl' = unitctl /\ unit \in Pos /\ unit \in Nat
  BY DEF InitBox, Box, discVars, hwVars, UncoreInv, ImcTypes, Pos, UncoreAssumption
<1>2. missing \subseteq Regs /\ kept \subseteq missing /\ made \subseteq Regs
  BY Zenon DEF Failures
<1>3. /\ maps' = maps \cup new
      /\ skipped' = IF noUnit THEN skipped \cup {unit} ELSE skipped
      /\ num_imcs' = IF noUnit THEN num_imcs ELSE num_imcs + 1
      /\ failed' = IF missing # {} \/ nomem THEN failed \cup {unit} ELSE failed
      /\ imcFault' = IF ~noUnit /\ unit >= MAX_IMC_PMUS THEN "array" ELSE imcFault
      /\ imcs' = IF noUnit \/ nomem THEN imcs ELSE [imcs EXCEPT ![unit] = made]
  BY Zenon DEF InitBox
<1>4. \A m \in new : m[1] = unit /\ m[2] \in made \cup kept /\ m \in Pos \X Regs
  BY <1>1, <1>2, Zenon
<1>5. ~noUnit /\ ~(missing # {} \/ nomem) => imcs'[unit] = Regs /\ made = Regs /\ kept = {}
  BY <1>1, <1>2, <1>3, Zenon DEF UncoreInv, ImcTypes
<1> HIDE DEF made, new, noUnit
<1>6. ImcTypes'
  BY <1>1, <1>2, <1>3, <1>4 DEF UncoreInv, ImcTypes, LoopInv, Stages, Settling, UncoreAssumption
<1>7. DiscInv'
  BY <1>1, Zenon DEF UncoreInv, DiscInv, Discovering, ListInBounds
<1>8. LoopInv'
  BY <1>1, <1>3, <1>4, SMTT(30) DEF UncoreInv, LoopInv, ImcTypes
<1>9. HoleInv'
  <2>1. ASSUME (skipped \cup failed = {})', NEW p \in 0..(num_imcs' - 1)
        PROVE  imcs'[p] # NULL
    <3>1. ~noUnit /\ missing = {} /\ ~nomem /\ skipped = {} /\ failed = {}
      BY <1>3, <2>1, Zenon
    <3>2. num_imcs = unit /\ num_imcs' = unit + 1
      BY <1>1, <1>3, <3>1, Zenon DEF UncoreInv, LoopInv
    <3>3. CASE p = unit
      BY <3>3, <3>1, <1>5, Zenon DEF NULL, Regs
    <3>4. CASE p # unit
      <4>1. p \in 0..(num_imcs - 1) /\ p \in Pos
        BY <3>4, <3>2, <1>1 DEF UncoreInv, ImcTypes, Pos, UncoreAssumption
      <4>2. imcs'[p] = imcs[p]
        BY <4>1, <3>4, <1>3, <1>1, Zenon DEF UncoreInv, ImcTypes
      <4> QED BY <4>1, <4>2, <3>1, <1>1, Zenon DEF UncoreInv, HoleInv
    <3> QED BY <3>3, <3>4, Zenon
  <2>2. NullOnlyAtHole'
    BY <1>1, <1>3 DEF NullOnlyAtHole, UncoreInv, ImcTypes, UncoreAssumption
  <2> QED BY <2>1, <2>2, Zenon DEF HoleInv
<1>10. MapsInv'
  <2>1. ASSUME NEW m \in maps'
        PROVE  \/ m[1] \in failed'
               \/ /\ m[2] \in imcs'[m[1]]
                  /\ m[1] < num_imcs' \/ \E q \in skipped' : q < m[1]
    <3>1. CASE m \in new
      <4>1. CASE noUnit \/ missing # {} \/ nomem
        <5>1. missing # {} \/ nomem
          BY <4>1, Zenon DEF noUnit
        <5> QED BY <5>1, <3>1, <1>4, <1>3, Zenon
      <4>2. CASE ~noUnit /\ ~(missing # {} \/ nomem)
        <5>1. m[1] = unit /\ m[2] \in imcs'[m[1]]
          BY <4>2, <3>1, <1>4, <1>5, Zenon
        <5>2. unit < num_imcs' \/ \E q \in skipped' : q < unit
          BY <4>2, <1>1, <1>3 DEF UncoreInv, LoopInv, ImcTypes
        <5> QED BY <5>1, <5>2, Zenon
      <4> QED BY <4>1, <4>2, Zenon
    <3>2. CASE m \in maps
      <4>1. m[1] \in Pos /\ m[1] < unit
        BY <3>2, <1>1, Zenon DEF UncoreInv, ImcTypes, LoopInv
      <4>2. imcs'[m[1]] = imcs[m[1]]
        BY <4>1, <1>1, <1>3 DEF UncoreInv, ImcTypes, Pos
      <4>3. m[1] \in Nat /\ num_imcs \in Nat
        BY <4>1, SMTT(30) DEF Pos, UncoreInv, ImcTypes, UncoreAssumption
      <4> QED BY <3>2, <4>2, <4>3, <1>3 DEF UncoreInv, MapsInv
    <3> QED BY <2>1, <3>1, <3>2, <1>3, Zenon
  <2> QED BY <2>1, <1>1, Zenon DEF MapsInv, UnmappedAtEnd
<1> QED BY <1>6, <1>7, <1>8, <1>9, <1>10, Zenon DEF UncoreInv

(* The rest of init_g_uncore_pmus.                                         *)
LEMMA ImcInitStep ==
  ASSUME UncoreAssumption, UncoreInv, imcFault = "none", InitStep PROVE UncoreInv'
<1> USE DEF UncoreAssumption, UncoreInv, ImcTypes, DiscInv, LoopInv, HoleInv, MapsInv, ListInBounds,
            NullOnlyAtHole, UnmappedAtEnd, Stages, Settling, Discovering, discVars, boxVars, hwVars
<1>1. CASE InitNoList
  BY <1>1, Zenon DEF InitNoList, Box
<1>2. CASE InitSkip
  BY <1>2, SMTT(30) DEF InitSkip, Box, Pos
<1>3. CASE InitTooMany
  BY <1>3, Zenon DEF InitTooMany, Box
<1>4. CASE InitEnd
  BY <1>4, Zenon DEF InitEnd
<1>5. CASE ProgramImc
  BY <1>5, SMTT(60) DEF ProgramImc, Pos
<1>6. CASE ProgramEnd
  BY <1>6, Zenon DEF ProgramEnd
<1>7. ASSUME NEW missing \in Failures, NEW leak \in BOOLEAN, NEW nomem \in BOOLEAN,
             InitBox(missing, IF leak THEN missing ELSE {}, nomem)
      PROVE  UncoreInv'
  BY <1>7, ImcInitBox, Zenon
<1> QED BY <1>1, <1>2, <1>3, <1>4, <1>5, <1>6, <1>7, Zenon DEF InitStep

-----------------------------------------------------------------------------
(* Polls, the hardware and the end.                                        *)
LEMMA ImcSample ==
  ASSUME UncoreAssumption, UncoreInv, imcFault = "none", Sample PROVE UncoreInv'
<1> USE DEF UncoreAssumption, UncoreInv, ImcTypes, DiscInv, LoopInv, HoleInv, MapsInv, ListInBounds,
            NullOnlyAtHole, UnmappedAtEnd, Stages, Settling, Discovering, discVars, boxVars, hwVars
<1>1. CASE SampleBegin
  BY <1>1, Zenon DEF SampleBegin
<1>2. ASSUME NEW from \in {"freeze", "unfreeze"}, NEW value \in {"frozen", "counting"},
             SetUnitCtl(from, value)
      PROVE  UncoreInv'
  BY <1>2 DEF SetUnitCtl, Pos
<1>3. ASSUME NEW from \in {"reads", "writes"}, NEW k \in Accesses, ReadCounter(from, k)
      PROVE  UncoreInv'
  BY <1>3 DEF ReadCounter
<1>4. ASSUME NEW from \in {"freeze", "reads", "writes", "unfreeze"},
             NEW to \in {"reads", "writes", "unfreeze", "ready"}, LoopEnd(from, to)
      PROVE  UncoreInv'
  BY <1>4, Zenon DEF LoopEnd
<1>5. 1 \in Accesses /\ 2 \in Accesses
  BY DEF Accesses
<1> HIDE DEF UncoreInv
<1> QED BY <1>1, <1>2, <1>3, <1>4, <1>5, Zenon DEF Sample, FreezeCounters, UnfreezeCounters

(* destroy_g_uncore_pmus.                                                  *)
LEMMA ImcDestroy ==
  ASSUME UncoreAssumption, UncoreInv, imcFault = "none", DestroyBegin \/ DestroyImc \/ DestroyEnd
  PROVE  UncoreInv'
<1> USE DEF UncoreAssumption, UncoreInv, ImcTypes, DiscInv, LoopInv, HoleInv, ListInBounds,
            NullOnlyAtHole, UnmappedAtEnd, Stages, Settling, Discovering, discVars, boxVars, hwVars
<1>1. CASE DestroyBegin
  BY <1>1, SMTT(30) DEF DestroyBegin, MapsInv
<1>2. CASE DestroyImc
  <2>1. unit \in Pos /\ imcs' = [imcs EXCEPT ![unit] = NULL]
        /\ imcs' \in [Pos -> SUBSET Regs]
    BY <1>2 DEF DestroyImc, Pos, NULL
  <2>2. maps' \subseteq maps
    BY <1>2, Zenon DEF DestroyImc
  <2>3. MapsInv'
    <3>1. ASSUME NEW m \in maps'
          PROVE  m[1] \in failed \/ (/\ m[2] \in imcs'[m[1]]
                                     /\ m[1] < num_imcs \/ \E q \in skipped : q < m[1])
      <4>1. m \in maps /\ m \in Pos \X Regs
        BY <2>2, Zenon
      <4>2. CASE m[1] = unit
        <5>1. m[2] \notin imcs[unit]
          BY <1>2, <4>1, <4>2, Zenon DEF DestroyImc
        <5> QED BY <5>1, <4>1, <4>2, Zenon DEF MapsInv
      <4>3. CASE m[1] # unit
        <5>1. imcs'[m[1]] = imcs[m[1]]
          BY <2>1, <4>1, <4>3, Zenon
        <5> QED BY <5>1, <4>1, Zenon DEF MapsInv
      <4> QED BY <4>2, <4>3, Zenon
    <3>2. \A p \in Pos : p < unit' => imcs'[p] = NULL
      BY <1>2, <2>1 DEF DestroyImc, MapsInv, Pos
    <3> QED BY <3>1, <3>2, <1>2, Zenon DEF MapsInv, DestroyImc
  <2> QED BY <1>2, <2>1, <2>2, <2>3 DEF DestroyImc
<1>3. CASE DestroyEnd
  <2>1. ASSUME NEW m \in maps
        PROVE  m[1] \in failed \/ (m[2] \in imcs[m[1]] /\ \E q \in skipped : q < m[1])
    BY <1>3, Zenon DEF DestroyEnd, MapsInv, NULL
  <2>2. MapsInv'
    BY <1>3, <2>1, Zenon DEF MapsInv, DestroyEnd
  <2> QED BY <1>3, <2>2 DEF DestroyEnd
<1> QED BY <1>1, <1>2, <1>3, Zenon

(* The inductive step.                                                     *)
LEMMA ImcInvStep ==
  ASSUME UncoreAssumption, UncoreInv, [ImcNext]_imcVars PROVE UncoreInv'
<1>1. ASSUME NEW p \in Pos, NEW k \in Accesses, Tick(p, k) PROVE UncoreInv'
  BY <1>1 DEF Tick, UncoreInv, ImcTypes, DiscInv, LoopInv, HoleInv, MapsInv, ListInBounds,
              NullOnlyAtHole, UnmappedAtEnd, discVars, boxVars
<1>2. CASE UNCHANGED imcVars
  BY <1>2 DEF imcVars, UncoreInv, ImcTypes, DiscInv, LoopInv, HoleInv, MapsInv, ListInBounds,
              NullOnlyAtHole, UnmappedAtEnd
<1> QED
  BY <1>1, <1>2, ImcDiscover, ImcInitStep, ImcSample, ImcDestroy, Zenon DEF ImcNext, ImcFinished

-----------------------------------------------------------------------------
(* The inductive step of the loops that set the controllers.               *)
LEMMA ImcCountStep ==
  ASSUME UncoreAssumption, UncoreInv, CountInv, [ImcNext]_imcVars PROVE CountInv'
<1> USE DEF UncoreAssumption, CountInv, Settling, Discovering, discVars, boxVars, hwVars
<1>1. CASE Discover
  BY <1>1, SMTT(30) DEF Discover, CountUnit, FillUnit, AllocList, NextTable
<1>2. CASE InitNoList \/ InitSkip \/ InitTooMany \/ InitEnd \/ ProgramEnd
  BY <1>2 DEF InitNoList, InitSkip, InitTooMany, InitEnd, ProgramEnd, Box, UncoreInv, ImcTypes, Pos
<1>3. CASE ProgramImc
  BY <1>3, SMTT(30) DEF ProgramImc, UncoreInv, ImcTypes, Pos
<1>4. ASSUME NEW missing, NEW kept, NEW nomem, InitBox(missing, kept, nomem) PROVE CountInv'
  BY <1>4, Zenon DEF InitBox, Box
<1>5. CASE SampleBegin
  BY <1>5, Zenon DEF SampleBegin
<1>6. CASE FreezeCounters
  BY <1>6, Zenon DEF FreezeCounters, SetUnitCtl
<1>7. CASE UnfreezeCounters
  BY <1>7 DEF UnfreezeCounters, SetUnitCtl, UncoreInv, ImcTypes, Pos
<1>8. ASSUME NEW from \in {"reads", "writes"}, NEW k \in Accesses, ReadCounter(from, k)
      PROVE  CountInv'
  BY <1>8, Zenon DEF ReadCounter
<1>9. CASE \/ LoopEnd("freeze", "reads") \/ LoopEnd("reads", "writes")
           \/ LoopEnd("writes", "unfreeze") \/ LoopEnd("unfreeze", "ready")
  BY <1>9 DEF LoopEnd, UncoreInv, ImcTypes, Pos
<1>10. ASSUME NEW p \in Pos, NEW k \in Accesses, Tick(p, k) PROVE CountInv'
  BY <1>10, Zenon DEF Tick
<1>11. CASE DestroyBegin \/ DestroyImc \/ DestroyEnd
  BY <1>11, Zenon DEF DestroyBegin, DestroyImc, DestroyEnd
<1>12. CASE UNCHANGED imcVars
  BY <1>12, Zenon DEF imcVars
<1>13. 1 \in Accesses /\ 2 \in Accesses
  BY DEF Accesses
<1> HIDE DEF CountInv
<1> QED
  BY <1>1, <1>2, <1>3, <1>4, <1>5, <1>6, <1>7, <1>8, <1>9, <1>10, <1>11, <1>12, <1>13, Zenon
  DEF ImcNext, InitStep, Sample, ImcFinished

-----------------------------------------------------------------------------
(* The totals of a poll.                                                   *)

(* No channels add up to 0.                                                *)
LEMMA SumZero ==
  ASSUME NEW k \in Accesses, total'[k] = 0 PROVE SumTo(0, k)'
<1> DEFINE sum == [p \in 0..0 |-> 0]
<1>1. sum \in [0..0 -> 0..total'[k]] /\ sum[0] = total'[k] /\ sum[0] = 0
  OBVIOUS
<1>2. \A p \in 0..(0 - 1) : sum[p + 1] = sum[p] + McCounter(p, k)'
  OBVIOUS
<1> HIDE DEF sum
<1> QED BY <1>1, <1>2, Zenon DEF SumTo

(* One more channel read.                                                  *)
LEMMA SumNext ==
  ASSUME NEW k \in Accesses, NEW n \in Nat, SumTo(n, k), total[k] \in Nat,
         McCounter(n, k) \in Nat, total'[k] = total[k] + McCounter(n, k),
         \A p \in 0..n : McCounter(p, k)' = McCounter(p, k)
  PROVE  SumTo(n + 1, k)'
<1>1. PICK sum \in [0..n -> 0..total[k]] :
        /\ sum[0] = 0 /\ sum[n] = total[k]
        /\ \A p \in 0..(n - 1) : sum[p + 1] = sum[p] + McCounter(p, k)
  BY Zenon DEF SumTo
<1>2. PICK c \in Nat : c = McCounter(n, k)
  OBVIOUS
<1> DEFINE sum2 == [p \in 0..(n + 1) |-> IF p <= n THEN sum[p] ELSE total[k] + c]
<1>3. sum2 \in [0..(n + 1) -> 0..total'[k]]
  BY <1>2
<1>4. sum2[0] = 0 /\ sum2[n + 1] = total'[k]
  BY <1>1, <1>2, SMTT(30)
<1>5. ASSUME NEW p \in 0..n PROVE sum2[p + 1] = sum2[p] + McCounter(p, k)
  <2>1. CASE p = n
    BY <1>1, <1>2, <2>1
  <2>2. CASE p < n
    <3>1. sum2[p + 1] = sum[p + 1] /\ sum2[p] = sum[p]
      BY <2>2
    <3>2. p \in 0..(n - 1)
      BY <2>2
    <3> QED BY <1>1, <3>1, <3>2, Zenon
  <2> QED BY <2>1, <2>2
<1> HIDE DEF sum2
<1>6. \A p \in 0..(n + 1 - 1) : sum2[p + 1] = sum2[p] + McCounter(p, k)'
  BY <1>5
<1>7. PICK m : m = n + 1
  OBVIOUS
<1>8. /\ sum2 \in [0..m -> 0..total'[k]] /\ sum2[0] = 0 /\ sum2[m] = total'[k]
      /\ \A p \in 0..(m - 1) : sum2[p + 1] = sum2[p] + McCounter(p, k)'
  BY <1>3, <1>4, <1>6, <1>7
<1>9. SumTo(m, k)'
  BY <1>8, Zenon DEF SumTo
<1> QED BY <1>7, <1>9, Zenon

(* What the sum rests on does not change.                                  *)
LEMMA SumSame ==
  ASSUME NEW k \in Accesses, NEW n \in Nat, SumTo(n, k), total'[k] = total[k],
         \A p \in 0..(n - 1) : McCounter(p, k)' = McCounter(p, k)
  PROVE  SumTo(n, k)'
BY Zenon DEF SumTo

(* A counter that is frozen keeps its value.                               *)
LEMMA CounterSame ==
  ASSUME NEW p, NEW k, imcs'[p] = imcs[p], count'[p] = count[p]
  PROVE  McCounter(p, k)' = McCounter(p, k)
BY Zenon DEF McCounter

(* Counters and totals stay numbers.                                       *)
LEMMA SnapTypes ==
  ASSUME UncoreAssumption, ImcTypes, SampleTypes, [ImcNext]_imcVars PROVE SampleTypes'
<1> USE DEF Accesses
<1>1. ASSUME NEW p \in Pos, NEW k \in Accesses, Tick(p, k) PROVE SampleTypes'
  BY <1>1 DEF Tick, SampleTypes
<1>2. CASE ProgramImc
  BY <1>2 DEF ProgramImc, SampleTypes, NoAccess, ImcTypes, Pos
<1>3. ASSUME NEW from, NEW k \in Accesses, ReadCounter(from, k) PROVE SampleTypes'
  <2>1. McCounter(unit, k) \in Nat
    BY <1>3, SMTT(30) DEF McCounter, SampleTypes, ReadCounter, ImcTypes, Pos, UncoreAssumption
  <2> QED BY <1>3, <2>1 DEF ReadCounter, SampleTypes, hwVars
<1>4. CASE SampleBegin
  BY <1>4, Zenon DEF SampleBegin, SampleTypes, NoAccess, hwVars
<1>5. CASE UNCHANGED <<total, count>>
  BY <1>5, Zenon DEF SampleTypes
<1>6. CASE Discover \/ InitNoList \/ InitSkip \/ InitTooMany \/ InitEnd \/ ProgramEnd
  BY <1>5, <1>6, Zenon DEF Discover, CountUnit, FillUnit, AllocList, NextTable, InitNoList, InitSkip,
     InitTooMany, InitEnd, ProgramEnd, hwVars
<1>7. ASSUME NEW missing, NEW kept, NEW nomem, InitBox(missing, kept, nomem) PROVE SampleTypes'
  BY <1>5, <1>7, Zenon DEF InitBox, hwVars
<1>8. ASSUME NEW from, NEW to, SetUnitCtl(from, to) \/ LoopEnd(from, to) PROVE SampleTypes'
  BY <1>5, <1>8, Zenon DEF SetUnitCtl, LoopEnd, hwVars
<1>9. CASE DestroyBegin \/ DestroyImc \/ DestroyEnd \/ UNCHANGED imcVars
  BY <1>5, <1>9, Zenon DEF DestroyBegin, DestroyImc, DestroyEnd, hwVars, imcVars
<1>10. CASE InitStep
  BY <1>2, <1>6, <1>7, <1>10, Zenon DEF InitStep
<1>11. CASE Sample
  BY <1>3, <1>4, <1>8, <1>11, Zenon DEF Sample, FreezeCounters, UnfreezeCounters
<1> QED BY <1>1, <1>6, <1>9, <1>10, <1>11, Zenon DEF ImcNext, ImcFinished

Sampling == {"freeze", "reads", "writes", "unfreeze"}

(* Outside a poll nothing is promised.                                     *)
LEMMA SnapOutside ==
  ASSUME stage' \notin Sampling PROVE FrozenInv' /\ SumInv'
BY Zenon DEF Sampling, FrozenInv, SumInv

(* Which steps lead into a poll or stay in it.                             *)
LEMMA SnapCases ==
  ASSUME [ImcNext]_imcVars, stage' \in Sampling
  PROVE  Sample \/ (\E p \in Pos, k \in Accesses : Tick(p, k)) \/ UNCHANGED imcVars
<1> USE DEF Sampling
<1>1. ~Discover
  BY Zenon DEF Discover, CountUnit, FillUnit, AllocList, NextTable
<1>2. ~InitStep
  <2>1. ASSUME NEW missing, NEW kept, NEW nomem PROVE ~InitBox(missing, kept, nomem)
    BY Zenon DEF InitBox, Box
  <2>2. ~(InitNoList \/ InitSkip \/ InitTooMany \/ InitEnd \/ ProgramImc \/ ProgramEnd)
    BY Zenon DEF InitNoList, InitSkip, InitTooMany, InitEnd, ProgramImc, ProgramEnd, Box
  <2> QED BY <2>1, <2>2, Zenon DEF InitStep
<1>3. ~(DestroyBegin \/ DestroyImc \/ DestroyEnd)
  BY Zenon DEF DestroyBegin, DestroyImc, DestroyEnd
<1> QED BY <1>1, <1>2, <1>3, Zenon DEF ImcNext, ImcFinished

(* A memory controller that a poll has frozen stays so until the poll      *)
(* unfreezes it.                                                           *)
LEMMA FrozenStep ==
  ASSUME UncoreAssumption, ImcTypes, FrozenInv, [ImcNext]_imcVars, stage' \in Sampling
  PROVE  FrozenInv'
<1> USE DEF Sampling
<1>1. CASE UNCHANGED imcVars
  BY <1>1, Zenon DEF imcVars, FrozenInv
<1>2. ASSUME NEW p \in Pos, NEW k \in Accesses, Tick(p, k) PROVE FrozenInv'
  BY <1>2, Zenon DEF Tick, FrozenInv, boxVars
<1>3. CASE SampleBegin
  BY <1>3 DEF SampleBegin, FrozenInv, Pos
<1>4. CASE FreezeCounters
  <2>1. /\ stage = "freeze" /\ stage' = "freeze" /\ unit \in Nat
        /\ \/ unit' = unit /\ unitctl' = unitctl
           \/ unit' = unit + 1 /\ unitctl' = [unitctl EXCEPT ![unit] = "frozen"]
    BY <1>4, Zenon DEF FreezeCounters, SetUnitCtl, ImcTypes
  <2> QED BY <2>1 DEF FrozenInv, ImcTypes, Pos, UncoreAssumption
<1>5. CASE UnfreezeCounters
  <2>1. /\ stage = "unfreeze" /\ stage' = "unfreeze" /\ unit \in Nat /\ num_imcs' = num_imcs
        /\ \/ unit' = unit /\ unitctl' = unitctl
           \/ unit' = unit + 1
    BY <1>5, Zenon DEF UnfreezeCounters, SetUnitCtl, ImcTypes, boxVars
  <2> QED BY <2>1 DEF FrozenInv
<1>6. ASSUME NEW from \in {"reads", "writes"}, NEW k, ReadCounter(from, k) PROVE FrozenInv'
  BY <1>6, Zenon DEF ReadCounter, FrozenInv, boxVars, hwVars
<1>7. CASE \/ LoopEnd("freeze", "reads") \/ LoopEnd("reads", "writes")
           \/ LoopEnd("writes", "unfreeze") \/ LoopEnd("unfreeze", "ready")
  BY <1>7, Zenon DEF LoopEnd, FrozenInv, boxVars, hwVars, ImcTypes
<1> QED BY <1>1, <1>2, <1>3, <1>4, <1>5, <1>6, <1>7, SnapCases, Zenon DEF Sample

(* get_imc_reads and get_imc_writes add one channel after the other, and   *)
(* no counter they have come past changes, because it is frozen.           *)
LEMMA SumStep ==
  ASSUME UncoreAssumption, ImcTypes, SnapInv, [ImcNext]_imcVars, stage' \in Sampling
  PROVE  SumInv'
<1>1. /\ unit \in Nat /\ num_imcs \in Nat /\ num_imcs <= MaxUnits
      /\ total[1] \in Nat /\ total[2] \in Nat /\ 1 \in Accesses /\ 2 \in Accesses
      /\ \A n \in 0..(num_imcs - 1) : n \in Pos
  BY DEF ImcTypes, SnapInv, SampleTypes, Accesses, Pos, UncoreAssumption
<1>2. ASSUME NEW k \in Accesses, NEW n \in Nat, SumTo(n, k), total' = total,
             UNCHANGED imcs, \A p \in 0..(n - 1) : count'[p] = count[p]
      PROVE  SumTo(n, k)'
  BY <1>2, CounterSame, SumSame, Zenon
<1>3. CASE UNCHANGED imcVars
  BY <1>1, <1>2, <1>3, Zenon DEF imcVars, SnapInv, SumInv
<1>4. ASSUME NEW p \in Pos, NEW k \in Accesses, Tick(p, k) PROVE SumInv'
  <2>1. /\ UNCHANGED <<stage, unit, imcs, num_imcs, total>> /\ unitctl[p] = "counting"
        /\ \A q \in Pos : q # p => count'[q] = count[q]
    BY <1>4, Zenon DEF Tick, boxVars, SnapInv, SampleTypes
  <2>2. ASSUME NEW n \in Nat, n <= num_imcs,
               stage \in {"reads", "writes"} \/ (stage = "unfreeze" /\ unit = 0)
        PROVE  \A q \in 0..(n - 1) : count'[q] = count[q]
    <3>1. ASSUME NEW q \in 0..(n - 1) PROVE q \in Pos /\ unitctl[q] = "frozen"
      BY <1>1, <2>2, <3>1 DEF SnapInv, FrozenInv
    <3> QED BY <2>1, <3>1, Zenon
  <2>3. ASSUME NEW j \in Accesses, NEW n \in Nat, n <= num_imcs, SumTo(n, j),
               stage \in {"reads", "writes"} \/ (stage = "unfreeze" /\ unit = 0)
        PROVE  SumTo(n, j)'
    BY <1>2, <2>1, <2>2, <2>3, Zenon
  <2> QED BY <1>1, <2>1, <2>3 DEF SnapInv, SumInv
<1>5. CASE SampleBegin
  BY <1>1, <1>5 DEF SampleBegin, SumInv, NoAccess, Accesses, boxVars
<1>6. CASE FreezeCounters
  BY <1>1, <1>6 DEF FreezeCounters, SetUnitCtl, SumInv, SnapInv, boxVars
<1>7. CASE UnfreezeCounters
  <2>1. /\ stage = "unfreeze" /\ stage' = "unfreeze" /\ UNCHANGED <<num_imcs, imcs, total, count>>
        /\ unit < num_imcs
        /\ \/ unit' = unit + 1
           \/ unit' = unit
    BY <1>7, Zenon DEF UnfreezeCounters, SetUnitCtl, boxVars
  <2> QED BY <1>1, <1>2, <2>1 DEF SumInv, SnapInv
<1>8. ASSUME NEW k \in Accesses, NEW from, ReadCounter(from, k), SumTo(unit, k)
      PROVE  /\ SumTo(unit, k)' /\ unit' = unit + 1 /\ unit < num_imcs /\ stage' = stage /\ stage = from
             /\ \A j \in Accesses \ {k} : total'[j] = total[j]
             /\ UNCHANGED <<imcs, num_imcs, count>>
  <2>1. /\ UNCHANGED <<imcs, num_imcs, count>> /\ unit' = unit + 1 /\ unit < num_imcs
        /\ stage' = stage /\ stage = from
        /\ total' = [total EXCEPT ![k] = @ + McCounter(unit, k)]
    BY <1>8, Zenon DEF ReadCounter, boxVars, hwVars
  <2>2. total \in [Accesses -> Nat] /\ McCounter(unit, k) \in Nat
    <3>1. unit \in 0..(num_imcs - 1)
      BY <1>1, <2>1
    <3>2. unit \in Pos
      BY <1>1, <3>1, Zenon
    <3>3. count[unit][k] \in Nat
      BY <1>8, <3>2, Zenon DEF SnapInv, SampleTypes
    <3> QED BY <3>3 DEF McCounter, SnapInv, SampleTypes
  <2>3. total'[k] = total[k] + McCounter(unit, k) /\ \A j \in Accesses \ {k} : total'[j] = total[j]
    BY <2>1, <2>2, Zenon
  <2>4. \A p \in 0..unit : McCounter(p, k)' = McCounter(p, k)
    BY <2>1, CounterSame, Zenon
  <2>5. PICK n \in Nat : n = unit
    BY <1>1, Zenon
  <2>6. SumTo(n + 1, k)'
    BY <1>8, <2>2, <2>3, <2>4, <2>5, SumNext, Zenon
  <2>7. unit' = n + 1
    BY <2>1, <2>5, Zenon
  <2>8. SumTo(unit, k)'
    BY <2>6, <2>7, Zenon DEF SumTo
  <2> QED BY <2>1, <2>3, <2>8, Zenon
<1>9. CASE ReadCounter("reads", 1)
  <2>1. SumTo(unit, 1)
    BY <1>9, Zenon DEF ReadCounter, SnapInv, SumInv
  <2>2. SumTo(unit, 1)' /\ unit' = unit + 1 /\ unit < num_imcs /\ stage' = "reads"
        /\ total'[2] = total[2] /\ num_imcs' = num_imcs /\ stage = "reads"
    BY <1>1, <1>8, <1>9, <2>1 DEF Accesses
  <2> QED BY <1>1, <2>2 DEF SumInv, SnapInv
<1>10. CASE ReadCounter("writes", 2)
  <2>1. SumTo(unit, 2) /\ SumTo(num_imcs, 1)
    BY <1>10, Zenon DEF ReadCounter, SnapInv, SumInv
  <2>2. SumTo(unit, 2)' /\ unit' = unit + 1 /\ unit < num_imcs /\ stage' = "writes"
        /\ total'[1] = total[1] /\ UNCHANGED <<imcs, num_imcs, count>>
    BY <1>1, <1>8, <1>10, <2>1 DEF Accesses
  <2>3. PICK n \in Nat : n = num_imcs
    BY <1>1, Zenon
  <2>4. SumTo(n, 1)'
    BY <1>1, <2>1, <2>2, <2>3, SumSame, CounterSame, Zenon
  <2>5. SumTo(num_imcs, 1)'
    BY <2>2, <2>3, <2>4, Zenon DEF SumTo
  <2> QED BY <1>1, <2>2, <2>5 DEF SumInv, SnapInv
<1>11. CASE LoopEnd("freeze", "reads")
  <2>1. /\ stage = "freeze" /\ stage' = "reads" /\ unit' = 0 /\ UNCHANGED <<num_imcs, total>>
        /\ total[1] = 0 /\ total[2] = 0
    BY <1>11, Zenon DEF LoopEnd, boxVars, SnapInv, SumInv
  <2>2. SumTo(0, 1)'
    <3>1. total'[1] = 0
      BY <2>1, Zenon
    <3> QED BY <1>1, <3>1, SumZero, Zenon
  <2> QED BY <1>1, <2>1, <2>2 DEF SumInv
<1>12. CASE LoopEnd("reads", "writes")
  <2>1. /\ stage = "reads" /\ stage' = "writes" /\ unit = num_imcs /\ unit' = 0
        /\ UNCHANGED <<num_imcs, total, imcs, count>>
        /\ total[2] = 0 /\ SumTo(unit, 1)
    BY <1>12, Zenon DEF LoopEnd, boxVars, hwVars, SnapInv, SumInv
  <2>2. SumTo(0, 2)'
    <3>1. total'[2] = 0
      BY <2>1, Zenon
    <3> QED BY <1>1, <3>1, SumZero, Zenon
  <2>3. SumTo(num_imcs, 1)'
    BY <1>1, <1>2, <2>1, Zenon
  <2> QED BY <1>1, <2>1, <2>2, <2>3 DEF SumInv
<1>13. CASE LoopEnd("writes", "unfreeze")
  <2>1. /\ stage = "writes" /\ stage' = "unfreeze" /\ unit = num_imcs /\ unit' = 0
        /\ UNCHANGED <<num_imcs, total, imcs, count>>
        /\ SumTo(num_imcs, 1) /\ SumTo(unit, 2)
    BY <1>13, Zenon DEF LoopEnd, boxVars, hwVars, SnapInv, SumInv
  <2>2. SumTo(num_imcs, 1)' /\ SumTo(num_imcs, 2)'
    BY <1>1, <1>2, <2>1, Zenon
  <2> QED BY <1>1, <2>1, <2>2 DEF SumInv
<1>14. ~LoopEnd("unfreeze", "ready")
  BY Zenon DEF LoopEnd, Sampling
<1> QED BY <1>3, <1>4, <1>5, <1>6, <1>7, <1>9, <1>10, <1>11, <1>12, <1>13,
           <1>14, SnapCases, Zenon DEF Sample

(* The invariant holds in every reachable state.                           *)
LEMMA ImcInvHolds == ASSUME UncoreAssumption PROVE ImcSpec => [](UncoreInv /\ CountInv /\ SnapInv)
<1>1. ImcInit => UncoreInv /\ CountInv
  BY ImcInvInit, Zenon
<1>2. ImcInit => SnapInv
  BY DEF ImcInit, SnapInv, SampleTypes, FrozenInv, SumInv, NoAccess
<1>3. UncoreInv /\ CountInv /\ [ImcNext]_imcVars => (UncoreInv /\ CountInv)'
  BY ImcInvStep, ImcCountStep, Zenon
<1>4. UncoreInv /\ SnapInv /\ [ImcNext]_imcVars => SnapInv'
  BY SnapTypes, SnapOutside, FrozenStep, SumStep, Zenon DEF SnapInv, UncoreInv
<1> QED BY <1>1, <1>2, <1>3, <1>4, PTL DEF ImcSpec

(* uncore_pmu_discovery.c, uncore_pmu.c: whatever the two passes over the  *)
(* tables read and whichever allocations fail, the list stays within its   *)
(* memory, registers do not overlap, a missing PMU is met only where a box *)
(* could not be set up, and the rest is unmapped at the end.               *)
THEOREM PmusCorrect == ASSUME UncoreAssumption PROVE ImcSpec => []PmusInBounds
<1>1. UncoreInv => PmusInBounds
  BY Disjoint, Zenon DEF UncoreInv, DiscInv, HoleInv, MapsInv, PmusInBounds
<1> QED BY <1>1, ImcInvHolds, PTL

(* uncore_pmu.h: however often the hardware counts during a poll, its      *)
(* totals are those of one instant, and no poll leaves a memory controller *)
(* frozen.                                                                 *)
THEOREM PollsCorrect == ASSUME UncoreAssumption PROVE ImcSpec => []PollsAreSnapshots
<1>1. UncoreInv /\ CountInv => CountingBetweenPolls
  BY DEF UncoreAssumption, UncoreInv, ImcTypes, CountInv, CountingBetweenPolls, Pos
<1>2. SnapInv => SampleIsSnapshot
  BY Zenon DEF SnapInv, SumInv, SumTo, SampleIsSnapshot, SumOfChannels, Accesses
<1> QED BY <1>1, <1>2, ImcInvHolds, PTL DEF PollsAreSnapshots

=============================================================================
