-------------------------- MODULE ModuleLifecycle --------------------------
(***************************************************************************)
(* Loading and unloading of the hiresperf kernel module (hrp_pmc_init and  *)
(* cleanup in src/src/hrperf.c) against a process whose threads call the   *)
(* user API (src/workloads/hrperf_api.h) at any time.  Each step of the    *)
(* load acquires something and may fail; the early failure exits undo what *)
(* came before, the late ones do not.  What a failed load leaves behind    *)
(* stays in the kernel (lost) while the module's own memory goes, and the  *)
(* kernel frees that memory even if a file of the device is open.          *)
(* What polling and instructed mode do once the module is up is the        *)
(* subject of Monitor and InstructedProfile.                               *)
(***************************************************************************)
EXTENDS Integers, FiniteSets

CONSTANTS Threads,    \* threads of one process that uses the API
          NFds,       \* size of its descriptor table, at least one per thread
          MaxInsmods,   \* bound: insmod
          MaxApiCalls    \* bound: calls of the API

\* What the module assumes of its constants.
LifecycleAssumption ==
  /\ IsFiniteSet(Threads)
  /\ NFds \in Nat /\ NFds >= Cardinality(Threads)
  /\ MaxInsmods \in Nat /\ MaxApiCalls \in Nat

Fds == 1..NFds
NoFd == 0                                           \* a failed open
DevRes == {"region", "cdev", "class", "device"}
Resources == DevRes \cup {"mbm", "buffers", "uncore", "poller", "log", "logger", "wq"}
ApiCalls == {"start", "pause", "tsc", "log"}

\* Builds of src/src/config.h: HRP_USE_RDT, HRP_USE_TSC and HRP_LOG_IMC.
Builds == {[rdt |-> FALSE, tsc |-> TRUE, imc |-> FALSE],
           [rdt |-> TRUE, tsc |-> TRUE, imc |-> TRUE],
           [rdt |-> FALSE, tsc |-> FALSE, imc |-> FALSE]}

VARIABLES
  build,       \* how the module was compiled
  instructed,  \* the parameter instructed_profile of this load
  phase,       \* "out", "loading", "live" or "unloading"
  step,        \* the next step of the load or of cleanup
  held,        \* what the current load has acquired
  lost,        \* what failed loads have left in the kernel
  running,     \* hrperf_running
  cycles,      \* cycles_per_us: 0 or 1, for any other value
  files,       \* descriptor -> the load whose device it has open, or 0
  thr,         \* thread -> [at, call, fd, inst, ok, reply]
  insmods, calls,
  doubledBy,   \* call whose second close hit a descriptor opened since, or "none"
  fault        \* "none", or what brought the kernel down

kernelVars == <<build, instructed, phase, step, held, lost, insmods>>
lifeVars == <<build, instructed, phase, step, held, lost, running, cycles, files, thr,
          insmods, calls, doubledBy, fault>>

IdleThread == [at |-> "idle", call |-> "pause", fd |-> NoFd, inst |-> 0,
         ok |-> TRUE, reply |-> 1]

LifeInit ==
  /\ build \in Builds /\ instructed = FALSE
  /\ phase = "out" /\ step = "none" /\ held = {} /\ lost = {}
  /\ running = FALSE /\ cycles = 0
  /\ files = [f \in Fds |-> 0] /\ thr = [t \in Threads |-> IdleThread]
  /\ insmods = 0 /\ calls = 0 /\ doubledBy = "none" /\ fault = "none"

----------------------------------------------------------------------------
(* hrp_pmc_init.  Each action is one step; interleaved with it, threads of  *)
(* the process run.                                                         *)

\* insmod: the module's variables have their initial values.
Insmod ==
  /\ phase = "out" /\ insmods < MaxInsmods
  /\ phase' = "loading" /\ step' = IF build.rdt THEN "mbm" ELSE "tsc"
  /\ insmods' = insmods + 1 /\ instructed' \in BOOLEAN
  /\ running' = FALSE /\ cycles' = 0 /\ held' = {}
  /\ UNCHANGED <<build, lost, files, thr, calls, doubledBy, fault>>

At(s) == phase = "loading" /\ step = s

TakeRes(s, r, next) ==
  /\ At(s) /\ held' = held \cup r /\ step' = next
  /\ UNCHANGED <<build, instructed, phase, lost, insmods>>

\* A failure exit that undoes `undo': the rest stays in the kernel.
Fail(s, undo) ==
  /\ At(s) /\ phase' = "out" /\ step' = "none"
  /\ lost' = lost \cup (held \ undo) /\ held' = {}
  /\ UNCHANGED <<build, instructed, insmods>>

LoadMbm == TakeRes("mbm", {"mbm"}, "tsc") /\ UNCHANGED cycles
LoadMbmFails == Fail("mbm", {}) /\ UNCHANGED cycles

\* The TSC is calibrated when the log is stamped with it.
LoadTsc ==
  /\ TakeRes("tsc", {}, "region")
  /\ cycles' = IF build.tsc THEN 1 ELSE cycles
LoadTscFails == build.tsc /\ Fail("tsc", {}) /\ UNCHANGED cycles

\* register_chrdev_region: the major number is fixed, so a region that an
\* earlier load has left behind makes it fail.
LoadRegion ==
  /\ "region" \notin lost
  /\ TakeRes("region", {"region"}, "cdev") /\ UNCHANGED cycles
LoadRegionFails == Fail("region", {}) /\ UNCHANGED cycles

LoadCdev == TakeRes("cdev", {"cdev"}, "class") /\ UNCHANGED cycles
LoadCdevFails == Fail("cdev", {"region"}) /\ UNCHANGED cycles

LoadClass == TakeRes("class", {"class"}, "device") /\ UNCHANGED cycles

LoadClassFails == Fail("class", {"region", "cdev"}) /\ UNCHANGED cycles

LoadDevice == TakeRes("device", {"device"}, "buffers") /\ UNCHANGED cycles
LoadDeviceFails == Fail("device", {"region", "cdev", "class"}) /\ UNCHANGED cycles

\* The CPU mask is accepted, every selected CPU has its buffer, the counters
\* are programmed and the uncore PMUs set up as far as they can be.
LoadBuffers ==
  /\ TakeRes("buffers", {"buffers"} \cup (IF build.imc THEN {"uncore"} ELSE {}), "poller")
  /\ UNCHANGED cycles

\* A bad mask, or no memory for some buffer: nothing is undone.
LoadBuffersFail == Fail("buffers", {}) /\ UNCHANGED cycles

LoadPoller ==
  /\ TakeRes("poller", IF instructed THEN {} ELSE {"poller"}, "log")
  /\ UNCHANGED cycles
LoadPollerFails == ~instructed /\ Fail("poller", {}) /\ UNCHANGED cycles

\* A log file that cannot be opened is reported and otherwise ignored.
LoadLog ==
  /\ \E opened \in BOOLEAN : TakeRes("log", IF opened THEN {"log"} ELSE {}, "logger")
  /\ UNCHANGED cycles

LoadLogger ==
  /\ TakeRes("logger", IF instructed THEN {} ELSE {"logger"}, "wq")
  /\ UNCHANGED cycles

\* Fault variant of LoadLoggerFails: the device is removed, the rest kept.
LoadLoggerFailsUnregisters == ~instructed /\ Fail("logger", DevRes) /\ UNCHANGED cycles

LoadLoggerFails == ~instructed /\ Fail("logger", {}) /\ UNCHANGED cycles

LoadWq ==
  /\ At("wq") /\ phase' = "live" /\ step' = "none"
  /\ held' = IF instructed THEN held \cup {"wq"} ELSE held
  /\ UNCHANGED <<build, instructed, lost, insmods, cycles>>
LoadWqFails == instructed /\ Fail("wq", {}) /\ UNCHANGED cycles

LoadStep ==
  /\ \/ LoadMbm \/ LoadMbmFails \/ LoadTsc \/ LoadTscFails
     \/ LoadRegion \/ LoadRegionFails \/ LoadCdev \/ LoadCdevFails
     \/ LoadClass \/ LoadClassFails \/ LoadDevice \/ LoadDeviceFails
     \/ LoadBuffers \/ LoadBuffersFail \/ LoadPoller \/ LoadPollerFails
     \/ LoadLog \/ LoadLogger \/ LoadLoggerFails \/ LoadWq \/ LoadWqFails
  /\ UNCHANGED <<running, files, thr, calls, doubledBy, fault>>

----------------------------------------------------------------------------
(* cleanup.                                                                 *)

\* The kernel refuses rmmod while a file of the device is in use.
InUse ==
  \/ \E f \in Fds : files[f] = insmods
  \/ \E t \in Threads : thr[t].at \in {"calibrate", "copy"} /\ thr[t].inst = insmods

Rmmod ==
  /\ phase = "live" /\ ~InUse
  /\ phase' = "unloading" /\ step' = "logger"
  /\ UNCHANGED <<build, instructed, held, lost, insmods>>

DropRes(s, r, next) ==
  /\ phase = "unloading" /\ step = s
  /\ held' = held \ r /\ step' = next
  /\ phase' = IF next = "none" THEN "out" ELSE phase
  /\ UNCHANGED <<build, instructed, lost, insmods>>

\* kthread_stop of the two threads, and the end of the workqueue, if there.
StopLogger == DropRes("logger", {"logger"}, "poller")
StopPoller == DropRes("poller", {"poller"}, "wq")

DestroyWq == DropRes("wq", {"wq"}, "buffers")

\* The buffers, the log file if it is open, the uncore PMUs and the RMIDs.
FreeRest == DropRes("buffers", {"buffers", "log", "uncore", "mbm"}, "device")

\* device_destroy, class_destroy, cdev_del, unregister_chrdev_region.
RemoveDevice == DropRes("device", DevRes, "none")

UnloadStep ==
  /\ Rmmod \/ StopLogger \/ StopPoller \/ DestroyWq \/ FreeRest \/ RemoveDevice
  /\ UNCHANGED <<running, cycles, files, thr, calls, doubledBy, fault>>

----------------------------------------------------------------------------
(* The user API: open, one ioctl, close.                                    *)

OpenFds == {f \in Fds : files[f] # 0}

Step(t, r) == thr' = [thr EXCEPT ![t] = r]

LowestFree(fd) == fd \in Fds \ OpenFds /\ \A f \in Fds \ OpenFds : fd <= f

\* open: the lowest free descriptor, if the node is there and the module is not
\* on its way out.  A node left by a failed load leads to freed memory.
Open(t, call) ==
  /\ thr[t].at = "idle" /\ calls < MaxApiCalls /\ calls' = calls + 1
  /\ \E fd \in Fds :
       LET there == "device" \in held /\ phase \in {"loading", "live"}
       IN  /\ LowestFree(fd)
           /\ fault' = IF "device" \in lost THEN "stale" ELSE fault
           /\ files' = IF there THEN [files EXCEPT ![fd] = insmods] ELSE files
           /\ \* hrperf_instruct_log goes on with the failed open
              Step(t, IF there THEN [IdleThread EXCEPT !.at = "ioctl", !.call = call, !.fd = fd]
                      ELSE IF call = "log" THEN [IdleThread EXCEPT !.at = "ioctl", !.call = call]
                      ELSE [IdleThread EXCEPT !.ok = FALSE])
  /\ UNCHANGED <<kernelVars, running, cycles, doubledBy>>

\* An open file whose module is gone, though another may have been loaded.
Gone(inst) == phase = "out" \/ inst # insmods

Ioctl(t, call) ==
  /\ thr[t].at = "ioctl" /\ thr[t].call = call
  /\ thr[t].fd \in OpenFds /\ ~Gone(files[thr[t].fd])
Return(t, ok) == Step(t, [thr[t] EXCEPT !.at = "close", !.ok = ok])

\* The descriptor is not open: EBADF.
IoctlBadFd(t) ==
  /\ thr[t].at = "ioctl" /\ thr[t].fd \notin OpenFds
  /\ Return(t, FALSE)
  /\ UNCHANGED <<kernelVars, running, cycles, files, calls, doubledBy, fault>>

IoctlStale(t) ==
  /\ thr[t].at = "ioctl" /\ thr[t].fd \in OpenFds /\ Gone(files[thr[t].fd])
  /\ fault' = "stale"
  /\ UNCHANGED <<kernelVars, running, cycles, files, thr, calls, doubledBy>>

\* Fault variant of Start: the mode is not tested.
StartMonitorAnyMode(t) ==
  /\ Ioctl(t, "start")
  /\ running' = TRUE /\ Return(t, TRUE)
  /\ fault' = IF ~running /\ ~({"poller", "logger"} \subseteq held) THEN "wake" ELSE fault
  /\ UNCHANGED <<kernelVars, cycles, files, calls, doubledBy>>

\* HRP_PMC_IOC_START wakes both threads through pointers it does not test.
StartMonitor(t) ==
  /\ Ioctl(t, "start")
  /\ running' = (running \/ ~instructed) /\ Return(t, ~instructed)
  /\ fault' = IF ~instructed /\ ~running /\ ~({"poller", "logger"} \subseteq held)
              THEN "wake" ELSE fault
  /\ UNCHANGED <<kernelVars, cycles, files, calls, doubledBy>>

Pause(t) ==
  /\ Ioctl(t, "pause")
  /\ running' = (running /\ instructed) /\ Return(t, ~instructed)
  /\ UNCHANGED <<kernelVars, cycles, files, calls, doubledBy, fault>>

\* HRP_PMC_IOC_INSTRUCTED_LOG: refused in polling mode and without a
\* workqueue; the log itself goes through log_file.
InstructedLog(t) ==
  /\ Ioctl(t, "log")
  /\ LET accepted == instructed /\ "wq" \in held
     IN  /\ Return(t, accepted)
         /\ fault' \in {fault} \cup (IF accepted /\ "log" \notin held THEN {"log"} ELSE {})
  /\ UNCHANGED <<kernelVars, running, cycles, files, calls, doubledBy>>

\* HRP_PMC_IOC_TSC_FREQ: test, calibrate for half a second, test, copy.
TscTest(t) ==
  /\ Ioctl(t, "tsc")
  /\ Step(t, [thr[t] EXCEPT !.inst = insmods, !.at = IF cycles = 0 THEN "calibrate" ELSE "copy"])
  /\ UNCHANGED <<kernelVars, running, cycles, files, calls, doubledBy, fault>>
TscCalibrate(t) ==
  /\ thr[t].at = "calibrate" /\ ~Gone(thr[t].inst)
  /\ cycles' \in {0, 1}
  /\ IF cycles' = 0 THEN Return(t, FALSE)
     ELSE Step(t, [thr[t] EXCEPT !.at = "copy"])
  /\ UNCHANGED <<kernelVars, running, files, calls, doubledBy, fault>>

TscCopy(t) ==
  /\ thr[t].at = "copy" /\ ~Gone(thr[t].inst)
  /\ Step(t, [thr[t] EXCEPT !.at = "close", !.reply = cycles])
  /\ UNCHANGED <<kernelVars, running, cycles, files, calls, doubledBy, fault>>
TscStale(t) ==
  /\ thr[t].at \in {"calibrate", "copy"} /\ Gone(thr[t].inst)
  /\ fault' = "stale"
  /\ UNCHANGED <<kernelVars, running, cycles, files, thr, calls, doubledBy>>

Closed(fd) == [f \in Fds |-> IF f = fd THEN 0 ELSE files[f]]

\* close; hrperf_instruct_log closes once more after a failed ioctl.
Close(t) ==
  /\ thr[t].at = "close"
  /\ files' = Closed(thr[t].fd)
  /\ Step(t, IF thr[t].call = "log" /\ ~thr[t].ok
             THEN [thr[t] EXCEPT !.at = "close2"] ELSE IdleThread)
  /\ UNCHANGED <<kernelVars, running, cycles, calls, doubledBy, fault>>
CloseAgain(t) ==
  /\ thr[t].at = "close2"
  /\ files' = Closed(thr[t].fd)
  /\ doubledBy' = IF thr[t].fd \in OpenFds THEN thr[t].call ELSE doubledBy
  /\ Step(t, IdleThread)
  /\ UNCHANGED <<kernelVars, running, cycles, calls, fault>>

\* The logger writes through log_file, which may be NULL.
LoggerWrites ==
  /\ running /\ "logger" \in held /\ "log" \notin held
  /\ fault' = "log"
  /\ UNCHANGED <<kernelVars, running, cycles, files, thr, calls, doubledBy>>

ThreadStep(t) ==
  \/ \E call \in ApiCalls : Open(t, call)
  \/ IoctlBadFd(t) \/ IoctlStale(t) \/ StartMonitor(t) \/ Pause(t) \/ InstructedLog(t)
  \/ TscTest(t) \/ TscCalibrate(t) \/ TscCopy(t) \/ TscStale(t)
  \/ Close(t) \/ CloseAgain(t)

LifeFinished ==
  /\ \/ fault # "none"
     \/ phase = "out" /\ insmods = MaxInsmods /\ calls = MaxApiCalls
        /\ \A t \in Threads : thr[t].at = "idle"
  /\ UNCHANGED lifeVars

LifeNext ==
  \/ fault = "none" /\ (Insmod \/ LoadStep \/ UnloadStep \/ LoggerWrites
                        \/ \E t \in Threads : ThreadStep(t))
  \/ LifeFinished

LifeSpec == LifeInit /\ [][LifeNext]_lifeVars

----------------------------------------------------------------------------
(* Properties.                                                              *)

(* Whatever step hrp_pmc_init fails in, the character device is left either *)
(* whole or not at all, and cleanup leaves nothing of it: there is never a  *)
(* region without its cdev, class and node once nobody loads or unloads.    *)
DeviceAllOrNothing ==
  phase = "out" => held = {} /\ (lost \cap DevRes) \in {{}, DevRes}

(* A module that is up has no leftovers of an earlier, failed load beside   *)
(* it: no second poller or logger, no device node of freed memory, no       *)
(* buffers.  A late failure does not undo anything, but it keeps the fixed  *)
(* major number, which makes every later load fail.                         *)
OneInstance ==
  phase = "live" => lost \cap (Resources \ {"mbm"}) = {}

(* Once hrp_pmc_init has returned 0, everything the ioctls use without a    *)
(* test is there: both threads in polling mode, the workqueue in instructed *)
(* mode, and the buffers.                                                   *)
ReadyWhenLive ==
  phase = "live" =>
    /\ "buffers" \in held
    /\ IF instructed THEN "wq" \in held ELSE {"poller", "logger"} \subseteq held

(* While the module unloads, whoever uses the buffers and the file (the     *)
(* threads, the workqueue) goes before them, and the device last.           *)
TeardownOrder ==
  phase = "unloading" =>
    /\ held \cap {"poller", "logger", "wq"} # {} => "buffers" \in held
    /\ "buffers" \in held => DevRes \subseteq held

(* hrperf.c: in whichever step hrp_pmc_init fails, the device is left whole *)
(* or not at all, a module that is up has nothing of a failed load beside   *)
(* it, and cleanup takes down who uses the buffers before the buffers.      *)
LoadsLeaveNoTrace == DeviceAllOrNothing /\ OneInstance /\ TeardownOrder

(* No call of the API brings the kernel down in a module that has finished  *)
(* loading and has its log file.  A null thread is woken only while         *)
(* hrp_pmc_init has published the device and not yet made the threads;      *)
(* freed memory is used only after a load that failed.                      *)
FaultsOnlyInWindows ==
  /\ fault = "wake" => phase = "loading"
  /\ fault = "log" => "log" \notin held /\ "buffers" \in held
  /\ fault = "stale" => phase = "out" \/ lost # {}

(* HRP_PMC_IOC_TSC_FREQ succeeds with a frequency of 0 only in a build that *)
(* does not calibrate at load, where another caller's failed calibration    *)
(* may clear the cached value between a test and the copy.                  *)
TscReplies ==
  build.tsc => \A t \in Threads : thr[t].reply # 0

(* No call of the API leaks its descriptor, on any of its error paths.      *)
NoDescriptorLeak ==
  (\A t \in Threads : thr[t].at = "idle") => OpenFds = {}

(* A thread's descriptor stays open until it closes it itself, unless a     *)
(* hrperf_instruct_* call that failed has closed its own number twice.      *)
DescriptorOwned ==
  \A t \in Threads :
    thr[t].at \in {"ioctl", "calibrate", "copy", "close"} /\ thr[t].fd # NoFd
      => thr[t].fd \in OpenFds \/ doubledBy = "log"

(* hrperf.c, hrperf_api.h: once the module is up its ioctls find all they   *)
(* use, so that a call can bring the kernel down only in the windows the    *)
(* code leaves open; the reply to the TSC ioctl is a frequency; and no call *)
(* leaks its descriptor, or closes another thread's unless its ioctl        *)
(* failed.                                                                  *)
CallsSafe ==
  /\ ReadyWhenLive /\ FaultsOnlyInWindows /\ TscReplies
  /\ NoDescriptorLeak /\ DescriptorOwned

=============================================================================
