------------------------------ MODULE MCDriver ------------------------------
(***************************************************************************)
(* The parts of the kernel module and of the BPF monitor, each on its own: *)
(* job says which one a behaviour runs, the variables of the others keep   *)
(* their initial values.                                                   *)
(***************************************************************************)
EXTENDS InstructedProfile, StrictPoll, Rmid, ModuleLifecycle, UncorePmu, BpfMonitor

CONSTANTS StrictCpus, FaultsCpus

\* Every user thread of instructed mode runs on a CPU of its own.
OwnCpus == [c \in Callers |-> c]

\* Strict polling in instructed mode when no wait times out, and in a build with timeouts
\* and failing allocations.
DriverBuilds ==
  {[cpus |-> StrictCpus, own |-> TRUE, locks |-> TRUE, timeouts |-> FALSE, allocFails |-> FALSE],
   [cpus |-> FaultsCpus, own |-> FALSE, locks |-> FALSE, timeouts |-> TRUE, allocFails |-> TRUE]}

ASSUME DriverAssumption ==
  /\ ProfileAssumption /\ PollAssumption /\ RmidAssumption /\ LifecycleAssumption
  /\ UncoreAssumption /\ BpfAssumption

VARIABLE job

vars == <<job, profileVars, pollVars, rmidVars, lifeVars, imcVars, bpfVars>>

\* The inputs of a part that is not run do not matter: they are fixed.
Init ==
  /\ job \in {"profile", "poll", "rdt", "life", "imc", "bpf"}
  /\ ProfileInit /\ ImcInit /\ BpfInit
  /\ PollInit /\ (job # "poll" => Timeouts)
  /\ RmidInit /\ (job # "rdt" => online = 0..(NCores - 1))
  /\ LifeInit /\ (job # "life" => build = [rdt |-> FALSE, tsc |-> TRUE, imc |-> FALSE])

\* A step A of one of the parts.
ProfileDoes(A) ==
  job = "profile" /\ A /\ UNCHANGED <<job, pollVars, rmidVars, lifeVars, imcVars, bpfVars>>
PollDoes(A) ==
  job = "poll" /\ A /\ UNCHANGED <<job, profileVars, rmidVars, lifeVars, imcVars, bpfVars>>
BpfDoes(A) ==
  job = "bpf" /\ A /\ UNCHANGED <<job, profileVars, pollVars, rmidVars, lifeVars, imcVars>>

RunProfile == ProfileDoes(ProfileNext)
RunPoll == PollDoes(PollNext)
RunRdt ==
  job = "rdt" /\ RmidNext /\ UNCHANGED <<job, profileVars, pollVars, lifeVars, imcVars, bpfVars>>
RunLife ==
  job = "life" /\ LifeNext /\ UNCHANGED <<job, profileVars, pollVars, rmidVars, imcVars, bpfVars>>
RunImc ==
  job = "imc" /\ ImcNext /\ UNCHANGED <<job, profileVars, pollVars, rmidVars, lifeVars, bpfVars>>
RunBpf == BpfDoes(BpfNext)

Next == RunProfile \/ RunPoll \/ RunRdt \/ RunLife \/ RunImc \/ RunBpf

\* Fairness of the parts; job never changes, so that of a disjunction is that of each.  In
\* the first two some thread or interrupt handler that can go on does, and no allocation
\* has to fail; the polling thread of the BPF monitor runs, and probes that began finish.
Spec ==
  /\ Init /\ [][Next]_vars
  /\ WF_vars(\/ ProfileDoes(ProfileProceed) \/ PollDoes(PollProceed)
             \/ BpfDoes(bpfFault = "none" /\ Polling))
  /\ \A c \in NetThreads : WF_vars(BpfDoes(bpfFault = "none" /\ Submit(c)))

----------------------------------------------------------------------------
(* Everything comes to rest, again and again: every call of instructed mode *)
(* returns; strict polling goes through all its rounds and no CPU stays in  *)
(* its handler, with timeouts and failing allocations or without; the       *)
(* polling thread of the BPF monitor leaves no complete record behind.      *)
ComesToRest ==
  []<>(/\ job = "profile" => NobodyCalls
       /\ job = "poll" => RoundsOver
       /\ job = "bpf" => Drained)

=============================================================================
