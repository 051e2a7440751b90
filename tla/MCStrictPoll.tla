---------------------------- MODULE MCStrictPoll ----------------------------
(* The builds of the runs of StrictPoll.                                   *)
EXTENDS StrictPoll

CONSTANT TwoCpus

InstructedBuild ==
  {[cpus |-> TwoCpus, own |-> FALSE, locks |-> TRUE, timeouts |-> TRUE, allocFails |-> FALSE]}
UntimedBuild ==
  {[cpus |-> TwoCpus, own |-> FALSE, locks |-> FALSE, timeouts |-> FALSE, allocFails |-> FALSE]}

=============================================================================
