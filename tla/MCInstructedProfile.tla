------------------------ MODULE MCInstructedProfile ------------------------
(* Where the user threads run, for the runs of InstructedProfile.          *)
EXTENDS InstructedProfile

SameCpu == [c \in Callers |-> 0]
=============================================================================
