---------------------------- MODULE MCMemcached ----------------------------
(***************************************************************************)
(* The parts of memcached.c and its client, each on its own: job says which *)
(* one a behaviour runs, the variables of the others keep their initial    *)
(* values.                                                                 *)
(***************************************************************************)
EXTENDS McClient, McResp, McStore, McListen, McConn, McRestart

\* What a client of memcached sends: the kind of a command, the length of its body, and
\* whether it wants a reply.
Sends(kind, body, reply) == [kind |-> kind, body |-> body, reply |-> reply]
Scripts ==
  {<<Sends("big", 3, TRUE), Sends("set", 1, FALSE), Sends("get", 0, TRUE),
     Sends("get", 0, TRUE), Sends("get", 0, TRUE)>>,
   <<Sends("set", 5, TRUE), Sends("get", 0, TRUE), Sends("set", 0, FALSE),
     Sends("quit", 0, FALSE)>>}

ASSUME MemcachedAssumption == StoreAssumption /\ RestartAssumption /\ ListenAssumption

VARIABLE job

vars == <<job, mcvars, rsvars, stvars, livars, covars, rtvars>>

\* The inputs of a program that is not run do not matter: they are fixed.
Init ==
  /\ job \in {"mcclient", "resp", "store", "listen", "conn", "restart"}
  /\ ClientInit /\ (job # "mcclient" => mcOpt.wtype = 2)
  /\ RespInit
  /\ StoreInit
  /\ ListenInit /\ (job # "listen" => liFast)
  /\ ConnInit /\ (job # "conn" => Len(coScript) = 4)
  /\ RestartInit /\ (job # "restart" => rtMono = 0)

ClientDoes(A) ==
  job = "mcclient" /\ A /\ UNCHANGED <<job, rsvars, stvars, livars, covars,
                                       rtvars>>

RunClient == ClientDoes(ClientNext)

RunResp ==
  job = "resp" /\ RespNext /\ UNCHANGED <<job, mcvars, stvars, livars, covars,
                                           rtvars>>

RunStore ==
  job = "store" /\ StoreNext /\ UNCHANGED <<job, mcvars, rsvars, livars, covars,
                                             rtvars>>

ListenDoes(A) ==
  job = "listen" /\ A /\ UNCHANGED <<job, mcvars, rsvars, stvars, covars, rtvars>>

RunListen == ListenDoes(ListenNext)

ConnDoes(A) ==
  job = "conn" /\ A /\ UNCHANGED <<job, mcvars, rsvars, stvars, livars, rtvars>>

RunConn == ConnDoes(ConnNext)

RunRestart ==
  job = "restart" /\ RestartNext /\ UNCHANGED <<job, mcvars, rsvars, stvars,
                                                 livars, covars>>

Next ==
  \/ RunClient \/ RunResp \/ RunStore \/ RunListen \/ RunConn \/ RunRestart

\* Fairness of the programs; job never changes, so that of a disjunction is that of each.
Spec ==
  /\ Init /\ [][Next]_vars
  /\ WF_vars(\/ ClientDoes(ClientProceed)
             \/ ListenDoes(MainStep)
             \/ ConnDoes(ConnProceed))
  /\ WF_vars(ListenDoes(ScanOne)) /\ WF_vars(ListenDoes(Clock))
  /\ \A f \in Fds : WF_vars(ListenDoes(WorkerStep(f)))

----------------------------------------------------------------------------
(* Nobody waits for ever: the experiment of mcclient.cc ends unless an      *)
(* agent is lost, every command that wants a reply gets it, a server at its *)
(* limit of connections listens again, and a connection that stays silent   *)
(* is closed.                                                               *)
NothingStuck ==
  /\ (job \in {"mcclient", "conn"} \/ (job = "listen" /\ AtLimit))
     ~>
     (\/ job = "mcclient" /\ Ended
      \/ job = "conn" /\ Answered
      \/ job = "listen" /\ liListen)
  /\ job = "listen" => SilentClosed

=============================================================================
