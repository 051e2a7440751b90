------------------------------ MODULE McListen ------------------------------
(***************************************************************************)
(* Connections of the memcached server                                     *)
(* (apps/memcached-1.6.19/memcached.c): the main thread accepts them and   *)
(* stops listening when descriptors run out, worker threads open, serve    *)
(* and close them, and the idle-timeout thread asks the workers to close   *)
(* those that sent no command for too long.                                *)
(*                                                                         *)
(* The time since a connection's last command is kept as an age that       *)
(* saturates one past idle_timeout.  thread.c (external) is modelled from  *)
(* its use: dispatch_conn_new and timeout_conn put a notification in a     *)
(* worker's queue, accept_new_conns calls do_accept_new_conns under        *)
(* conn_lock.                                                              *)
(***************************************************************************)
EXTENDS Integers, FiniteSets

CONSTANTS LiFds,      \* descriptors the process may open for clients
          LiIdle,     \* settings.idle_timeout
          LiClients   \* bound: clients waiting in the backlog

\* What the module assumes of its constants.
ListenAssumption == LiFds \in Nat

VARIABLES
  liFast,     \* settings.maxconns_fast
  liPending,  \* clients in the backlog
  liListen,   \* the listening socket's event is enabled
  liAllow,    \* allow_new_conns
  liMain,     \* main thread: "loop", "full" (accept failed with EMFILE)
  liConn,     \* per descriptor: "free", "queued", "open", "busy", "closing", "closed"
  liGone,     \* the client has disconnected
  liAge,      \* current_time - last_cmd_time
  liCount,    \* stats_state.curr_conns, without the listener's own
  liScan,     \* next descriptor the timeout thread looks at
  liMsgs      \* connections the timeout thread has notified a worker about

livars == <<liFast, liPending, liListen, liAllow, liMain, liConn, liGone, liAge, liCount,
            liScan, liMsgs>>

Fds == 1..LiFds
Old == LiIdle + 1

ListenInit ==
  /\ liFast \in BOOLEAN /\ liPending = 0 /\ liListen = TRUE /\ liAllow = TRUE /\ liMain = "loop"
  /\ liConn = [f \in Fds |-> "free"] /\ liGone = [f \in Fds |-> FALSE]
  /\ liAge = [f \in Fds |-> 0] /\ liCount = 0 /\ liScan = 1 /\ liMsgs = {}

Set(f, s) == liConn' = [liConn EXCEPT ![f] = s]
Unopened == {f \in Fds : liConn[f] \in {"free", "closed"}}

\* The kernel hands out the lowest descriptor.
NewFd(f) == f \in Unopened /\ \A g \in Unopened : f <= g

\* conn_listening: a client is accepted.  With maxconns_fast a descriptor
\* that is too high is closed again at once.
Accept ==
  /\ liMain = "loop" /\ liListen /\ liPending > 0
  /\ \/ /\ Unopened = {} /\ liMain' = "full" /\ UNCHANGED <<liPending, liConn, liGone>>
     \/ \E f \in Fds :
          /\ NewFd(f) /\ liPending' = liPending - 1 /\ UNCHANGED liMain
          /\ IF liFast /\ f >= LiFds THEN UNCHANGED <<liConn, liGone>>
             ELSE Set(f, "queued") /\ liGone' = [liGone EXCEPT ![f] = FALSE]
  /\ UNCHANGED <<liFast, liListen, liAllow, liAge, liCount, liScan, liMsgs>>

\* do_accept_new_conns(false), which also arms the timer of maxconns_handler.
StopAccepting ==
  /\ liMain = "full" /\ liMain' = "loop"
  /\ liListen' = FALSE /\ liAllow' = FALSE
  /\ UNCHANGED <<liFast, liPending, liConn, liGone, liAge, liCount, liScan, liMsgs>>

\* maxconns_handler: the timer is armed again until a connection has closed.
MaxconnsHandler ==
  /\ liMain = "loop" /\ ~liListen /\ liAllow
  /\ liListen' = TRUE
  /\ UNCHANGED <<liFast, liPending, liAllow, liMain, liConn, liGone, liAge, liCount, liScan, liMsgs>>

\* Worker: the notification of dispatch_conn_new, conn_new.
ConnNew(f) ==
  /\ liConn[f] = "queued" /\ Set(f, "open")
  /\ liAge' = [liAge EXCEPT ![f] = 0] /\ liCount' = liCount + 1
  /\ UNCHANGED <<liFast, liPending, liListen, liAllow, liMain, liGone, liScan, liMsgs>>

\* A command starts ...
Command(f) ==
  /\ liConn[f] = "open" /\ ~liGone[f] /\ Set(f, "busy")
  /\ liAge' = [liAge EXCEPT ![f] = 0]
  /\ UNCHANGED <<liFast, liPending, liListen, liAllow, liMain, liGone, liCount, liScan, liMsgs>>

\* ... and ends, or the machine meets an error or the end of the stream.
Serve(f) ==
  /\ \/ liConn[f] = "busy" /\ Set(f, IF liGone[f] THEN "closing" ELSE "open")
     \/ liConn[f] = "open" /\ liGone[f] /\ Set(f, "closing")
  /\ UNCHANGED <<liFast, liPending, liListen, liAllow, liMain, liGone, liAge, liCount, liScan, liMsgs>>

\* conn_closing: conn_close.
ConnClose(f) ==
  /\ liConn[f] = "closing" /\ Set(f, "closed")
  /\ liAllow' = TRUE /\ liCount' = liCount - 1
  /\ UNCHANGED <<liFast, liPending, liListen, liMain, liGone, liAge, liScan, liMsgs>>

ScanEnd == LiFds

\* conn_timeout_thread: one descriptor; after the last it sleeps and starts again.
ScanOne ==
  /\ liMsgs' = IF liConn[liScan] = "open" /\ liAge[liScan] > LiIdle
               THEN liMsgs \cup {liScan} ELSE liMsgs
  /\ liScan' = IF liScan >= ScanEnd THEN 1 ELSE liScan + 1
  /\ UNCHANGED <<liFast, liPending, liListen, liAllow, liMain, liConn, liGone, liAge, liCount>>

\* Fault variant of StillIdle: a check the first thread has made is trusted.
StillIdleAnyAge(f) == liConn[f] = "open"

\* The worker looks again: the connection may have been used, closed or
\* replaced since.
StillIdle(f) == liAge[f] > LiIdle /\ liConn[f] = "open"

\* Worker: the notification of timeout_conn, conn_close_idle.
ConnCloseIdle(f) ==
  /\ f \in liMsgs /\ liMsgs' = liMsgs \ {f}
  /\ IF StillIdle(f) THEN Set(f, "closing") ELSE UNCHANGED liConn
  /\ UNCHANGED <<liFast, liPending, liListen, liAllow, liMain, liGone, liAge, liCount, liScan>>

\* clock_handler: a second passes.
Clock ==
  /\ \E f \in Fds : liAge[f] < Old
  /\ liAge' = [f \in Fds |-> IF liAge[f] < Old THEN liAge[f] + 1 ELSE Old]
  /\ UNCHANGED <<liFast, liPending, liListen, liAllow, liMain, liConn, liGone, liCount, liScan, liMsgs>>

Connect ==
  /\ liPending < LiClients /\ liPending' = liPending + 1
  /\ UNCHANGED <<liFast, liListen, liAllow, liMain, liConn, liGone, liAge, liCount, liScan, liMsgs>>

Disconnect(f) ==
  /\ liConn[f] \in {"queued", "open", "busy"} /\ ~liGone[f]
  /\ liGone' = [liGone EXCEPT ![f] = TRUE]
  /\ UNCHANGED <<liFast, liPending, liListen, liAllow, liMain, liConn, liAge, liCount, liScan, liMsgs>>

MainStep == Accept \/ StopAccepting \/ MaxconnsHandler
WorkerStep(f) == ConnNew(f) \/ Serve(f) \/ ConnClose(f) \/ ConnCloseIdle(f)

ListenNext ==
  \/ MainStep \/ ScanOne \/ Clock \/ Connect
  \/ \E f \in Fds : WorkerStep(f) \/ Command(f) \/ Disconnect(f)

ListenSpec ==
  /\ ListenInit /\ [][ListenNext]_livars
  /\ WF_livars(MainStep) /\ WF_livars(ScanOne) /\ WF_livars(Clock)
  /\ \A f \in Fds : WF_livars(WorkerStep(f))

----------------------------------------------------------------------------
(* Every connection is closed once: curr_conns counts exactly the           *)
(* connections a worker has opened and not closed, whatever notification    *)
(* arrives after the descriptor was closed or given to another client.      *)
ConnsCounted ==
  liCount = Cardinality({f \in Fds : liConn[f] \in {"open", "busy", "closing"}})

(* Only silent connections are kicked: one is closed because its client     *)
(* left or because it has sent no command for longer than idle_timeout,     *)
(* although the decision was first taken in another thread.                 *)
OnlySilentKicked ==
  [][\A f \in Fds : liConn[f] # "closing" /\ liConn'[f] = "closing" =>
       liGone[f] \/ liAge[f] > LiIdle]_livars

(* memcached.c, conn_close, conn_close_idle: the count of connections and   *)
(* the reason for closing one are right in every order of notifications.    *)
ConnectionsKept == []ConnsCounted /\ OnlySilentKicked

\* A server that stopped listening has to listen again once a connection closes.
AtLimit == ~liListen /\ \E f \in Fds : liConn[f] = "closing"

(* A connection that stays silent is closed.                                *)
SilentClosed ==
  \A f \in Fds :
    (liConn[f] = "open" /\ liAge[f] > LiIdle) ~> (liConn[f] # "open" \/ liAge[f] <= LiIdle)

=============================================================================
