------------------------------- MODULE McConn -------------------------------
(***************************************************************************)
(* drive_machine of the memcached server                                   *)
(* (apps/memcached-1.6.19/memcached.c) for one TCP connection of the text  *)
(* protocol, whose client pipelines commands.  Each state of the machine   *)
(* is an action; in between the client sends, reads and may leave.  A      *)
(* worker handles at most CoReqs commands before it yields to other        *)
(* connections, and comes back when libevent reports the event it asked    *)
(* for.                                                                    *)
(*                                                                         *)
(* Bytes are counted, not stored: the client's stream is the commands of   *)
(* coScript one after the other, each a line of two bytes and a body, and  *)
(* positions in it tell what is read and consumed.  The commands           *)
(* themselves are in proto_text.c (external), modelled from how            *)
(* drive_machine uses them.  Left out: UDP, TLS, extstore's IO queues,     *)
(* chunked items and the growth of the buffer for huge multigets.          *)
(***************************************************************************)
EXTENDS Integers, Sequences, FiniteSetsExt

CONSTANTS CoScripts,  \* what the client sends: sequences of [kind, body, reply]
          CoBuf,      \* rsize
          CoReqs,     \* settings.reqs_per_event
          CoReply,    \* bytes of a reply
          CoSock      \* room of the socket's send buffer

VARIABLES
  coScript,
  coState,   \* c->state
  coRun,     \* the worker is in drive_machine
  coReqs,    \* nreqs
  coEv,      \* c->ev_flags: "read" or "write"
  coSent,    \* bytes of the stream that reached the socket
  coRead,    \* bytes read from the socket
  coUsed,    \* bytes consumed; rbytes is coRead - coUsed
  coCmd,     \* commands parsed
  coNeed,    \* rlbytes or sbytes: bytes of the body still to come
  coResp,    \* the chain of responses: [cmd, left, skip]
  coRoom,    \* room in the send buffer
  coOut,     \* what the client's side received: the command of each byte
  coEof      \* the client has left

covars == <<coScript, coState, coRun, coReqs, coEv, coSent, coRead, coUsed, coCmd, coNeed, coResp,
            coRoom, coOut, coEof>>

Line == 2
Start(k) == Line * (k - 1) + MapThenSumSet(LAMBDA j : coScript[j].body, 1..(k - 1))
Total == Start(Len(coScript) + 1)
RBytes == coRead - coUsed
Least(a, b) == IF a < b THEN a ELSE b

ConnInit ==
  /\ coScript \in CoScripts /\ coState = "new_cmd" /\ coRun = FALSE /\ coReqs = 0 /\ coEv = "read"
  /\ coSent = 0 /\ coRead = 0 /\ coUsed = 0 /\ coCmd = 0 /\ coNeed = 0
  /\ coResp = <<>> /\ coRoom = CoSock /\ coOut = <<>> /\ coEof = FALSE

\* The descriptor is readable, at the end of the stream too, or writable.
Readable == coSent > coRead \/ coEof

\* event_handler: libevent reports the event the connection waits for.
EventHandler ==
  /\ ~coRun /\ coState # "closed"
  /\ IF coEv = "read" THEN Readable ELSE coRoom > 0 \/ coEof
  /\ coRun' = TRUE /\ coReqs' = CoReqs
  /\ UNCHANGED <<coScript, coState, coEv, coSent, coRead, coUsed, coCmd, coNeed, coResp, coRoom,
                 coOut, coEof>>

In(s) == coRun /\ coState = s
Socket == <<coScript, coSent, coRoom, coOut, coEof>>

\* reset_cmd_handler: what follows a finished command.
Following == IF RBytes > 0 THEN "parse" ELSE IF coResp # <<>> THEN "mwrite" ELSE "waiting"

\* After its share of commands, the worker leaves.  What it has read already
\* raises no event, so it asks for the socket to be writable.
Yield == coRun' = FALSE /\ coEv' = IF RBytes > 0 THEN "write" ELSE coEv

\* conn_new_cmd
NewCmd ==
  /\ In("new_cmd") /\ coReqs' = coReqs - 1
  /\ \/ coReqs > 0 /\ coState' = Following /\ UNCHANGED <<coRun, coEv>>
     \/ coReqs <= 0 /\ coResp # <<>> /\ coState' = "mwrite" /\ UNCHANGED <<coRun, coEv>>
     \/ coReqs <= 0 /\ coResp = <<>> /\ Yield /\ UNCHANGED coState
  /\ UNCHANGED <<coRead, coUsed, coCmd, coNeed, coResp>> /\ UNCHANGED Socket

\* conn_waiting: rbuf_release frees the read buffer only when it is empty.
Waiting ==
  /\ In("waiting") /\ coState' = "read" /\ coEv' = "read" /\ coRun' = FALSE
  /\ UNCHANGED <<coReqs, coRead, coUsed, coCmd, coNeed, coResp>> /\ UNCHANGED Socket

\* A read of at most n bytes: how many, or the end of the stream, or EAGAIN.
Got(n) == Least(n, coSent - coRead)
AtEnd == coSent = coRead /\ coEof

\* conn_read: try_read_network.
ReadNetwork ==
  /\ In("read")
  /\ coRead' = coRead + Got(CoBuf - RBytes)
  /\ coState' = IF Got(CoBuf - RBytes) > 0 THEN "parse" ELSE IF AtEnd THEN "closing" ELSE "waiting"
  /\ UNCHANGED <<coRun, coReqs, coEv, coUsed, coCmd, coNeed, coResp>> /\ UNCHANGED Socket

\* out_string: the last response gets its text, or is skipped for noreply.
OutString(chain, k) ==
  [chain EXCEPT ![Len(chain)] =
     [cmd |-> k, left |-> CoReply, skip |-> ~coScript[k].reply]]

Blank(k) == [cmd |-> k, left |-> 0, skip |-> FALSE]

\* A whole line: the next command starts.
Process(k) ==
  LET chain == Append(coResp, Blank(k))
  IN  /\ coUsed' = coUsed + Line /\ coCmd' = k /\ coNeed' = coScript[k].body
      /\ \/ coScript[k].kind = "get" /\ coState' = "new_cmd" /\ coResp' = OutString(chain, k)
         \/ coScript[k].kind = "set" /\ coState' = "nread" /\ coResp' = chain
         \/ coScript[k].kind = "big" /\ coState' = "swallow" /\ coResp' = OutString(chain, k)
         \/ coScript[k].kind = "quit" /\ coState' = "closing" /\ coResp' = chain

\* conn_parse_cmd: with half a line, waiting responses are sent first.
ParseCmd ==
  /\ In("parse")
  /\ IF RBytes >= Line THEN Process(coCmd + 1)
     ELSE /\ coState' = IF coResp # <<>> THEN "mwrite" ELSE "waiting"
          /\ UNCHANGED <<coUsed, coCmd, coNeed, coResp>>
  /\ UNCHANGED <<coRun, coReqs, coEv, coRead>> /\ UNCHANGED Socket

\* Bytes of the body that are in the read buffer.
ToCopy == Least(RBytes, coNeed)

\* The rest of the body comes from the socket, or the machine waits for it.
BodyFromSocket(need) ==
  LET got == Got(need)
  IN  /\ coUsed' = coUsed + ToCopy + got /\ coRead' = coRead + got /\ coNeed' = need - got
      /\ \/ got > 0 /\ UNCHANGED <<coState, coRun, coEv>>
         \/ got = 0 /\ AtEnd /\ coState' = "closing" /\ UNCHANGED <<coRun, coEv>>
         \/ got = 0 /\ ~AtEnd /\ coEv' = "read" /\ coRun' = FALSE /\ UNCHANGED coState

\* conn_nread: complete_nread stores the item and answers.
Nread ==
  /\ In("nread")
  /\ \/ /\ coNeed = 0 /\ coState' = "new_cmd" /\ coResp' = OutString(coResp, coCmd)
        /\ UNCHANGED <<coRun, coEv, coRead, coUsed, coNeed>>
     \/ /\ coNeed > 0 /\ ToCopy >= coNeed /\ UNCHANGED <<coState, coRun, coEv, coRead, coResp>>
        /\ coUsed' = coUsed + ToCopy /\ coNeed' = 0
     \/ /\ coNeed > 0 /\ ToCopy < coNeed /\ BodyFromSocket(coNeed - ToCopy) /\ UNCHANGED coResp
  /\ UNCHANGED <<coReqs, coCmd>> /\ UNCHANGED Socket

\* Fault variant of Swallow: the whole buffer is dropped with the body.
SwallowAll ==
  /\ In("swallow")
  /\ \/ coNeed = 0 /\ coState' = "new_cmd" /\ UNCHANGED <<coRun, coEv, coRead, coUsed, coNeed>>
     \/ /\ coNeed > 0 /\ RBytes > 0 /\ UNCHANGED <<coState, coRun, coEv, coRead>>
        /\ coUsed' = coRead /\ coNeed' = coNeed - ToCopy
     \/ coNeed > 0 /\ RBytes = 0 /\ BodyFromSocket(coNeed)
  /\ UNCHANGED <<coReqs, coCmd, coResp>> /\ UNCHANGED Socket

\* conn_swallow
Swallow ==
  /\ In("swallow")
  /\ \/ coNeed = 0 /\ coState' = "new_cmd" /\ UNCHANGED <<coRun, coEv, coRead, coUsed, coNeed>>
     \/ /\ coNeed > 0 /\ RBytes > 0 /\ UNCHANGED <<coState, coRun, coEv, coRead>>
        /\ coUsed' = coUsed + ToCopy /\ coNeed' = coNeed - ToCopy
     \/ coNeed > 0 /\ RBytes = 0 /\ BodyFromSocket(coNeed)
  /\ UNCHANGED <<coReqs, coCmd, coResp>> /\ UNCHANGED Socket

\* _transmit_pre: the bytes to send, as the commands they answer.
ToSend ==
  LET bytes(r) == IF r.skip THEN <<>> ELSE [i \in 1..r.left |-> r.cmd]
      all[i \in 0..Len(coResp)] == IF i = 0 THEN <<>> ELSE all[i - 1] \o bytes(coResp[i])
  IN  all[Len(coResp)]

\* _transmit_post: what is left of the chain when n bytes were sent.
TransmitPost(n) ==
  LET after[i \in 0..Len(coResp)] ==
        IF i = 0 THEN 0 ELSE after[i - 1] + (IF coResp[i].skip THEN 0 ELSE coResp[i].left)
      done == Max({i \in 0..Len(coResp) : after[i] <= n})
      rest == SubSeq(coResp, done + 1, Len(coResp))
  IN  IF rest = <<>> THEN rest ELSE [rest EXCEPT ![1].left = @ - (n - after[done])]

\* conn_mwrite: transmit.  The socket takes what it has room for; with none
\* the machine waits until it is writable, and with no client it closes.
Mwrite ==
  /\ In("mwrite")
  /\ LET n == Least(Len(ToSend), coRoom)
     IN  \/ /\ ToSend = <<>> \/ (n > 0 /\ ~coEof)
            /\ coResp' = TransmitPost(n) /\ coRoom' = coRoom - n
            /\ coOut' = coOut \o SubSeq(ToSend, 1, n)
            /\ coState' = IF TransmitPost(n) = <<>> THEN "new_cmd" ELSE "mwrite"
            /\ UNCHANGED <<coRun, coEv>>
         \/ /\ ToSend # <<>> /\ coEof
            /\ coState' = "closing" /\ UNCHANGED <<coRun, coEv, coResp, coRoom, coOut>>
         \/ /\ ToSend # <<>> /\ n = 0 /\ ~coEof
            /\ coEv' = "write" /\ coRun' = FALSE /\ UNCHANGED <<coState, coResp, coRoom, coOut>>
  /\ UNCHANGED <<coScript, coReqs, coSent, coRead, coUsed, coCmd, coNeed, coEof>>

\* conn_closing: conn_close releases the item and the responses.
Closing ==
  /\ In("closing") /\ coState' = "closed" /\ coRun' = FALSE
  /\ coResp' = <<>> /\ coUsed' = coRead
  /\ UNCHANGED <<coReqs, coEv, coRead, coCmd, coNeed>> /\ UNCHANGED Socket

Machine ==
  \/ EventHandler \/ NewCmd \/ Waiting \/ ReadNetwork \/ ParseCmd \/ Nread \/ Swallow \/ Mwrite
  \/ Closing

Server == <<coScript, coState, coRun, coReqs, coEv, coRead, coUsed, coCmd, coNeed, coResp, coOut>>

ClientSends ==
  /\ ~coEof /\ coSent < Total /\ \E n \in {1, 3} : coSent' = Least(coSent + n, Total)
  /\ UNCHANGED Server /\ UNCHANGED <<coRoom, coEof>>

ClientReads == coRoom < CoSock /\ coRoom' = CoSock /\ UNCHANGED Server /\ UNCHANGED <<coSent, coEof>>

ClientLeaves == ~coEof /\ coEof' = TRUE /\ UNCHANGED Server /\ UNCHANGED <<coSent, coRoom>>

ConnProceed == Machine \/ ClientSends \/ ClientReads

ConnNext == ConnProceed \/ ClientLeaves

\* The weakest fairness: as long as the worker or the client can go on, one does.
ConnSpec == ConnInit /\ [][ConnNext]_covars /\ WF_covars(ConnProceed)

----------------------------------------------------------------------------
(* The server stays in step with the stream however it is cut up: a command *)
(* is parsed exactly where the client began one, so no body is taken for a  *)
(* command and no byte is skipped, and the read buffer never overflows.     *)
InStep ==
  /\ coState \in {"new_cmd", "parse", "mwrite", "waiting", "read"} => coUsed = Start(coCmd + 1)
  /\ coUsed <= coRead /\ coRead <= coSent /\ RBytes <= CoBuf

\* The replies to the first n commands of the script.
Expected ==
  LET all[i \in 0..Len(coScript)] ==
        IF i = 0 THEN <<>>
        ELSE IF coScript[i].reply THEN all[i - 1] \o [j \in 1..CoReply |-> i] ELSE all[i - 1]
  IN  all[Len(coScript)]

(* The client gets the replies in the order of its commands, each byte      *)
(* once, although they are sent in pieces and some commands want none.      *)
RepliesInOrder ==
  Len(coOut) <= Len(Expected) /\ coOut = SubSeq(Expected, 1, Len(coOut))

(* memcached.c: both ends of a connection stay in step however its stream   *)
(* is cut up.                                                               *)
StreamsInStep == InStep /\ RepliesInOrder

\* Every command that wants a reply has to be answered, if the client goes on reading:
\* yielding with requests in the buffer loses none of them.
Answered == coEof \/ coState = "closed" \/ coOut = Expected

=============================================================================
