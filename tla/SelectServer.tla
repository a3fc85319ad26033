---------------------------- MODULE SelectServer ----------------------------
(***************************************************************************)
(* Qt/ZMonitor/test_conn, server: a loop around select accepts clients and *)
(* sends back what they send.  The select call looks at the descriptors up *)
(* to find_max_fd, which is listenfd + 1 whatever clients there are.       *)
(*                                                                         *)
(* A descriptor is its distance from listenfd: 0 is listenfd itself, and   *)
(* the n-th client accepted gets n, since the server closes none.  All are *)
(* in the first word of the fd_set, which select overwrites as a whole.    *)
(* What a client sends is a number of bytes.                               *)
(***************************************************************************)
EXTENDS Vectors, FiniteSets

CONSTANTS
  Clients,    \* the peers that may connect, once each
  MaxSent     \* bound of the bytes a client sends

\* Assumed of the constants.
SelectAssumption == IsFiniteSet(Clients) /\ MaxSent \in Nat

Listen == 0

VARIABLES
  pc,         \* "select", "accept", "loop", "spin" for ever, "killed" by SIGPIPE
  connectfd, rfds,
  i,          \* the index into connectfd
  backlog,    \* the connections that wait for accept
  accepted,   \* history: the clients in the order of their descriptors
  peer,       \* a client: "new", "open", "closed", or "reset" its connection
  sent, echoed, \* bytes a client sent, and bytes sent back to it
  inbuf,      \* bytes of a client that recv has not read
  late        \* the clients an echo was sent to after they had closed

vars == <<pc, connectfd, rfds, i, backlog, accepted, peer, sent, echoed, inbuf, late>>
network == <<backlog, peer, sent, inbuf>>

\* After bind and listen.
Init ==
  /\ pc = "select" /\ i = 1
  /\ connectfd = << >> /\ rfds = {}
  /\ backlog = << >> /\ accepted = << >>
  /\ peer = [c \in Clients |-> "new"]
  /\ sent = [c \in Clients |-> 0] /\ echoed = [c \in Clients |-> 0]
  /\ inbuf = [c \in Clients |-> 0]
  /\ late = {}

\* A connection is readable when bytes, an end of file or an error wait.
Readable(fd) ==
  IF fd = Listen THEN backlog # << >>
  ELSE LET c == accepted[fd] IN inbuf[c] > 0 \/ peer[c] \in {"closed", "reset"}

\* Slip: find_max_fd returns listenfd.
find_max_fd_listen == Listen

find_max_fd == Listen + 1

\* FD_SET adds to what the last select left in rfds.
Watched == rfds \cup {Listen} \cup {connectfd[k] : k \in DOMAIN connectfd}
Ready == {fd \in Watched : fd <= find_max_fd /\ Readable(fd)}

\* Slip: the branch for listenfd has no else.
SelectThenLoop ==
  /\ pc = "select"
  /\ rfds' = Ready
  /\ IF Ready = {} THEN UNCHANGED <<pc, i, connectfd, accepted, backlog>>
     ELSE /\ pc' = "loop" /\ i' = 1
          /\ IF Listen \in Ready
               THEN /\ accepted' = Append(accepted, Head(backlog))
                    /\ connectfd' = Append(connectfd, Len(accepted'))
                    /\ backlog' = Tail(backlog)
               ELSE UNCHANGED <<connectfd, accepted, backlog>>
  /\ UNCHANGED <<peer, sent, echoed, inbuf, late>>

\* select, or its timeout with nothing ready.
Select ==
  /\ pc = "select"
  /\ rfds' = Ready
  /\ IF Ready = {} THEN UNCHANGED <<pc, i>>
     ELSE IF Listen \in Ready THEN pc' = "accept" /\ UNCHANGED i
     ELSE pc' = "loop" /\ i' = 1
  /\ UNCHANGED <<connectfd, accepted, network, echoed, late>>

Accept ==
  /\ pc = "accept"
  /\ accepted' = Append(accepted, Head(backlog))
  /\ connectfd' = Append(connectfd, Len(accepted'))
  /\ backlog' = Tail(backlog)
  /\ pc' = "select"
  /\ UNCHANGED <<rfds, i, peer, sent, echoed, inbuf, late>>

InLoop == pc = "loop" /\ i <= Len(connectfd)
Current == accepted[connectfd[i]]

\* Slip: the erased client is stepped over.
RecvCloseAndStep ==
  /\ InLoop /\ connectfd[i] \in rfds
  /\ inbuf[Current] = 0 /\ peer[Current] = "closed"
  /\ connectfd' = RemoveIndex(connectfd, i)
  /\ i' = i + 1
  /\ UNCHANGED <<pc, rfds, accepted, network, echoed, late>>

\* recv returns 0: the client leaves the vector; its descriptor stays open.
RecvClose ==
  /\ InLoop /\ connectfd[i] \in rfds
  /\ inbuf[Current] = 0 /\ peer[Current] = "closed"
  /\ connectfd' = RemoveIndex(connectfd, i)
  /\ UNCHANGED <<pc, rfds, i, accepted, network, echoed, late>>

\* The send of what recv returned; after a reset it fails and takes the error.
Echo ==
  /\ inbuf[Current] > 0
  /\ inbuf' = [inbuf EXCEPT ![Current] = 0]
  /\ IF peer[Current] = "reset"
       THEN /\ peer' = [peer EXCEPT ![Current] = "closed"]
            /\ UNCHANGED <<echoed, late>>
       ELSE /\ echoed' = [echoed EXCEPT ![Current] = @ + inbuf[Current]]
            /\ late' = late \cup (IF peer[Current] = "closed" THEN {Current} ELSE {})
            /\ UNCHANGED peer
  /\ UNCHANGED <<pc, connectfd, rfds, accepted, backlog, sent>>

\* Slip: i is not moved after an echo.
RecvDataInPlace ==
  /\ InLoop /\ connectfd[i] \in rfds
  /\ Echo
  /\ UNCHANGED i

\* recv returns bytes, and send returns them to the client.
RecvData ==
  /\ InLoop /\ connectfd[i] \in rfds
  /\ Echo
  /\ i' = i + 1

\* recv returns -1, and the send that follows raises SIGPIPE.
RecvError ==
  /\ InLoop /\ connectfd[i] \in rfds
  /\ inbuf[Current] = 0 /\ peer[Current] = "reset"
  /\ pc' = "killed"
  /\ UNCHANGED <<connectfd, rfds, i, accepted, network, echoed, late>>

\* A client that is not ready: i is not moved, and the loop does not end.
NotReady ==
  /\ InLoop /\ connectfd[i] \notin rfds
  /\ pc' = "spin"
  /\ UNCHANGED <<connectfd, rfds, i, accepted, network, echoed, late>>

LoopDone ==
  /\ pc = "loop" /\ i > Len(connectfd)
  /\ pc' = "select"
  /\ UNCHANGED <<connectfd, rfds, i, accepted, network, echoed, late>>

Server == Select \/ Accept \/ RecvClose \/ RecvData \/ RecvError \/ NotReady \/ LoopDone

-----------------------------------------------------------------------------
(* The clients.                                                            *)

Connect(c) ==
  /\ peer[c] = "new"
  /\ peer' = [peer EXCEPT ![c] = "open"]
  /\ backlog' = Append(backlog, c)
  /\ UNCHANGED <<pc, connectfd, rfds, i, accepted, sent, echoed, inbuf, late>>

Send(c) ==
  /\ peer[c] = "open" /\ sent[c] < MaxSent
  /\ sent' = [sent EXCEPT ![c] = @ + 1]
  /\ inbuf' = [inbuf EXCEPT ![c] = @ + 1]
  /\ UNCHANGED <<pc, connectfd, rfds, i, backlog, accepted, peer, echoed, late>>

Close(c) ==
  /\ peer[c] = "open"
  /\ peer' = [peer EXCEPT ![c] = "closed"]
  /\ UNCHANGED <<pc, connectfd, rfds, i, backlog, accepted, sent, echoed, inbuf, late>>

\* A client that closes with an echo unread, or gets one after it has closed,
\* resets the connection.
Reset(c) ==
  /\ \/ peer[c] = "open" /\ echoed[c] > 0
     \/ peer[c] = "closed" /\ c \in late
  /\ peer' = [peer EXCEPT ![c] = "reset"]
  /\ UNCHANGED <<pc, connectfd, rfds, i, backlog, accepted, sent, echoed, inbuf, late>>

Ends == {"spin", "killed"}

Next ==
  \/ pc \notin Ends /\ Server
  \/ \E c \in Clients : Connect(c) \/ Send(c) \/ Close(c) \/ Reset(c)
  \/ pc \in Ends /\ UNCHANGED vars

\* The server is scheduled; select returns or times out.
Spec == Init /\ [][Next]_vars /\ WF_vars(pc \notin Ends /\ Server)

-----------------------------------------------------------------------------

TypeOK ==
  /\ pc \in {"select", "accept", "loop"} \cup Ends
  /\ connectfd \in Seq(1 .. Len(accepted))
  /\ rfds \subseteq 0 .. Len(accepted)
  /\ i \in 1 .. Len(connectfd) + 1
  /\ backlog \in Seq(Clients) /\ accepted \in Seq(Clients)
  /\ peer \in [Clients -> {"new", "open", "closed", "reset"}]
  /\ sent \in [Clients -> 0 .. MaxSent] /\ echoed \in [Clients -> 0 .. MaxSent]
  /\ inbuf \in [Clients -> 0 .. MaxSent]
  /\ late \subseteq Clients

\* The loop over the clients that does not step over one that is not ready
\* hangs the server only after it has accepted a second client.
SpinNeedsTwoClients == pc = "spin" => Len(accepted) >= 2

\* A server of one thread must not block in recv: whenever it calls recv there
\* is something to read, although rfds keeps bits of earlier rounds and of
\* clients that have left.
RecvNeverBlocks ==
  InLoop /\ connectfd[i] \in rfds => Readable(connectfd[i])

\* The server of one thread neither blocks nor spins with a sole client.
NeverHangsAlone == TypeOK /\ SpinNeedsTwoClients /\ RecvNeverBlocks

\* A sole client gets back every byte, in the end, however its sends fall
\* between the steps of the server, unless another client is accepted or the
\* server is killed.
SoleClientIsServed ==
  \A c \in Clients :
    inbuf[c] > 0 ~> \/ inbuf[c] = 0
                    \/ Len(accepted) >= 2 \/ pc = "killed"
=============================================================================
