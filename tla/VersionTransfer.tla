--------------------------- MODULE VersionTransfer ---------------------------
(***************************************************************************)
(* Qt/thrift: clients ask the version server for a version and then for a  *)
(* file.  TSimpleServer serves one connection at a time; getFile listens   *)
(* on a port of its own and waits there for a connection, while its caller *)
(* waits for getFile.  Anything else that connects to that port is a       *)
(* stranger.  The file is a number of blocks.                              *)
(***************************************************************************)
EXTENDS Integers, Sequences, FiniteSets

CONSTANTS
  Clients, Strangers,
  FileBlocks      \* blocks of test.o

VARIABLES
  cpc,        \* a client: the next step of main and transFile
  spc, cur,   \* the server: the next step of getFile; the client it serves
  backlog,    \* clients whose connection waits for TSimpleServer
  listening,  \* a socket of the server, left open or not, listens on the port
  queue,      \* connections of the port not accepted yet
  peer,       \* the connection getFile accepted, "none" if there is none
  left,       \* blocks to be written
  got,        \* blocks received by a client or a stranger
  created     \* the clients that have created (and emptied) output.txt
vars == <<cpc, spc, cur, backlog, listening, queue, peer, left, got, created>>

None == "none"
Peers == Clients \cup Strangers

\* Assumed of the constants: nobody is a client and a stranger, and both are
\* somebody.
VersionAssumption == Clients \cap Strangers = {} /\ None \notin Peers /\ FileBlocks \in Nat

Init ==
  /\ cpc = [c \in Clients |-> "new"]
  /\ spc = "serve" /\ cur = None /\ backlog = << >>
  /\ listening = FALSE /\ queue = << >> /\ peer = None /\ left = 0
  /\ got = [p \in Peers |-> 0] /\ created = {}

Step(c, from, to) == cpc[c] = from /\ cpc' = [cpc EXCEPT ![c] = to]

-----------------------------------------------------------------------------
(* The clients.                                                            *)

\* transport->open().
Connect(c) ==
  /\ Step(c, "new", "version")
  /\ backlog' = Append(backlog, c)
  /\ UNCHANGED <<spc, cur, listening, queue, peer, left, got, created>>

\* fetchVersion and its reply, when the server serves the connection; then
\* the call of getFile is on its way.
FetchVersion(c) ==
  /\ cur = c /\ spc = "serve"
  /\ Step(c, "version", "getFile")
  /\ UNCHANGED <<spc, cur, backlog, listening, queue, peer, left, got, created>>

\* transFile: connect, which something must be listening for, and creat.
TransFile(c) ==
  /\ IF listening THEN /\ Step(c, "trans", "recv")
                       /\ queue' = Append(queue, c) /\ created' = created \cup {c}
     ELSE Step(c, "trans", "close") /\ UNCHANGED <<queue, created>>
  /\ UNCHANGED <<spc, cur, backlog, listening, peer, left, got>>

\* transport->close() and the end of main.
Close(c) ==
  /\ Step(c, "close", "done")
  /\ cur' = IF cur = c THEN None ELSE cur
  /\ UNCHANGED <<spc, backlog, listening, queue, peer, left, got, created>>

\* A client is killed: the server, in accept or in a write to another peer,
\* does not notice before it comes back to the connection.
Killed(c) ==
  /\ cpc[c] \in {"version", "getFile", "trans", "recv"}
  /\ cpc' = [cpc EXCEPT ![c] = "killed"]
  /\ UNCHANGED <<spc, cur, backlog, listening, queue, peer, left, got, created>>

Client(c) == Connect(c) \/ FetchVersion(c) \/ TransFile(c) \/ Close(c)

-----------------------------------------------------------------------------
(* The server.                                                             *)

\* TSimpleServer takes the next connection when the one it served has ended.
Serve ==
  /\ spc = "serve" /\ backlog # << >>
  /\ cur # None => cpc[cur] \in {"done", "killed"}
  /\ cur' = Head(backlog) /\ backlog' = Tail(backlog)
  /\ UNCHANGED <<cpc, spc, listening, queue, peer, left, got, created>>

\* The reply to getFile, which its caller waits for.
Reply == cpc' = IF cpc[cur] = "getFile" THEN [cpc EXCEPT ![cur] = "trans"] ELSE cpc

\* getFile: socket, bind and listen.  bind fails when an earlier socket is
\* still listening, and may fail for other reasons (another program, a
\* connection in TIME_WAIT): getFile returns.
GetFile ==
  /\ spc = "serve" /\ cur # None /\ cpc[cur] = "getFile"
  /\ \/ ~listening /\ listening' = TRUE /\ spc' = "accept" /\ UNCHANGED cpc
     \/ Reply /\ UNCHANGED <<spc, listening>>
  /\ UNCHANGED <<cur, backlog, queue, peer, left, got, created>>

\* accept: blocks until somebody has connected to the port.  open of test.o
\* may fail: getFile returns and leaves both descriptors open.
TakeConnection ==
  /\ spc = "accept" /\ queue # << >>
  /\ queue' = Tail(queue)
  /\ \/ peer' = Head(queue) /\ left' = FileBlocks /\ spc' = "write" /\ UNCHANGED cpc
     \/ spc' = "serve" /\ Reply /\ UNCHANGED <<peer, left>>
  /\ UNCHANGED <<cur, backlog, listening, got, created>>

\* Slip: getFile replies before it accepts.
Accept_replied ==
  \/ TakeConnection
  \/ /\ spc = "accept" /\ Reply
     /\ UNCHANGED <<spc, cur, backlog, listening, queue, peer, left, got, created>>

Accept == TakeConnection

\* One write; when the peer has gone, SIGPIPE ends the server.  Only a
\* stranger's connection is ever accepted (FileReachesNoClient).
Write ==
  /\ spc = "write" /\ left > 0
  /\ \/ got' = [got EXCEPT ![peer] = @ + 1] /\ left' = left - 1 /\ UNCHANGED spc
     \/ peer \in Strangers /\ spc' = "killed" /\ UNCHANGED <<got, left>>
  /\ UNCHANGED <<cpc, cur, backlog, listening, queue, peer, created>>

\* The end of the file: both descriptors are closed, connections that were
\* not accepted are reset, and getFile returns.
Finish ==
  /\ spc = "write" /\ left = 0
  /\ spc' = "serve" /\ peer' = None
  /\ listening' = FALSE /\ queue' = << >>
  /\ cpc' = [c \in Clients |->
               IF c = cur /\ cpc[c] = "getFile" THEN "trans"
               ELSE IF cpc[c] = "recv" /\ (c = peer \/ \E k \in DOMAIN queue : queue[k] = c)
               THEN "close" ELSE cpc[c]]
  /\ UNCHANGED <<cur, backlog, left, got, created>>

Server == Serve \/ GetFile \/ Accept \/ Write \/ Finish

\* Something else connects to the port, once each.
Stranger(s) ==
  /\ listening /\ got[s] = 0 /\ peer # s /\ \A k \in DOMAIN queue : queue[k] # s
  /\ queue' = Append(queue, s)
  /\ UNCHANGED <<cpc, spc, cur, backlog, listening, peer, left, got, created>>

Next ==
  \/ \E c \in Clients : Client(c) \/ Killed(c)
  \/ \E s \in Strangers : Stranger(s)
  \/ Server
Spec == Init /\ [][Next]_vars

-----------------------------------------------------------------------------
(* Properties.                                                             *)

\* getFile never sends the file to a client: a client connects to the port
\* only after its getFile has returned, and then nobody accepts there any
\* more.  accept waits for its own caller, until a stranger comes.
FileReachesNoClient == \A c \in Clients : got[c] = 0

\* A client that has emptied its output.txt waits for ever, in the queue of a
\* socket that an earlier getFile left open; the server waits with it.
EmptiedThenHangs == \A c \in created : cpc[c] \in {"recv", "killed"}

\* The circular wait of getFile and its caller is never resolved for a client.
CallersWait == FileReachesNoClient /\ EmptiedThenHangs
=============================================================================
