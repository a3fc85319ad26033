----------------------------- MODULE MCMonitors ------------------------------
(***************************************************************************)
(* The monitors of Qt, each a program of its own: the connection tracker   *)
(* with two interfaces, the process and the socket monitor, and the file   *)
(* transfer of the version server.  A behaviour is one of them.            *)
(***************************************************************************)
EXTENDS MCConnectionTracker
CONSTANTS
  Pids, Width, MaxTicks, MaxBorn, MaxRounds,
  Procs, Unreadable, Tcp, Udp, PRG_HASH_SIZE, MaxCalls, MaxChanges,
  Clients, Strangers, FileBlocks
VARIABLES
  program,    \* "tracker", "processes", "sockets" or "version"
  proc, born, round, dir, opened, lst_task, pline, reads, garbled,
  fds, changes, prg_cache_loaded, prg_hash, calls, pc, at, count, sline, stable,
  cpc, spc, cur, backlog, listening, port, peer, left, got, created

Processes == INSTANCE ProcessMonitor WITH line <- pline
Sockets == INSTANCE SocketMonitor WITH line <- sline
Version == INSTANCE VersionTransfer WITH queue <- port

\* The assumptions of the three modules hold of these instances.
ASSUME MonitorAssumptions ==
  Processes!ProcessAssumption /\ Sockets!SocketAssumption /\ Version!VersionAssumption

processes == <<proc, born, round, dir, opened, lst_task, pline, reads, garbled>>
sockets == <<fds, changes, prg_cache_loaded, prg_hash, calls, pc, at, count, sline, stable>>
version == <<cpc, spc, cur, backlog, listening, port, peer, left, got, created>>

InitMonitors ==
  /\ program \in {"tracker", "processes", "sockets", "version"}
  /\ Init /\ Processes!Init /\ Sockets!Init /\ Version!Init
  /\ program # "sockets" => \A n \in DOMAIN fds : fds[n] = {}

NextMonitors ==
  /\ UNCHANGED program
  /\ \/ program = "tracker" /\ Next /\ UNCHANGED <<processes, sockets, version>>
     \/ program = "processes" /\ Processes!Next /\ UNCHANGED <<vars, sockets, version>>
     \/ program = "sockets" /\ Sockets!Next /\ UNCHANGED <<vars, processes, version>>
     \/ program = "version" /\ Version!Next /\ UNCHANGED <<vars, processes, sockets>>

SpecMonitors == InitMonitors /\ [][NextMonitors]_<<program, vars, processes, sockets, version>>

\* SamplesKept of ProcessMonitor (readProc) and OwnersAsLoaded of
\* SocketMonitor (readSocket, prg_cache_get): what a monitor shows of a
\* process or a socket is its own, whatever starts, ends and changes between
\* two looks at /proc.
ShowsItsOwn == Processes!SamplesKept /\ Sockets!OwnersAsLoaded

\* CallersWait of VersionTransfer: the circular wait of getFile and its
\* caller (accept before the reply) is never resolved for a client.
CallersWait == Version!CallersWait
=============================================================================
