---------------------------- MODULE SocketMonitor ----------------------------
(***************************************************************************)
(* Qt/ZMonitor/SocketMornitoring: readSocket prints the sockets of         *)
(* /proc/net/tcp and udp with the process that has them.  The processes    *)
(* are found once, by prg_cache_load, and kept in a hash table by inode.   *)
(* Addresses, states and bandwidth (the list of which stays empty: the     *)
(* calls of addBandwidth are commented out) are left out of a line.        *)
(***************************************************************************)
EXTENDS Integers, Sequences, FiniteSets, FiniteSetsExt

CONSTANTS
  Procs,          \* process numbers
  Unreadable,     \* those whose fd directory gives EACCES
  Tcp, Udp,       \* the inodes a socket of that kind may have
  PRG_HASH_SIZE,
  MaxCalls,       \* bound: calls of readSocket
  MaxChanges      \* bound: sockets opened, passed on and closed

VARIABLES
  fds,        \* the processes that have each inode open, none if not in use
  changes,    \* how many of them changed so far
  prg_cache_loaded, prg_hash,
  calls,      \* calls of readSocket so far, and those still to be made
  pc,         \* "idle", "load", "fd", "file", "lines", or ended by undefined behaviour
  at,         \* the process and inode reached by the load, or by the table
  count,      \* the static count: a first line has been read
  line,       \* the line printed last
  stable      \* history: inodes that kept their processes since the load began
vars == <<fds, changes, prg_cache_loaded, prg_hash, calls, pc, at, count, line, stable>>
cache == <<prg_cache_loaded, prg_hash>>

Inodes == Tcp \cup Udp

\* Assumed of the constants: process numbers and inodes start at 1.
SocketAssumption ==
  Procs \subseteq Nat \ {0} /\ Inodes \subseteq Nat \ {0} /\ PRG_HASH_SIZE \in Nat \ {0}
Nobody == 0           \* "-"
NoLine == [inode |-> 0, name |-> Nobody]
PRG_HASHIT(inode) == inode % PRG_HASH_SIZE
OfKind(kind) == IF kind = 1 THEN Tcp ELSE Udp

Init ==
  /\ fds \in [Inodes -> {{}} \cup {{p} : p \in Procs}] /\ changes = 0
  /\ prg_cache_loaded = 0 /\ prg_hash = [h \in 0 .. PRG_HASH_SIZE - 1 |-> << >>]
  /\ calls = [made |-> 0, todo |-> << >>] /\ pc = "idle" /\ at = [proc |-> 0, inode |-> 0]
  /\ count = 0 /\ line = NoLine /\ stable = Inodes

\* A process opens or closes a socket, or passes it on (fork).
Change(i, p) ==
  /\ changes < MaxChanges
  /\ fds' = [fds EXCEPT ![i] = IF p \in @ THEN @ \ {p} ELSE @ \cup {p}]
  /\ changes' = changes + 1
  /\ stable' = stable \ (IF prg_cache_loaded = 0 THEN {} ELSE {i})
  /\ UNCHANGED <<cache, calls, pc, at, count, line>>

-----------------------------------------------------------------------------
(* prg_cache_load                                                          *)

\* readSocket, up to the check of prg_cache_loaded; kind 0 reads both tables
\* and then goes on with the stream that is closed.
readSocket(kind) ==
  /\ pc = "idle" /\ calls.todo = << >> /\ calls.made < MaxCalls
  /\ calls' = [made |-> calls.made + 1, todo |-> IF kind = 0 THEN <<1, 2, 0>> ELSE <<kind>>]
  /\ pc' = IF prg_cache_loaded = 0 THEN "load" ELSE "file"
  /\ prg_cache_loaded' = IF prg_cache_loaded = 0 THEN 1 ELSE prg_cache_loaded
  /\ at' = [proc |-> 0, inode |-> 0]
  /\ UNCHANGED <<fds, changes, prg_hash, count, line, stable>>

\* The next entry of /proc: its fd directory is opened, unless it may not be.
NextProc ==
  /\ pc = "load"
  /\ LET later == {p \in Procs : p > at.proc} IN
       IF later = {} THEN pc' = "file" /\ at' = [proc |-> 0, inode |-> 0]
       ELSE /\ at' = [proc |-> Min(later), inode |-> 0]
            /\ pc' = IF Min(later) \in Unreadable THEN "load" ELSE "fd"
  /\ UNCHANGED <<fds, changes, cache, calls, count, line, stable>>

Entry(inode, name) == [inode |-> inode, name |-> name]

\* The entry is appended to its chain, unless the inode is in it.
prg_cache_add(inode, name) ==
  prg_hash' = IF \E k \in DOMAIN prg_hash[PRG_HASHIT(inode)] : prg_hash[PRG_HASHIT(inode)][k].inode = inode
              THEN prg_hash
              ELSE [prg_hash EXCEPT ![PRG_HASHIT(inode)] = Append(@, Entry(inode, name))]

\* The next descriptor that is a socket; without one the directory is closed.
NextFd ==
  /\ pc = "fd"
  /\ LET later == {i \in Inodes : i > at.inode /\ at.proc \in fds[i]} IN
       IF later = {} THEN pc' = "load" /\ UNCHANGED <<at, cache>>
       ELSE /\ prg_cache_add(Min(later), at.proc) /\ prg_cache_loaded' = 2
            /\ at' = [at EXCEPT !.inode = Min(later)] /\ UNCHANGED pc
  /\ UNCHANGED <<fds, changes, calls, count, line, stable>>

-----------------------------------------------------------------------------
(* The table.                                                              *)

\* Slip: the first entry of the chain is taken.
prg_cache_get_first(inode) ==
  IF prg_hash[PRG_HASHIT(inode)] = << >> THEN Nobody ELSE prg_hash[PRG_HASHIT(inode)][1].name

prg_cache_get(inode) ==
  LET chain == prg_hash[PRG_HASHIT(inode)]
      found == {k \in DOMAIN chain : chain[k].inode = inode}
  IN  IF found = {} THEN Nobody ELSE chain[Min(found)].name

\* The first line of a table is its header: count skips the one of the first
\* table only, and any later one is taken for a socket, with variables that
\* sscanf did not set: some process is printed, or tcp_state[state] is read
\* out of bounds.
ReadHeader ==
  /\ pc = "file" /\ calls.todo # << >> /\ Head(calls.todo) # 0
  /\ IF count = 0 THEN count' = 1 /\ pc' = "lines" /\ UNCHANGED line
     ELSE /\ \E n \in {prg_cache_get(i) : i \in Inodes} \cup {Nobody} : line' = [inode |-> 0, name |-> n]
          /\ pc' \in {"lines", "crashed"}
          /\ UNCHANGED count
  /\ at' = [proc |-> 0, inode |-> 0]
  /\ UNCHANGED <<fds, changes, cache, calls, stable>>

\* The line of a socket, and the end of the table: fclose.
ReadLine ==
  /\ pc = "lines"
  /\ LET later == {i \in OfKind(Head(calls.todo)) : i > at.inode /\ fds[i] # {}} IN
       IF later = {}
       THEN /\ calls' = [calls EXCEPT !.todo = Tail(@)]
            /\ pc' = IF Tail(calls.todo) = << >> THEN "idle" ELSE "file"
            /\ UNCHANGED <<at, line>>
       ELSE /\ line' = [inode |-> Min(later), name |-> prg_cache_get(Min(later))]
            /\ at' = [at EXCEPT !.inode = Min(later)]
            /\ UNCHANGED <<calls, pc>>
  /\ UNCHANGED <<fds, changes, cache, count, stable>>

\* After case 0 the loop reads procinfo, which is closed: a crash, a loop
\* that never meets the end, or a return.
ReadClosed ==
  /\ pc = "file" /\ Head(calls.todo) = 0
  /\ pc' \in {"crashed", "spins", "idle"}
  /\ calls' = [calls EXCEPT !.todo = << >>]
  /\ UNCHANGED <<fds, changes, cache, at, count, line, stable>>

Next ==
  \/ \E i \in Inodes, p \in Procs : Change(i, p)
  \/ \E kind \in 0 .. 2 : readSocket(kind)
  \/ NextProc \/ NextFd \/ ReadHeader \/ ReadLine \/ ReadClosed
Spec == Init /\ [][Next]_vars

-----------------------------------------------------------------------------
(* Properties.                                                             *)

Readable(i) == fds[i] \ Unreadable

\* A socket that kept its processes since the table was loaded is shown with
\* the first of them that may be read, however many sockets share its chain
\* and whatever changed around it; an unchanged one that no readable process
\* has is shown without a process.
OwnersAsLoaded ==
  line.inode \in stable =>
    line.name = IF Readable(line.inode) = {} THEN Nobody ELSE Min(Readable(line.inode))
=============================================================================
