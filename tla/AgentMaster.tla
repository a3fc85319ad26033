----------------------------- MODULE AgentMaster -----------------------------
(***************************************************************************)
(* Qt/Agent/agentmaster.cpp: the master forks one process per agent        *)
(* library found in AGENTCHILD_FORDER, watches the processes, restarts     *)
(* them by their policy, starts libraries that appear and replaces         *)
(* libraries the version server has a newer file for.                      *)
(*                                                                         *)
(* The three version numbers are one number, a library file is its parsed  *)
(* name and version, arguments are dropped, and the config file of a       *)
(* library is given by the constants Type, Delay and Configured.           *)
(*                                                                         *)
(* onRun of this commit ends after the first checkState; the service loop  *)
(* around checkState, checkNew and update is kept in a comment.            *)
(* ServiceLoop = FALSE is the former, TRUE drives the methods in the order *)
(* of the latter.                                                          *)
(*                                                                         *)
(* Undefined behaviour (pop_back of an empty vector, erase past the end)   *)
(* ends in the state pc = "undefined", from which nothing is promised.     *)
(***************************************************************************)
EXTENDS Vectors, FiniteSets

CONSTANTS
  Names,        \* p_name of the libraries
  Versions,     \* num1.num2.num3
  FirstVersion, \* the version of a library that is installed by hand
  Pids,         \* the process ids fork can return
  Type,         \* "type" of a library's config: 0 one-shot, 1 delayed, 2 at once
  Delay,        \* "time" of a library's config
  Configured,   \* the <<name, version>> that have a config file
  Offered,      \* the <<name, version>> the version server may come to have
  Logs,         \* possible contents of log.txt, each a sequence of [pid, name, ver]
  MaxTime,      \* bound of the clock
  ForkCanFail,  \* fork may return -1
  ServiceLoop   \* the loop of onRun is compiled in

ASSUME AgentAssumption ==
  /\ Versions \subseteq Nat /\ FirstVersion \in Versions
  /\ Type \in [Names -> 0 .. 2]
  /\ Delay \in [Names -> Nat]
  /\ Configured \subseteq Names \X Versions
  /\ Offered \subseteq Names \X Versions
  /\ Logs \subseteq Seq([pid : Pids, name : Names, ver : Versions])
  /\ MaxTime \in Nat
  /\ ServiceLoop \in BOOLEAN /\ ForkCanFail \in BOOLEAN
  /\ IsFiniteSet(Names) /\ IsFiniteSet(Versions)

Libs == Names \X Versions

\* struct process, without the pid for an element of listLibs.
Lib == [name : Names, ver : Versions, type : 0 .. 2, time : Nat, status : 0 .. 2]
Process == [pid : Pids, name : Names, ver : Versions, type : 0 .. 2,
            time : Nat, status : 0 .. 2, death : Nat]

\* A file of the library directory.  joined: its path is the concatenation of
\* several file names, of which scan parses the first.
File == [name : Names, ver : Versions, joined : BOOLEAN]
Plain(l) == [name |-> l[1], ver |-> l[2], joined |-> FALSE]

\* What a pid is: unused; an agent; an agent with SIGTERM pending; ended and
\* not waited for; the helper of update before, during and after the server
\* offers the file; a process that is not a child of this master.
PidStates == {"free", "run", "dying", "zombie", "call", "listen", "sent", "alien"}
Helping == {"call", "listen", "sent"}

Control == {"boot", "start", "state", "open", "idle", "new", "fork", "ping", "update",
            "fetch", "swap", "exit", "undefined"}
Ended == {"exit", "undefined"}

Incidents == {"popped", "burst", "stale", "joined", "cut", "restored", "reused",
              "merged"}

VARIABLES
  listLibs, listProcess,
  st,          \* what each pid is
  img,         \* the library a pid runs; the library a helper will remove
  log,         \* log.txt as an earlier master left it
  files,       \* AGENTCHILD_FORDER
  latest,      \* the newest version of each library on the version server
  sigchld,     \* SIGCHLD is pending for the master
  inHandler,   \* the master is inside handler, before wait(NULL)
  now,         \* time(0)
  pc, i,       \* control of the master and its loop index
  ret,         \* where checkState and checkNew return to
  libNew,      \* lib_new of checkNew
  helper,      \* the helper forked by update, if fork succeeded
  empfile,     \* empfile of update: the names appended so far
  incidents,   \* history: unusual events met so far
  started,     \* history: the libraries forked so far ...
  again,       \* ... and those forked more than once
  diedAt       \* history: when the last agent of a type-1 library ended

os == <<st, img, sigchld, inHandler>>
disk == <<log, files, latest>>
local == <<ret, libNew, helper, empfile>>
vars == <<listLibs, listProcess, os, disk, now, pc, i, local,
          incidents, started, again, diedAt>>

-----------------------------------------------------------------------------
(* Scanning the library directory.                                         *)

Orders(S) == {o \in [1 .. Cardinality(S) -> S] :
                \A x \in S : \E k \in DOMAIN o : o[k] = x}

ConfigOf(f) == [name |-> f.name, ver |-> f.ver, type |-> Type[f.name],
                time |-> Delay[f.name], status |-> 1]

\* readdir lists the directory in any order, and the first file without a
\* config ends the scan with what was read before it.
Readable == {f \in files : <<f.name, f.ver>> \in Configured}
ScanSets == IF Readable = files THEN {files} ELSE SUBSET Readable

\* scan: the files read, as a sequence of file records.
Scans == UNION {Orders(S) : S \in ScanSets}
ScanCut == Readable # files

LibsOf(s) == [k \in DOMAIN s |-> ConfigOf(s[k])]

\* check copies the type of a new library into its time.
NewLib(f) == [ConfigOf(f) EXCEPT !.time = Type[f.name]]
Fresh == {f \in files : \A k \in DOMAIN listLibs : listLibs[k].name # f.name}

\* check: the files whose name is not in listLibs.
Checks == UNION {Orders(S \cap Fresh) : S \in ScanSets}
NewLibsOf(s) == [k \in DOMAIN s |-> NewLib(s[k])]

\* Slip: the status is filled from the type.
ProcessOfMixed(l, p) ==
  [pid |-> p, name |-> l.name, ver |-> l.ver, type |-> l.type,
   time |-> l.time, status |-> l.type + 1, death |-> 0]

ProcessOf(l, p) == [pid |-> p, name |-> l.name, ver |-> l.ver, type |-> l.type,
                    time |-> l.time, status |-> l.status, death |-> 0]

-----------------------------------------------------------------------------
(* fork and the history of forks.                                          *)

\* fork returns p in the parent and the child goes on to create(l).
ForkAgent(p, n, v) ==
  /\ st[p] = "free"
  /\ st' = [st EXCEPT ![p] = "run"]
  /\ img' = [img EXCEPT ![p] = <<n, v>>]
  /\ started' = started \cup {<<n, v>>}
  /\ again' = again \cup (started \cap {<<n, v>>})
  /\ UNCHANGED <<sigchld, inHandler, diedAt>>

Note(S) == incidents' = incidents \cup S

\* A pid that a listed process, not the one at index n, had before.
Reuse(p, n) == IF \E k \in DOMAIN listProcess \ {n} : listProcess[k].pid = p
                 THEN {"reused"} ELSE {}

-----------------------------------------------------------------------------

NoLib == << >>

\* Only agents of an earlier master, named in the log, may exist already.
Init ==
  /\ listLibs = << >>
  /\ listProcess = << >>
  /\ log \in Logs
  /\ \E A \in SUBSET DOMAIN log :
       LET old == {log[k].pid : k \in A} IN
       /\ st = [p \in Pids |-> IF p \in old THEN "alien" ELSE "free"]
       /\ img = [p \in Pids |-> IF p \in old
                   THEN LET k == CHOOSE k \in A : log[k].pid = p
                        IN <<log[k].name, log[k].ver>>
                   ELSE NoLib]
  /\ \E S \in SUBSET Names : files = {Plain(<<n, FirstVersion>>) : n \in S}
  /\ latest = [n \in Names |-> FirstVersion]
  /\ sigchld = FALSE /\ inHandler = FALSE
  /\ now = 0
  /\ pc = "boot" /\ i = 1 /\ ret = "idle"
  /\ libNew = << >> /\ helper = {} /\ empfile = << >>
  /\ incidents = {} /\ started = {} /\ again = {}
  /\ diedAt = [n \in Names |-> 0]

At(label) == pc = label /\ ~inHandler

\* readLog sets five fields of each process; the others keep whatever the
\* stack held.
Garbage == [type : 0 .. 2, time : {0}, status : 0 .. 2, death : {0}]

readLog(g) ==
  [k \in DOMAIN log |->
     [pid |-> log[k].pid, name |-> log[k].name, ver |-> log[k].ver,
      type |-> g[k].type, time |-> g[k].time,
      status |-> g[k].status, death |-> g[k].death]]

\* Start of onRun.
Boot ==
  /\ At("boot")
  /\ \E s \in Scans :
       /\ \E g \in [DOMAIN log -> Garbage] :
            listProcess' = readLog(g)
       /\ listLibs' = LibsOf(s)
       /\ pc' = IF log = << >> THEN "start" ELSE "state"
       /\ Note((IF log = << >> THEN {} ELSE {"restored"})
               \cup (IF ScanCut THEN {"cut"} ELSE {}))
  /\ i' = 1
  /\ UNCHANGED <<os, disk, now, local, started, again, diedAt>>

\* Slip: the process is inserted at the front of the list.
StartLibInFront ==
  /\ At("start")
  /\ i <= Len(listLibs)
  /\ \E p \in Pids :
       /\ ForkAgent(p, listLibs[i].name, listLibs[i].ver)
       /\ listProcess' = <<ProcessOf(listLibs[i], p)>> \o listProcess
       /\ Note(Reuse(p, 0))
  /\ i' = i + 1
  /\ UNCHANGED <<listLibs, disk, now, pc, local>>

\* startAll: one library.
StartLib ==
  /\ At("start")
  /\ i <= Len(listLibs)
  /\ \E p \in Pids :
       /\ ForkAgent(p, listLibs[i].name, listLibs[i].ver)
       /\ listProcess' = Append(listProcess, ProcessOf(listLibs[i], p))
       /\ Note(Reuse(p, 0))
  /\ i' = i + 1
  /\ UNCHANGED <<listLibs, disk, now, pc, local>>

StartDone ==
  /\ At("start")
  /\ i > Len(listLibs)
  /\ pc' = "state"
  /\ i' = 1
  /\ UNCHANGED <<listLibs, listProcess, os, disk, now, local,
                 incidents, started, again, diedAt>>

\* fork fails in startAll or checkNew: the last process is popped and the
\* same library is tried again.
ForkFails ==
  /\ ForkCanFail /\ ~inHandler
  /\ pc = "fork" \/ (pc = "start" /\ i <= Len(listLibs))
  /\ IF listProcess = << >>
       THEN pc' = "undefined" /\ UNCHANGED <<listProcess, incidents>>
       ELSE /\ listProcess' = PopBack(listProcess)
            /\ Note({"popped"})
            /\ UNCHANGED pc
  /\ UNCHANGED <<listLibs, os, disk, now, i, local, started, again, diedAt>>

-----------------------------------------------------------------------------
(* checkState: one process.  kill(pid, 0) fails only for an unused pid; it  *)
(* succeeds for a zombie.                                                  *)

\* Slip: EPERM, for a process of somebody else, counts as dead.
GoneOrForeign(e) == st[e.pid] \in {"free", "alien"}

Gone(e) == st[e.pid] = "free"

\* Slip: the comparison is not strict.
DelayReached(e) == now >= e.death + e.time

DelayOver(e) == now > e.death + e.time

KeepProcess ==
  /\ At("state")
  /\ i <= Len(listProcess)
  /\ LET e == listProcess[i] IN
       \/ ~Gone(e)
       \/ e.type = 0 /\ e.status # 1
       \/ e.type = 1 /\ e.status = 0 /\ ~DelayOver(e)
  /\ i' = i + 1
  /\ UNCHANGED <<listLibs, listProcess, os, disk, now, pc, local,
                 incidents, started, again, diedAt>>

MarkDead ==
  /\ At("state")
  /\ i <= Len(listProcess)
  /\ LET e == listProcess[i] IN
       /\ Gone(e) /\ e.type \in {0, 1} /\ e.status = 1
       /\ listProcess' = [listProcess EXCEPT ![i] =
            [e EXCEPT !.status = 0, !.death = IF e.type = 1 THEN now ELSE @]]
  /\ i' = i + 1
  /\ UNCHANGED <<listLibs, os, disk, now, pc, local,
                 incidents, started, again, diedAt>>

\* What the parent does after a successful fork for process e at index i.
Restart(e) ==
  /\ \E p \in Pids :
       /\ ForkAgent(p, e.name, e.ver)
       /\ listProcess' = [listProcess EXCEPT ![i] =
            [e EXCEPT !.pid = p,
                      !.status = IF e.type = 1 /\ @ = 0 THEN 1 ELSE @]]
       /\ Note(Reuse(p, i))
  /\ i' = i + 1
  /\ UNCHANGED <<listLibs, disk, now, pc, local>>

\* Slip: the continue of case 0 is missing for a process already marked.
RestartOneShot ==
  /\ At("state")
  /\ i <= Len(listProcess)
  /\ LET e == listProcess[i] IN
       /\ Gone(e)
       /\ \/ e.type = 2
          \/ e.type = 0 /\ e.status = 0
          \/ e.type = 1 /\ e.status = 0 /\ DelayOver(e)
          \/ e.type = 1 /\ e.status = 2
       /\ Restart(e)

\* A failed fork is retried until it succeeds.
RestartProcess ==
  /\ At("state")
  /\ i <= Len(listProcess)
  /\ LET e == listProcess[i] IN
       /\ Gone(e)
       /\ \/ e.type = 2
          \/ e.type = 1 /\ e.status = 0 /\ DelayOver(e)
          \/ e.type = 1 /\ e.status = 2
       /\ Restart(e)

\* The first checkState is followed by the end of onRun or by
\* transport->open() and the loop; in the loop checkNew comes next.
StateDone ==
  /\ At("state")
  /\ i > Len(listProcess)
  /\ pc' = IF ret = "new" THEN "new" ELSE IF ServiceLoop THEN "open" ELSE "exit"
  /\ ret' = "ping"
  /\ UNCHANGED <<listLibs, listProcess, os, disk, now, i, libNew, helper, empfile,
                 incidents, started, again, diedAt>>

Open ==
  /\ At("open")
  /\ pc' = "idle"
  /\ UNCHANGED <<listLibs, listProcess, os, disk, now, i, local,
                 incidents, started, again, diedAt>>

\* sleep(5) of the loop ends, or is cut short by SIGCHLD.
WakeUp ==
  /\ At("idle")
  /\ pc' = "state" /\ i' = 1 /\ ret' = "new"
  /\ UNCHANGED <<listLibs, listProcess, os, disk, now, libNew, helper, empfile,
                 incidents, started, again, diedAt>>

-----------------------------------------------------------------------------
(* checkNew.                                                               *)

\* check: the libraries of unknown name, all of which enter listLibs.
CheckNew ==
  /\ At("new")
  /\ \E s \in Checks :
       /\ libNew' = NewLibsOf(s)
       /\ listLibs' = listLibs \o NewLibsOf(s)
       /\ pc' = IF s = << >> THEN ret ELSE "fork"
       /\ Note((IF Len(s) > 1 THEN {"burst"} ELSE {})
               \cup (IF ScanCut THEN {"cut"} ELSE {})
               \cup (IF \E f, g \in files : f # g /\ f.name = g.name
                       THEN {"stale"} ELSE {}))
  /\ UNCHANGED <<listProcess, os, disk, now, i, ret, helper, empfile,
                 started, again, diedAt>>

\* A joined name holds more than three dots: scan writes past v[3].
ScanOverflows ==
  /\ At("new")
  /\ \E f \in files : f.joined
  /\ pc' = "undefined"
  /\ UNCHANGED <<listLibs, listProcess, os, disk, now, i, local,
                 incidents, started, again, diedAt>>

\* checkNew returns after the first library it has started.
StartNew ==
  /\ At("fork")
  /\ \E p \in Pids :
       /\ ForkAgent(p, Head(libNew).name, Head(libNew).ver)
       /\ listProcess' = Append(listProcess, ProcessOf(Head(libNew), p))
       /\ Note(Reuse(p, 0))
  /\ libNew' = << >>
  /\ pc' = ret
  /\ UNCHANGED <<listLibs, disk, now, i, ret, helper, empfile>>

-----------------------------------------------------------------------------
(* ping and update.                                                        *)

Ping ==
  /\ At("ping")
  /\ pc' = "update" /\ i' = 1
  /\ UNCHANGED <<listLibs, listProcess, os, disk, now, local,
                 incidents, started, again, diedAt>>

\* A TException of open, ping or check leaves the loop and ends onRun.
RpcFails ==
  /\ ~inHandler
  /\ pc \in {"open", "ping"} \/ (pc = "update" /\ i <= Len(listProcess))
  /\ pc' = "exit"
  /\ UNCHANGED <<listLibs, listProcess, os, disk, now, i, local,
                 incidents, started, again, diedAt>>

UpToDate ==
  /\ At("update")
  /\ i <= Len(listProcess)
  /\ latest[listProcess[i].name] <= listProcess[i].ver
  /\ i' = i + 1
  /\ UNCHANGED <<listLibs, listProcess, os, disk, now, pc, local,
                 incidents, started, again, diedAt>>

\* A newer file: fork the helper and go on, also when fork fails.  empfile
\* is set once per update, before the loop, and every new file is appended.
Update ==
  /\ At("update")
  /\ i <= Len(listProcess)
  /\ LET e == listProcess[i] IN
       /\ latest[e.name] > e.ver
       /\ empfile' = Append(empfile, <<e.name, latest[e.name]>>)
       /\ \/ \E p \in Pids :
               /\ st[p] = "free"
               /\ st' = [st EXCEPT ![p] = "call"]
               /\ img' = [img EXCEPT ![p] = <<e.name, e.ver>>]
               /\ helper' = {p}
               /\ Note(Reuse(p, 0)
                       \cup IF empfile = << >> THEN {} ELSE {"joined"})
          \/ ForkCanFail /\ helper' = {} /\ UNCHANGED <<st, img, incidents>>
  /\ pc' = "fetch"
  /\ UNCHANGED <<listLibs, listProcess, sigchld, inHandler, disk, now, i, ret,
                 libNew, started, again, diedAt>>

UpdateDone ==
  /\ At("update")
  /\ i > Len(listProcess)
  /\ pc' = "idle"
  /\ helper' = {} /\ empfile' = << >>
  /\ UNCHANGED <<listLibs, listProcess, os, disk, now, i, ret, libNew,
                 incidents, started, again, diedAt>>

\* After sleep(1): connect to port 9000 and copy the stream into empfile.
Fetch ==
  /\ At("fetch")
  /\ \E p \in helper :
       /\ st[p] = "listen"
       /\ st' = [st EXCEPT ![p] = "sent"]
  /\ files' = files \cup {[name |-> empfile[1][1], ver |-> empfile[1][2],
                           joined |-> Len(empfile) > 1]}
  /\ pc' = "swap"
  /\ UNCHANGED <<listLibs, listProcess, img, sigchld, inHandler, log, latest, now, i,
                 local, incidents, started, again, diedAt>>

\* The server does not listen: the exception of connect is not a TException,
\* leaves onRun and ends the master.
FetchRefused ==
  /\ At("fetch")
  /\ \A p \in helper : st[p] # "listen"
  /\ pc' = "exit"
  /\ UNCHANGED <<listLibs, listProcess, os, disk, now, i, local,
                 incidents, started, again, diedAt>>

\* What SIGTERM does to the process that has the pid now.
Terminated(p) ==
  CASE st[p] \in {"run"} \cup Helping -> "dying"
    [] st[p] = "alien" -> "free"
    [] OTHER -> st[p]

\* The end of one replacement; p is the pid that gets SIGTERM.
Replace(p, newProcess, newLibs) ==
  /\ st' = [st EXCEPT ![p] = Terminated(p)]
  /\ listProcess' = newProcess
  /\ IF i <= Len(listLibs)
       THEN listLibs' = newLibs /\ pc' = "new"
       ELSE UNCHANGED listLibs /\ pc' = "undefined"
  /\ i' = i + 1
  /\ ret' = "update"
  /\ UNCHANGED <<img, sigchld, inHandler, disk, now, libNew, helper, empfile,
                 incidents, started, again, diedAt>>

\* Slip: the process is erased before its pid is used for kill.
SwapEraseFirst ==
  /\ At("swap")
  /\ LET rest == RemoveIndex(listProcess, i) IN
       Replace(IF i <= Len(rest) THEN rest[i].pid ELSE listProcess[i].pid,
               rest, RemoveIndex(listLibs, i))

\* Slip: the old process is not killed.
SwapWithoutKill ==
  /\ At("swap")
  /\ listProcess' = RemoveIndex(listProcess, i)
  /\ listLibs' = IF i <= Len(listLibs) THEN RemoveIndex(listLibs, i) ELSE listLibs
  /\ pc' = "new" /\ i' = i + 1 /\ ret' = "update"
  /\ UNCHANGED <<os, disk, now, libNew, helper, empfile,
                 incidents, started, again, diedAt>>

\* Slip: the library stays in listLibs.
SwapKeepsLib ==
  At("swap")
    /\ Replace(listProcess[i].pid, RemoveIndex(listProcess, i), listLibs)

\* Slip: the process stays in listProcess.
SwapKeepsProcess ==
  At("swap")
    /\ Replace(listProcess[i].pid, listProcess, RemoveIndex(listLibs, i))

\* After the second sleep(1): kill the old process, erase index i of both
\* lists, and call checkNew; the loop goes on with index i + 1.
Swap ==
  At("swap") /\ Replace(listProcess[i].pid, RemoveIndex(listProcess, i),
                        RemoveIndex(listLibs, i))

Master ==
  \/ Boot \/ StartLib \/ StartDone \/ ForkFails
  \/ KeepProcess \/ MarkDead \/ RestartProcess \/ StateDone
  \/ Open \/ WakeUp \/ CheckNew \/ ScanOverflows \/ StartNew
  \/ Ping \/ RpcFails \/ UpToDate \/ Update \/ UpdateDone
  \/ Fetch \/ FetchRefused \/ Swap

-----------------------------------------------------------------------------
(* SIGCHLD.                                                                *)

\* The signal is delivered: handler starts, with SIGCHLD blocked.
Deliver ==
  /\ sigchld /\ ~inHandler
  /\ sigchld' = FALSE /\ inHandler' = TRUE
  /\ UNCHANGED <<listLibs, listProcess, st, img, disk, now, pc, i, local,
                 incidents, started, again, diedAt>>

\* Slip: the handler does not wait.
ReapNothing ==
  /\ inHandler
  /\ inHandler' = FALSE
  /\ UNCHANGED <<listLibs, listProcess, st, img, sigchld, disk, now, pc, i, local,
                 incidents, started, again, diedAt>>

\* Slip: the handler waits for every zombie and leaves a later signal pending.
ReapEvery ==
  /\ inHandler
  /\ \E p \in Pids : st[p] = "zombie"
  /\ st' = [p \in Pids |-> IF st[p] = "zombie" THEN "free" ELSE st[p]]
  /\ img' = [p \in Pids |-> IF st[p] = "zombie" THEN NoLib ELSE img[p]]
  /\ inHandler' = FALSE
  /\ UNCHANGED <<listLibs, listProcess, sigchld, disk, now, pc, i, local,
                 incidents, started, again, diedAt>>

\* One wait(NULL) per delivered signal reaps one child; with children but no
\* zombie it would block.
Reap ==
  /\ inHandler
  /\ \E p \in Pids :
       /\ st[p] = "zombie"
       /\ st' = [st EXCEPT ![p] = "free"]
       /\ img' = [img EXCEPT ![p] = NoLib]
  /\ inHandler' = FALSE
  /\ UNCHANGED <<listLibs, listProcess, sigchld, disk, now, pc, i, local,
                 incidents, started, again, diedAt>>

-----------------------------------------------------------------------------
(* The children, the version server and the rest of the world.             *)

\* A child ends; its SIGCHLD merges with one that is already pending.
ChildEnds(p) ==
  /\ st' = [st EXCEPT ![p] = "zombie"]
  /\ sigchld' = TRUE
  /\ Note(IF sigchld THEN {"merged"} ELSE {})
  /\ UNCHANGED <<listLibs, listProcess, img, inHandler, log, latest, now, pc, i, local,
                 started, again>>

\* create returns, its library cannot be loaded, or the agent crashes or
\* dies of SIGTERM.
AgentExit(p) ==
  /\ st[p] \in {"run", "dying"}
  /\ ChildEnds(p)
  /\ diedAt' = IF st[p] = "run" /\ Type[img[p][1]] = 1
                 THEN [diedAt EXCEPT ![img[p][1]] = now] ELSE diedAt
  /\ UNCHANGED files

\* getNewVersion reaches the server, which listens on port 9000 ...
HelperCalls(p) ==
  /\ st[p] = "call"
  /\ st' = [st EXCEPT ![p] = "listen"]
  /\ UNCHANGED <<listLibs, listProcess, img, sigchld, inHandler, disk, now, pc, i,
                 local, incidents, started, again, diedAt>>

\* ... or the call fails, and the helper ends.
HelperFails(p) ==
  /\ st[p] = "call"
  /\ ChildEnds(p)
  /\ UNCHANGED <<files, diedAt>>

\* The file was sent: the helper removes the old library and ends.
HelperRemoves(p) ==
  /\ st[p] = "sent"
  /\ files' = files \ {Plain(img[p])}
  /\ ChildEnds(p)
  /\ UNCHANGED diedAt

AlienExit(p) ==
  /\ st[p] = "alien"
  /\ st' = [st EXCEPT ![p] = "free"]
  /\ UNCHANGED <<listLibs, listProcess, img, sigchld, inHandler, disk, now, pc, i,
                 local, incidents, started, again, diedAt>>

Publish(n, v) ==
  /\ <<n, v>> \in Offered
  /\ v > latest[n]
  /\ latest' = [latest EXCEPT ![n] = v]
  /\ UNCHANGED <<listLibs, listProcess, os, log, files, now, pc, i, local,
                 incidents, started, again, diedAt>>

Install(n) ==
  /\ \A f \in files : f.name # n
  /\ files' = files \cup {Plain(<<n, FirstVersion>>)}
  /\ UNCHANGED <<listLibs, listProcess, os, log, latest, now, pc, i, local,
                 incidents, started, again, diedAt>>

Tick ==
  /\ now < MaxTime
  /\ now' = now + 1
  /\ UNCHANGED <<listLibs, listProcess, os, disk, pc, i, local,
                 incidents, started, again, diedAt>>

Children(p) ==
  AgentExit(p) \/ HelperCalls(p) \/ HelperFails(p) \/ HelperRemoves(p)

World ==
  \/ \E p \in Pids : AlienExit(p)
  \/ \E n \in Names, v \in Versions : Publish(n, v)
  \/ \E n \in Names : Install(n)
  \/ Tick

\* Once the master has ended nothing is supervised any more.
Unsupervised == pc \in Ended /\ UNCHANGED vars

Next ==
  \/ /\ pc \notin Ended
     /\ Master \/ Deliver \/ Reap \/ (\E p \in Pids : Children(p)) \/ World
  \/ Unsupervised

\* The kernel schedules the master and delivers its signals.
Fairness ==
  /\ WF_vars(pc \notin Ended /\ Master)
  /\ WF_vars(pc \notin Ended /\ (Deliver \/ Reap))

Spec == Init /\ [][Next]_vars
FairSpec == Spec /\ Fairness

-----------------------------------------------------------------------------

TypeOK ==
  /\ listLibs \in Seq(Lib)
  /\ listProcess \in Seq(Process)
  /\ st \in [Pids -> PidStates]
  /\ img \in [Pids -> Libs \cup {NoLib}]
  /\ log \in Logs
  /\ files \subseteq File /\ IsFiniteSet(files)
  /\ latest \in [Names -> Versions]
  /\ sigchld \in BOOLEAN /\ inHandler \in BOOLEAN
  /\ now \in 0 .. MaxTime
  /\ pc \in Control /\ i \in Nat \ {0} /\ ret \in {"idle", "new", "ping", "update"}
  /\ libNew \in Seq(Lib)
  /\ helper \subseteq Pids
  /\ empfile \in Seq(Libs)
  /\ incidents \subseteq Incidents
  /\ started \subseteq Libs /\ again \subseteq Libs
  /\ diedAt \in [Names -> 0 .. MaxTime]

\* What the control point of the master tells about its locals; with TypeOK it
\* is inductive.
ControlInv ==
  /\ pc = "boot" => \A p \in Pids : st[p] # "run"
  /\ pc = "fork" => libNew # << >>
  /\ pc \in {"fetch", "swap"} => i <= Len(listProcess) /\ empfile # << >>

\* The inductive strengthening of HandlerNeverBlocks: a pending signal and a
\* running handler each have a zombie of their own.
HandlerInv ==
  /\ sigchld \/ inHandler => \E p \in Pids : st[p] = "zombie"
  /\ sigchld /\ inHandler =>
       \E p, q \in Pids : p # q /\ st[p] = "zombie" /\ st[q] = "zombie"

\* The wait(NULL) of the SIGCHLD handler never blocks the master: whenever
\* the handler runs there is a zombie for it, although exits are merged into
\* one pending signal.
HandlerNeverBlocks == inHandler => \E p \in Pids : st[p] = "zombie"

\* As long as no two exits shared one SIGCHLD, every zombie is announced by a
\* pending or running handler, so none stays: a zombie that stays is taken
\* for a live agent by checkState and never restarted.
B2N(b) == IF b THEN 1 ELSE 0
ZombiesAreAnnounced ==
  "merged" \notin incidents =>
    Cardinality({p \in Pids : st[p] = "zombie"}) = B2N(sigchld) + B2N(inHandler)

\* As long as no fork has failed, every running agent is in listProcess, so
\* checkState watches it and update can terminate it.
RunningAgentsAreListed ==
  "popped" \notin incidents =>
    \A p \in Pids : st[p] = "run" =>
      \E k \in DOMAIN listProcess : listProcess[k].pid = p

\* No fork failed, no two libraries appeared between two scans, no scan met two
\* files of one library, no update() replaced two libraries, and the master
\* was not started from a log.
Regular == incidents \cap {"popped", "burst", "stale", "joined", "restored"} = {}

\* A one-shot (type 0) library is never run twice, neither by checkState nor
\* through checkNew and update, in a regular history.
OneShotRunsOnce == Regular => \A l \in again : Type[l[1]] # 0

\* update erases the same index of both lists: they name the same libraries
\* in the same order, in a regular history.
ListsAligned ==
  /\ Regular
  /\ pc \in {"open", "idle", "ping", "update", "exit"}
  => /\ Len(listProcess) = Len(listLibs)
     /\ \A k \in DOMAIN listLibs : listLibs[k].name = listProcess[k].name

\* update removes old files and replaces their entries in step: between two
\* rounds of the loop the library of every listed process is on disk, so that
\* checkState can run it again, in a regular history.
ListedCanBeRestarted ==
  /\ Regular
  /\ pc \in {"idle", "open"}
  => \A k \in DOMAIN listProcess :
       Plain(<<listProcess[k].name, listProcess[k].ver>>) \in files

\* Both lists are usable as update and checkState use them: they belong
\* together, and an entry stands for a library that may and can run again.
ListsUsable == ListsAligned /\ ListedCanBeRestarted /\ OneShotRunsOnce

\* A type-1 agent is restarted by checkState only when more than the delay
\* of its entry has passed since the agent really ended.
RestartsAfterDelay ==
  [][\A k \in DOMAIN listProcess :
       (RestartProcess /\ k = i /\ listProcess[k].type = 1
          /\ "restored" \notin incidents)
       => now > diedAt[listProcess[k].name] + listProcess[k].time]_vars

\* update terminates only the agent it replaces: the pid of the entry has
\* not gone to another library, unless a pid was reused.
TerminatesOwnAgent ==
  [][\A p \in Pids :
       (Swap /\ st[p] # "dying" /\ st'[p] = "dying"
          /\ incidents \cap {"reused", "restored"} = {})
       => img[p] = <<listProcess[i].name, listProcess[i].ver>>]_vars

\* A listed type-2 agent that has ended runs again, unless its SIGCHLD was
\* merged with another one, its pid went to another process, or the master
\* ended.
Running(n) == \E p \in Pids : st[p] = "run" /\ img[p][1] = n
Down(n) == \E k \in DOMAIN listProcess :
             /\ listProcess[k].name = n /\ listProcess[k].type = 2
             /\ st[listProcess[k].pid] \in {"free", "zombie"}
EndedAgentsRestart ==
  \A n \in Names :
    Down(n) ~> \/ Running(n)
               \/ incidents \cap {"merged", "reused"} # {}
               \/ pc \in Ended

\* A master started from its log does not start a second copy of an agent
\* that survived the earlier master.
SurvivorsAreNotDuplicated ==
  \A p, q \in Pids :
    st[p] = "alien" /\ st[q] = "run" => img[p][1] # img[q][1]

\* Every process of an agent is accounted for: what has ended is announced,
\* and what survived an earlier master has no second copy.
AgentsAccountedFor == ZombiesAreAnnounced /\ SurvivorsAreNotDuplicated
=============================================================================
