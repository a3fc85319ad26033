------------------------- MODULE AgentMaster_proofs -------------------------
(***************************************************************************)
(* Proofs about Qt/Agent/agentmaster.cpp, for any set of libraries,        *)
(* versions and pids, with and without the service loop.                   *)
(***************************************************************************)
EXTENDS AgentMaster, Vectors_proofs, FiniteSetTheorems

-----------------------------------------------------------------------------
(* Scanning the library directory.                                         *)

\* What scan and check read from a set of files of the directory are
\* sequences of libraries.
LEMMA ScanType ==
  ASSUME AgentAssumption, NEW S \in SUBSET File, IsFiniteSet(S), NEW o \in Orders(S)
  PROVE  LibsOf(o) \in Seq(Lib) /\ NewLibsOf(o) \in Seq(Lib) /\ Len(NewLibsOf(o)) = Len(o)
<1> DEFINE n == Cardinality(S)
<1>1. n \in Nat
  BY FS_CardinalityType
<1>2. o \in [1 .. n -> S] /\ DOMAIN o = 1 .. n
  BY DEF Orders
<1>3. \A k \in 1 .. n : ConfigOf(o[k]) \in Lib /\ NewLib(o[k]) \in Lib
  <2> SUFFICES ASSUME NEW k \in 1 .. n
               PROVE  ConfigOf(o[k]) \in Lib /\ NewLib(o[k]) \in Lib
    OBVIOUS
  <2>1. o[k] \in File
    BY <1>2
  <2>2. o[k].name \in Names /\ o[k].ver \in Versions
    BY <2>1 DEF File
  <2>3. Type[o[k].name] \in 0 .. 2 /\ Delay[o[k].name] \in Nat
    BY <2>2 DEF AgentAssumption
  <2> QED
    BY <2>2, <2>3 DEF ConfigOf, NewLib, Lib
<1>4. LibsOf(o) \in [1 .. n -> Lib] /\ NewLibsOf(o) \in [1 .. n -> Lib]
  BY <1>2, <1>3 DEF LibsOf, NewLibsOf
<1>5. o \in Seq(S) /\ Len(o) = n
  BY <1>1, <1>2, FunctionIsSeq
<1> QED
  BY <1>1, <1>4, <1>5, FunctionIsSeq

-----------------------------------------------------------------------------
(* Type correctness.                                                       *)

\* The initial states of the master are typed.
LEMMA InitTypeOK == Init => TypeOK /\ ControlInv
<1> SUFFICES ASSUME Init PROVE TypeOK /\ ControlInv
  OBVIOUS
<1> USE AgentAssumption
<1>1. PICK S \in SUBSET Names : files = {Plain(<<n, FirstVersion>>) : n \in S}
  BY DEF Init
<1>2. IsFiniteSet(files)
  <2>1. IsFiniteSet(S)
    BY FS_Subset DEF AgentAssumption
  <2>2. QED
    <3> DEFINE f == [n \in S |-> Plain(<<n, FirstVersion>>)]
    <3>1. f \in Surjection(S, files)
      BY <1>1 DEF Surjection
    <3> QED
      BY <2>1, <3>1, FS_Surjection
<1>3. PICK A \in SUBSET DOMAIN log :
        LET old == {log[k].pid : k \in A} IN
        /\ st = [p \in Pids |-> IF p \in old THEN "alien" ELSE "free"]
        /\ img = [p \in Pids |-> IF p \in old
                   THEN LET k == CHOOSE k \in A : log[k].pid = p
                        IN <<log[k].name, log[k].ver>>
                   ELSE NoLib]
  BY DEF Init
<1>4. st \in [Pids -> PidStates] /\ \A p \in Pids : st[p] # "run"
  BY <1>3 DEF PidStates
<1>5. log \in Logs /\ \A k \in DOMAIN log : <<log[k].name, log[k].ver>> \in Libs
  <2>1. log \in Seq([pid : Pids, name : Names, ver : Versions])
    BY DEF Init, AgentAssumption
  <2>2. \A k \in DOMAIN log : log[k] \in [pid : Pids, name : Names, ver : Versions]
    <3> DEFINE R == [pid : Pids, name : Names, ver : Versions]
    <3>1. log \in Seq(R)
      BY <2>1
    <3> HIDE DEF R
    <3>2. \A k \in DOMAIN log : log[k] \in R
      BY <3>1
    <3> QED
      BY <3>2 DEF R
  <2>3. log \in Logs
    BY DEF Init
  <2> QED
    BY <2>2, <2>3 DEF Libs
<1>6. img \in [Pids -> Libs \cup {NoLib}]
  BY <1>3, <1>5
<1>7. FirstVersion \in Versions
  BY DEF AgentAssumption
<1>8. files \subseteq File
  <2>1. \A n \in Names : Plain(<<n, FirstVersion>>) \in File
    BY <1>7 DEF Plain, File
  <2> QED
    BY <1>1, <2>1
<1>9. latest \in [Names -> Versions] /\ diedAt \in [Names -> 0 .. MaxTime]
      /\ now \in 0 .. MaxTime
  BY <1>7 DEF Init, AgentAssumption
<1>10. /\ listLibs = << >> /\ listProcess = << >> /\ libNew = << >>
       /\ empfile = << >> /\ helper = {} /\ incidents = {}
       /\ started = {} /\ again = {} /\ sigchld = FALSE /\ inHandler = FALSE
       /\ pc = "boot" /\ i = 1 /\ ret = "idle"
  BY DEF Init
<1>11. TypeOK
  <2>1. /\ listLibs \in Seq(Lib) /\ listProcess \in Seq(Process)
        /\ libNew \in Seq(Lib) /\ empfile \in Seq(Libs)
    BY <1>10, EmptySeq
  <2>2. /\ helper \subseteq Pids /\ incidents \subseteq Incidents
        /\ started \subseteq Libs /\ again \subseteq Libs
        /\ pc \in Control /\ i \in Nat \ {0}
        /\ ret \in {"idle", "new", "ping", "update"}
    BY <1>10 DEF Control
  <2>3. sigchld \in BOOLEAN /\ inHandler \in BOOLEAN
    BY <1>10, Zenon
  <2> QED
    BY <1>2, <1>4, <1>5, <1>6, <1>8, <1>9, <2>1, <2>2, <2>3 DEF TypeOK
<1>12. ControlInv
  BY <1>4, <1>10 DEF ControlInv
<1> QED
  BY <1>11, <1>12

\* No step of the master's own code changes the state of its SIGCHLD.
LEMMA MasterKeepsSignals == Master => UNCHANGED <<sigchld, inHandler>>
BY Zenon DEF Master, Boot, StartLib, StartDone, ForkFails, KeepProcess, MarkDead,
   RestartProcess, Restart, StateDone, Open, WakeUp, CheckNew, ScanOverflows, StartNew, Ping,
   RpcFails, UpToDate, Update, UpdateDone, Fetch, FetchRefused, Swap, Replace,
   ForkAgent, os

\* The Boolean part of the type, for the provers that dislike it.
LEMMA BooleanType ==
  ASSUME sigchld \in BOOLEAN, inHandler \in BOOLEAN, [Next]_vars
  PROVE  sigchld' \in BOOLEAN /\ inHandler' \in BOOLEAN
<1>1. CASE Deliver
  BY <1>1, Zenon DEF Deliver
<1>2. CASE Reap
  BY <1>2, Zenon DEF Reap
<1>3. ASSUME NEW p \in Pids, Children(p)
      PROVE  sigchld' \in BOOLEAN /\ inHandler' \in BOOLEAN
  BY <1>3, Zenon DEF Children, AgentExit, HelperCalls, HelperFails, HelperRemoves, ChildEnds
<1>4. CASE World
  BY <1>4, Zenon DEF World, AlienExit, Publish, Install, Tick, os
<1>5. CASE Master
  BY <1>5, MasterKeepsSignals, Zenon
<1>6. CASE UNCHANGED vars
  BY <1>6, Zenon DEF vars, os
<1> QED
  BY <1>1, <1>2, <1>3, <1>4, <1>5, <1>6, Zenon DEF Next, Unsupervised

\* A fork for a library keeps the process table and the fork history typed,
\* and leaves signals alone.
LEMMA ForkAgentType ==
  ASSUME TypeOK, NEW p \in Pids, NEW n \in Names, NEW v \in Versions,
         ForkAgent(p, n, v)
  PROVE  /\ st' \in [Pids -> PidStates]
         /\ img' \in [Pids -> Libs \cup {NoLib}]
         /\ started' \subseteq Libs /\ again' \subseteq Libs
         /\ diedAt' = diedAt
<1>1. "run" \in PidStates /\ <<n, v>> \in Libs
  BY DEF PidStates, Libs
<1> QED
  BY <1>1 DEF ForkAgent, TypeOK

\* Only known incidents are noted.
LEMMA NoteType ==
  ASSUME TypeOK, NEW S \in SUBSET Incidents, Note(S)
  PROVE  incidents' \subseteq Incidents
BY DEF Note, TypeOK

\* Reuse and the other noted sets are known incidents.
LEMMA ReuseType == \A p, n : Reuse(p, n) \in SUBSET Incidents
BY DEF Reuse, Incidents

\* The entry pushed after a fork has the type of a process.
LEMMA ProcessOfType ==
  ASSUME NEW l \in Lib, NEW p \in Pids
  PROVE  ProcessOf(l, p) \in Process
BY DEF ProcessOf, Process, Lib

\* Marking an entry as dead keeps its type.
LEMMA MarkedType ==
  ASSUME NEW e \in Process, NEW t \in Nat
  PROVE  [e EXCEPT !.status = 0, !.death = IF e.type = 1 THEN t ELSE @] \in Process
<1>1. (IF e.type = 1 THEN t ELSE e.death) \in Nat
  BY DEF Process
<1>2. \A x \in 0 .. 2, d \in Nat : [e EXCEPT !.status = x, !.death = d] \in Process
  BY DEF Process
<1>3. 0 \in 0 .. 2
  OBVIOUS
<1> QED
  BY <1>1, <1>2, <1>3

\* The end of a child keeps the state typed; ChildEnds leaves files and diedAt
\* to the action that uses it.
LEMMA ChildEndsType ==
  ASSUME TypeOK, ControlInv, NEW p \in Pids, ChildEnds(p),
         files' \subseteq File, IsFiniteSet(files'),
         diedAt' \in [Names -> 0 .. MaxTime],
         sigchld' \in BOOLEAN, inHandler' \in BOOLEAN
  PROVE  TypeOK' /\ ControlInv'
<1>1. "zombie" \in PidStates /\ "zombie" # "run"
  BY DEF PidStates
<1>2. st' \in [Pids -> PidStates] /\ (\A q \in Pids : st'[q] = "run" => st[q] = "run")
  BY <1>1 DEF ChildEnds, TypeOK
<1>3. incidents' \subseteq Incidents
  <2>1. (IF sigchld THEN {"merged"} ELSE {}) \in SUBSET Incidents
    BY DEF Incidents
  <2> QED
    BY <2>1, NoteType DEF ChildEnds
<1>4. UNCHANGED <<listLibs, listProcess, img, inHandler, log, latest, now, pc, i, local,
                  started, again>>
  BY DEF ChildEnds
<1>5. TypeOK'
  BY <1>2, <1>3, <1>4 DEF TypeOK, local
<1>6. ControlInv'
  BY <1>2, <1>4 DEF ControlInv, local
<1> QED
  BY <1>5, <1>6

\* Every step of the master, its children and their surroundings keeps the
\* state typed and the locals consistent with the control point.
LEMMA TypeStep == TypeOK /\ ControlInv /\ [Next]_vars => TypeOK' /\ ControlInv'
<1> SUFFICES ASSUME TypeOK, ControlInv, [Next]_vars PROVE TypeOK' /\ ControlInv'
  OBVIOUS
<1>0. sigchld' \in BOOLEAN /\ inHandler' \in BOOLEAN
  <2>1. sigchld \in BOOLEAN /\ inHandler \in BOOLEAN
    BY DEF TypeOK
  <2> QED
    BY <2>1, BooleanType
<1>1. CASE Boot
  <2>1. PICK s \in Scans :
          /\ \E g \in [DOMAIN log -> Garbage] :
               listProcess' = [k \in DOMAIN log |->
                 [pid |-> log[k].pid, name |-> log[k].name, ver |-> log[k].ver,
                  type |-> g[k].type, time |-> g[k].time,
                  status |-> g[k].status, death |-> g[k].death]]
          /\ listLibs' = LibsOf(s)
          /\ pc' = IF log = << >> THEN "start" ELSE "state"
          /\ Note((IF log = << >> THEN {} ELSE {"restored"})
                  \cup (IF ScanCut THEN {"cut"} ELSE {}))
    BY <1>1 DEF Boot, readLog
  <2>2. listLibs' \in Seq(Lib)
    <3>1. PICK S \in ScanSets : s \in Orders(S)
      BY <2>1 DEF Scans
    <3>2. S \in SUBSET files
      BY <3>1 DEF ScanSets, Readable
    <3>3. S \in SUBSET File /\ IsFiniteSet(S)
      BY <3>2, FS_Subset DEF TypeOK
    <3> QED
      BY <2>1, <3>1, <3>3, ScanType, AgentAssumption
  <2>3. listProcess' \in Seq(Process)
    <3> DEFINE R == [pid : Pids, name : Names, ver : Versions]
    <3>1. log \in Seq(R)
      BY AgentAssumption DEF TypeOK, AgentAssumption
    <3> HIDE DEF R
    <3>2. DOMAIN log = 1 .. Len(log) /\ Len(log) \in Nat
      BY <3>1
    <3>3. \A k \in DOMAIN log : log[k] \in R
      BY <3>1
    <3>4. \A k \in DOMAIN log : log[k].pid \in Pids /\ log[k].name \in Names /\ log[k].ver \in Versions
      BY <3>3 DEF R
    <3>5. PICK g \in [DOMAIN log -> Garbage] :
            listProcess' = [k \in DOMAIN log |->
                 [pid |-> log[k].pid, name |-> log[k].name, ver |-> log[k].ver,
                  type |-> g[k].type, time |-> g[k].time,
                  status |-> g[k].status, death |-> g[k].death]]
      BY <2>1
    <3>6. \A k \in DOMAIN log : g[k].type \in 0 .. 2 /\ g[k].time \in Nat
                              /\ g[k].status \in 0 .. 2 /\ g[k].death \in Nat
      BY <3>5 DEF Garbage
    <3>7. listProcess' \in [1 .. Len(log) -> Process]
      BY <3>2, <3>4, <3>5, <3>6 DEF Process
    <3> QED
      BY <3>2, <3>7, FunctionIsSeq
  <2>4. incidents' \subseteq Incidents
    BY <2>1, NoteType DEF Incidents
  <2>5. /\ i' = 1 /\ UNCHANGED <<os, disk, now, local, started, again, diedAt>>
    BY <1>1 DEF Boot
  <2>6. TypeOK'
    BY <1>0, <2>1, <2>2, <2>3, <2>4, <2>5 DEF TypeOK, os, disk, local, Control
  <2>7. ControlInv'
    BY <2>1 DEF ControlInv
  <2> QED
    BY <2>6, <2>7
<1>2. CASE StartLib
  <2>1. PICK p \in Pids :
          /\ ForkAgent(p, listLibs[i].name, listLibs[i].ver)
          /\ listProcess' = Append(listProcess, ProcessOf(listLibs[i], p))
          /\ Note(Reuse(p, 0))
    BY <1>2 DEF StartLib
  <2>2. listLibs[i] \in Lib
    BY <1>2 DEF StartLib, TypeOK
  <2>3. listProcess' \in Seq(Process)
    BY <2>1, <2>2, ProcessOfType, AppendProperties DEF TypeOK
  <2>4. /\ st' \in [Pids -> PidStates] /\ img' \in [Pids -> Libs \cup {NoLib}]
        /\ started' \subseteq Libs /\ again' \subseteq Libs /\ diedAt' = diedAt
    BY <2>1, <2>2, ForkAgentType DEF Lib
  <2>5. incidents' \subseteq Incidents
    BY <2>1, NoteType, ReuseType
  <2>6. /\ pc = "start" /\ i' = i + 1
        /\ UNCHANGED <<listLibs, disk, now, pc, local>>
    BY <1>2 DEF StartLib, At
  <2> QED
    BY <1>0, <2>3, <2>4, <2>5, <2>6 DEF TypeOK, ControlInv, disk, local
<1>3. CASE StartDone
  BY <1>0, <1>3 DEF StartDone, TypeOK, ControlInv, At, os, disk, local, Control
<1>4. CASE ForkFails
  <2>1. /\ UNCHANGED <<listLibs, os, disk, now, i, local, started, again, diedAt>>
        /\ pc \in {"fork", "start"} /\ pc' \in {pc, "undefined"}
    BY <1>4 DEF ForkFails
  <2>2. listProcess' \in Seq(Process)
    BY <1>4, PopBackType DEF ForkFails, TypeOK
  <2>3. incidents' \subseteq Incidents
    <3>1. {"popped"} \in SUBSET Incidents
      BY DEF Incidents
    <3> QED
      BY <1>4, <3>1, NoteType DEF ForkFails, TypeOK
  <2> QED
    BY <1>0, <2>1, <2>2, <2>3 DEF TypeOK, ControlInv, os, disk, local, Control
<1>5. CASE KeepProcess
  BY <1>0, <1>5 DEF KeepProcess, TypeOK, ControlInv, At, os, disk, local, Control
<1>6. CASE MarkDead
  <2> DEFINE e == listProcess[i]
             f == [e EXCEPT !.status = 0, !.death = IF e.type = 1 THEN now ELSE @]
  <2>1. /\ pc = "state" /\ i' = i + 1 /\ i <= Len(listProcess)
        /\ listProcess' = [listProcess EXCEPT ![i] = f]
        /\ UNCHANGED <<listLibs, os, disk, now, pc, local,
                       incidents, started, again, diedAt>>
    BY <1>6 DEF MarkDead, At
  <2>2. e \in Process
    BY <2>1 DEF TypeOK
  <2>3. f \in Process
    <3>1. now \in Nat
      BY AgentAssumption DEF TypeOK, AgentAssumption
    <3> QED
      BY <2>2, <3>1, MarkedType
  <2>4. listProcess' \in Seq(Process)
    BY <2>1, <2>3, ExceptSeq DEF TypeOK
  <2> QED
    BY <1>0, <2>1, <2>4 DEF TypeOK, ControlInv, os, disk, local
<1>7. CASE RestartProcess
  <2> DEFINE e == listProcess[i]
  <2>1. /\ pc = "state" /\ i <= Len(listProcess) /\ Restart(e)
    BY <1>7 DEF RestartProcess, At
  <2>2. e \in Process
    BY <2>1 DEF TypeOK
  <2>3. PICK p \in Pids :
          /\ ForkAgent(p, e.name, e.ver)
          /\ listProcess' = [listProcess EXCEPT ![i] =
               [e EXCEPT !.pid = p,
                         !.status = IF e.type = 1 /\ @ = 0 THEN 1 ELSE @]]
          /\ Note(Reuse(p, i))
    BY <2>1 DEF Restart
  <2>4. [e EXCEPT !.pid = p,
                  !.status = IF e.type = 1 /\ @ = 0 THEN 1 ELSE @] \in Process
    BY <2>2 DEF Process
  <2>5. listProcess' \in Seq(Process)
    BY <2>1, <2>3, <2>4, ExceptSeq DEF TypeOK
  <2>6. e.name \in Names /\ e.ver \in Versions
    BY <2>2 DEF Process
  <2>7. /\ st' \in [Pids -> PidStates] /\ img' \in [Pids -> Libs \cup {NoLib}]
        /\ started' \subseteq Libs /\ again' \subseteq Libs /\ diedAt' = diedAt
    BY <2>3, <2>6, ForkAgentType
  <2>8. incidents' \subseteq Incidents
    BY <2>3, NoteType, ReuseType
  <2>9. i' = i + 1 /\ UNCHANGED <<listLibs, disk, now, pc, local>>
    BY <2>1 DEF Restart
  <2> QED
    BY <1>0, <2>1, <2>5, <2>7, <2>8, <2>9 DEF TypeOK, ControlInv, disk, local
<1>8. CASE StateDone
  BY <1>0, <1>8 DEF StateDone, TypeOK, ControlInv, At, os, disk, local, Control
<1>9. CASE Open
  BY <1>0, <1>9 DEF Open, TypeOK, ControlInv, At, os, disk, local, Control
<1>10. CASE WakeUp
  BY <1>0, <1>10 DEF WakeUp, TypeOK, ControlInv, At, os, disk, local, Control
<1>11. CASE CheckNew
  <2>1. PICK s \in Checks :
          /\ libNew' = NewLibsOf(s)
          /\ listLibs' = listLibs \o NewLibsOf(s)
          /\ pc' = IF s = << >> THEN ret ELSE "fork"
          /\ Note((IF Len(s) > 1 THEN {"burst"} ELSE {})
                  \cup (IF ScanCut THEN {"cut"} ELSE {})
                  \cup (IF \E f, g \in files : f # g /\ f.name = g.name
                          THEN {"stale"} ELSE {}))
    BY <1>11 DEF CheckNew
  <2>2. PICK S \in ScanSets : s \in Orders(S \cap Fresh)
    BY <2>1 DEF Checks
  <2>3. S \cap Fresh \in SUBSET files
    BY <2>2 DEF ScanSets, Readable
  <2>4. S \cap Fresh \in SUBSET File /\ IsFiniteSet(S \cap Fresh)
    BY <2>3, FS_Subset DEF TypeOK
  <2>5. NewLibsOf(s) \in Seq(Lib) /\ Len(NewLibsOf(s)) = Len(s)
    BY <2>2, <2>4, ScanType, AgentAssumption
  <2>6. s = << >> \/ NewLibsOf(s) # << >>
    <3>1. Cardinality(S \cap Fresh) \in Nat
      BY <2>4, FS_CardinalityType
    <3>2. s \in Seq(S \cap Fresh)
      BY <2>2, <3>1, FunctionIsSeq DEF Orders
    <3> QED
      BY <2>5, <3>2, EmptySeq
  <2>7. libNew' \in Seq(Lib) /\ listLibs' \in Seq(Lib)
    BY <2>1, <2>5, ConcatProperties DEF TypeOK
  <2>8. incidents' \subseteq Incidents
    BY <2>1, NoteType DEF Incidents
  <2>9. UNCHANGED <<listProcess, os, disk, now, i, ret, helper, empfile,
                    started, again, diedAt>>
    BY <1>11 DEF CheckNew
  <2>10. pc' \in {"idle", "new", "ping", "update", "fork"}
         /\ (pc' = "fork" => libNew' # << >>)
    BY <2>1, <2>6 DEF TypeOK
  <2> QED
    BY <1>0, <2>7, <2>8, <2>9, <2>10 DEF TypeOK, ControlInv, os, disk, Control
<1>12. CASE ScanOverflows
  BY <1>0, <1>12 DEF ScanOverflows, TypeOK, ControlInv, At, os, disk, local, Control
<1>13. CASE StartNew
  <2>1. PICK p \in Pids :
          /\ ForkAgent(p, Head(libNew).name, Head(libNew).ver)
          /\ listProcess' = Append(listProcess, ProcessOf(Head(libNew), p))
          /\ Note(Reuse(p, 0))
    BY <1>13 DEF StartNew
  <2>2. Head(libNew) \in Lib
    BY <1>13, HeadTailProperties DEF StartNew, TypeOK, ControlInv, At
  <2>3. listProcess' \in Seq(Process)
    BY <2>1, <2>2, ProcessOfType, AppendProperties DEF TypeOK
  <2>4. /\ st' \in [Pids -> PidStates] /\ img' \in [Pids -> Libs \cup {NoLib}]
        /\ started' \subseteq Libs /\ again' \subseteq Libs /\ diedAt' = diedAt
    BY <2>1, <2>2, ForkAgentType DEF Lib
  <2>5. incidents' \subseteq Incidents
    BY <2>1, NoteType, ReuseType
  <2>6. /\ libNew' = << >> /\ pc' = ret
        /\ UNCHANGED <<listLibs, disk, now, i, ret, helper, empfile>>
    BY <1>13 DEF StartNew
  <2>7. libNew' \in Seq(Lib)
    BY <2>6, EmptySeq
  <2> QED
    BY <1>0, <2>3, <2>4, <2>5, <2>6, <2>7 DEF TypeOK, ControlInv, disk, Control
<1>14. CASE Ping
  BY <1>0, <1>14 DEF Ping, TypeOK, ControlInv, At, os, disk, local, Control
<1>15. CASE RpcFails
  BY <1>0, <1>15 DEF RpcFails, TypeOK, ControlInv, At, os, disk, local, Control
<1>16. CASE UpToDate
  BY <1>0, <1>16 DEF UpToDate, TypeOK, ControlInv, At, os, disk, local, Control
<1>17. CASE Update
  <2> DEFINE e == listProcess[i]
  <2>1. /\ pc = "update" /\ i <= Len(listProcess)
        /\ empfile' = Append(empfile, <<e.name, latest[e.name]>>)
        /\ pc' = "fetch"
        /\ UNCHANGED <<listLibs, listProcess, sigchld, inHandler, disk, now, i, ret,
                       libNew, started, again, diedAt>>
    BY <1>17 DEF Update, At
  <2>2. e \in Process
    BY <2>1 DEF TypeOK
  <2>3. e.name \in Names /\ e.ver \in Versions
    BY <2>2 DEF Process
  <2>4. <<e.name, latest[e.name]>> \in Libs /\ <<e.name, e.ver>> \in Libs
    BY <2>3 DEF TypeOK, Libs
  <2>5. empfile' \in Seq(Libs) /\ empfile' # << >>
    <3> DEFINE l == <<e.name, latest[e.name]>>
    <3>1. l \in Libs /\ empfile' = Append(empfile, l)
      BY <2>1, <2>4
    <3> HIDE DEF l
    <3>2. empfile' \in Seq(Libs) /\ Len(empfile') = Len(empfile) + 1 /\ Len(empfile) \in Nat
      BY <3>1, AppendProperties, LenProperties DEF TypeOK
    <3> QED
      BY <3>2, EmptySeq
  <2>6. /\ st' \in [Pids -> PidStates] /\ img' \in [Pids -> Libs \cup {NoLib}]
        /\ helper' \subseteq Pids /\ incidents' \subseteq Incidents
    <3>1. CASE ForkCanFail /\ helper' = {} /\ UNCHANGED <<st, img, incidents>>
      BY <3>1 DEF TypeOK
    <3>2. ASSUME NEW p \in Pids,
                 st' = [st EXCEPT ![p] = "call"],
                 img' = [img EXCEPT ![p] = <<e.name, e.ver>>],
                 helper' = {p},
                 Note(Reuse(p, 0) \cup IF empfile = << >> THEN {} ELSE {"joined"})
          PROVE  /\ st' \in [Pids -> PidStates] /\ img' \in [Pids -> Libs \cup {NoLib}]
                 /\ helper' \subseteq Pids /\ incidents' \subseteq Incidents
      <4>1. "call" \in PidStates
        BY DEF PidStates
      <4>2. (Reuse(p, 0) \cup IF empfile = << >> THEN {} ELSE {"joined"}) \in SUBSET Incidents
        BY ReuseType DEF Incidents
      <4>3. incidents' \subseteq Incidents
        BY <3>2, <4>2, NoteType
      <4>4. st' \in [Pids -> PidStates]
        BY <3>2, <4>1 DEF TypeOK
      <4>5. img' \in [Pids -> Libs \cup {NoLib}]
        BY <3>2, <2>4 DEF TypeOK
      <4> QED
        BY <3>2, <4>3, <4>4, <4>5
    <3> QED
      BY <1>17, <3>1, <3>2 DEF Update
  <2> QED
    BY <1>0, <2>1, <2>5, <2>6 DEF TypeOK, ControlInv, disk, Control
<1>18. CASE UpdateDone
  BY <1>0, <1>18 DEF UpdateDone, TypeOK, ControlInv, At, os, disk, local, Control
<1>19. CASE Fetch
  <2> DEFINE f == [name |-> empfile[1][1], ver |-> empfile[1][2],
                    joined |-> Len(empfile) > 1]
  <2>1. PICK p \in helper : st[p] = "listen" /\ st' = [st EXCEPT ![p] = "sent"]
    BY <1>19 DEF Fetch
  <2>2. /\ files' = files \cup {f} /\ pc = "fetch" /\ pc' = "swap"
        /\ UNCHANGED <<listLibs, listProcess, img, sigchld, inHandler, log, latest, now, i,
                       local, incidents, started, again, diedAt>>
    BY <1>19 DEF Fetch, At
  <2>3. empfile[1] \in Libs
    BY <2>2 DEF TypeOK, ControlInv
  <2>4. f \in File
    BY <2>3 DEF File, Libs
  <2>5. files' \subseteq File /\ IsFiniteSet(files')
    BY <2>2, <2>4, FS_AddElement DEF TypeOK
  <2>6. "sent" \in PidStates
    BY DEF PidStates
  <2>7. st' \in [Pids -> PidStates]
    BY <2>1, <2>6 DEF TypeOK
  <2> QED
    BY <1>0, <2>2, <2>5, <2>7 DEF TypeOK, ControlInv, local, Control
<1>20. CASE FetchRefused
  BY <1>0, <1>20 DEF FetchRefused, TypeOK, ControlInv, At, os, disk, local, Control
<1>21. CASE Swap
  <2> DEFINE e == listProcess[i]
  <2>1. pc = "swap" /\ Replace(e.pid, RemoveIndex(listProcess, i), RemoveIndex(listLibs, i))
    BY <1>21 DEF Swap, At
  <2>2. i <= Len(listProcess) /\ e \in Process
    BY <2>1 DEF TypeOK, ControlInv
  <2>3. e.pid \in Pids
    BY <2>2 DEF Process
  <2>4. listProcess' \in Seq(Process)
    BY <2>1, <2>2, RemoveIndexProperties DEF Replace, TypeOK
  <2>5. listLibs' \in Seq(Lib) /\ pc' \in {"new", "undefined"}
    BY <2>1, RemoveIndexProperties DEF Replace, TypeOK
  <2>6. Terminated(e.pid) \in PidStates
    BY <2>3 DEF Terminated, TypeOK, PidStates
  <2>7. st' \in [Pids -> PidStates]
    BY <2>1, <2>6 DEF Replace, TypeOK
  <2>8. /\ i' = i + 1 /\ ret' = "update"
        /\ UNCHANGED <<img, sigchld, inHandler, disk, now, libNew, helper, empfile,
                       incidents, started, again, diedAt>>
    BY <2>1 DEF Replace
  <2> QED
    BY <1>0, <2>4, <2>5, <2>7, <2>8 DEF TypeOK, ControlInv, disk, Control
<1>22. CASE Deliver
  BY <1>0, <1>22 DEF Deliver, TypeOK, ControlInv, At, os, disk, local, Control
<1>23. CASE Reap
  <2>1. PICK p \in Pids : /\ st[p] = "zombie"
                          /\ st' = [st EXCEPT ![p] = "free"]
                          /\ img' = [img EXCEPT ![p] = NoLib]
    BY <1>23 DEF Reap
  <2>2. "free" \in PidStates
    BY DEF PidStates
  <2>3. /\ st' \in [Pids -> PidStates] /\ img' \in [Pids -> Libs \cup {NoLib}]
        /\ \A q \in Pids : st'[q] = "run" => st[q] = "run"
    BY <2>1, <2>2 DEF TypeOK
  <2>4. UNCHANGED <<listLibs, listProcess, sigchld, disk, now, pc, i, local,
                    incidents, started, again, diedAt>>
    BY <1>23 DEF Reap
  <2> QED
    BY <1>0, <2>3, <2>4 DEF TypeOK, ControlInv, disk, local
<1>24. ASSUME NEW p \in Pids, AgentExit(p) PROVE TypeOK' /\ ControlInv'
  <2>1. ChildEnds(p) /\ files' = files
    BY <1>24 DEF AgentExit
  <2>2. diedAt' \in [Names -> 0 .. MaxTime]
    BY <1>24 DEF AgentExit, TypeOK
  <2> QED
    BY <1>0, <2>1, <2>2, ChildEndsType DEF TypeOK
<1>25. ASSUME NEW p \in Pids, HelperCalls(p) PROVE TypeOK' /\ ControlInv'
  BY <1>0, <1>25 DEF HelperCalls, TypeOK, ControlInv, os, disk, local, PidStates
<1>26. ASSUME NEW p \in Pids, HelperFails(p) PROVE TypeOK' /\ ControlInv'
  <2>1. ChildEnds(p) /\ files' = files /\ diedAt' = diedAt
    BY <1>26 DEF HelperFails
  <2> QED
    BY <1>0, <2>1, ChildEndsType DEF TypeOK
<1>27. ASSUME NEW p \in Pids, HelperRemoves(p) PROVE TypeOK' /\ ControlInv'
  <2>1. ChildEnds(p) /\ files' = files \ {Plain(img[p])} /\ diedAt' = diedAt
    BY <1>27 DEF HelperRemoves
  <2>2. files' \subseteq File /\ IsFiniteSet(files')
    BY <2>1, FS_RemoveElement DEF TypeOK
  <2> QED
    BY <1>0, <2>1, <2>2, ChildEndsType DEF TypeOK
<1>28. ASSUME NEW p \in Pids, AlienExit(p) PROVE TypeOK' /\ ControlInv'
  BY <1>0, <1>28 DEF AlienExit, TypeOK, ControlInv, os, disk, local, PidStates
<1>29. ASSUME NEW n \in Names, NEW v \in Versions, Publish(n, v) PROVE TypeOK' /\ ControlInv'
  BY <1>0, <1>29 DEF Publish, TypeOK, ControlInv, os, disk, local
<1>30. ASSUME NEW n \in Names, Install(n) PROVE TypeOK' /\ ControlInv'
  <2> DEFINE f == Plain(<<n, FirstVersion>>)
  <2>1. f \in File
    BY AgentAssumption DEF Plain, File, AgentAssumption
  <2>2. files' = files \cup {f}
    BY <1>30 DEF Install
  <2>3. files' \subseteq File /\ IsFiniteSet(files')
    BY <2>1, <2>2, FS_AddElement DEF TypeOK
  <2>4. UNCHANGED <<listLibs, listProcess, os, log, latest, now, pc, i, local,
                    incidents, started, again, diedAt>>
    BY <1>30 DEF Install
  <2> QED
    BY <1>0, <2>3, <2>4 DEF TypeOK, ControlInv, os, local
<1>31. CASE Tick
  BY <1>0, <1>31, AgentAssumption DEF Tick, TypeOK, ControlInv, os, disk, local, AgentAssumption
<1>32. CASE UNCHANGED vars
  BY <1>0, <1>32 DEF vars, TypeOK, ControlInv, os, disk, local
<1> QED
  BY <1>1, <1>2, <1>3, <1>4, <1>5, <1>6, <1>7, <1>8, <1>9, <1>10, <1>11, <1>12, <1>13, <1>14, <1>15, <1>16, <1>17, <1>18, <1>19, <1>20, <1>21, <1>22, <1>23, <1>24, <1>25, <1>26, <1>27, <1>28, <1>29, <1>30, <1>31, <1>32
  DEF Next, Unsupervised, Master, Children, World

\* Type correctness of the master: the state of every behaviour is typed, for
\* any libraries, versions and pids.  TypeOK is inductive together with
\* ControlInv, which says that an index or a new library in use is there.
THEOREM AgentTypeOK == Spec => [](TypeOK /\ ControlInv)
<1>1. Init => TypeOK /\ ControlInv
  BY InitTypeOK
<1>2. TypeOK /\ ControlInv /\ [Next]_vars => TypeOK' /\ ControlInv'
  BY TypeStep
<1> QED
  BY <1>1, <1>2, PTL DEF Spec

-----------------------------------------------------------------------------
(* SIGCHLD.                                                                *)

\* A step of the master or of its surroundings leaves the signal state alone
\* and the same processes zombies: the master forks only into free pids, and
\* SIGTERM does not wake the dead.
LEMMA ZombiesKept ==
  ASSUME TypeOK, ControlInv, Master \/ World \/ (\E p \in Pids : HelperCalls(p))
  PROVE  /\ UNCHANGED <<sigchld, inHandler>>
         /\ \A q \in Pids : st[q] = "zombie" <=> st'[q] = "zombie"
<1>0. st \in [Pids -> PidStates]
  BY DEF TypeOK
<1>1. UNCHANGED <<sigchld, inHandler>>
  <2>1. CASE Master
    BY <2>1, MasterKeepsSignals
  <2>2. CASE World
    BY <2>2, Zenon DEF World, AlienExit, Publish, Install, Tick, os
  <2>3. ASSUME NEW p \in Pids, HelperCalls(p) PROVE UNCHANGED <<sigchld, inHandler>>
    BY <2>3, Zenon DEF HelperCalls
  <2> QED
    BY <2>1, <2>2, <2>3, Zenon
<1> DEFINE Kept == \A q \in Pids : st[q] = "zombie" <=> st'[q] = "zombie"
<1> SUFFICES Kept
  BY <1>1
<1>2. ASSUME NEW p \in Pids, NEW x, st[p] # "zombie", x # "zombie",
             st' = [st EXCEPT ![p] = x]
      PROVE  Kept
  BY <1>0, <1>2
<1>3. ASSUME NEW p \in Pids, NEW n, NEW v, ForkAgent(p, n, v)
      PROVE  Kept
  BY <1>2, <1>3 DEF ForkAgent
<1>4. CASE StartLib
  BY <1>3, <1>4, Zenon DEF StartLib
<1>5. CASE RestartProcess
  BY <1>3, <1>5, Zenon DEF RestartProcess, Restart
<1>6. CASE StartNew
  BY <1>3, <1>6, Zenon DEF StartNew
<1>7. CASE Update
  BY <1>2, <1>7 DEF Update
<1>8. CASE Fetch
  BY <1>2, <1>8 DEF Fetch, TypeOK
<1>9. CASE Swap
  <2> DEFINE p == listProcess[i].pid
  <2>1. st' = [st EXCEPT ![p] = Terminated(p)]
    BY <1>9 DEF Swap, Replace
  <2>2. st[p] = "zombie" <=> Terminated(p) = "zombie"
    BY <1>0 DEF Terminated, Helping
  <2> HIDE DEF p
  <2> QED
    BY <1>0, <2>1, <2>2
<1>10. ASSUME NEW p \in Pids, AlienExit(p) PROVE Kept
  BY <1>2, <1>10 DEF AlienExit
<1>11. ASSUME NEW p \in Pids, HelperCalls(p) PROVE Kept
  BY <1>2, <1>11 DEF HelperCalls
<1>12. CASE Boot \/ StartDone \/ ForkFails \/ KeepProcess \/ MarkDead \/ StateDone
            \/ Open \/ WakeUp \/ CheckNew \/ ScanOverflows \/ Ping \/ RpcFails
            \/ UpToDate \/ UpdateDone \/ FetchRefused
  <2>1. st' = st
    BY <1>12, Zenon DEF Boot, StartDone, ForkFails, KeepProcess, MarkDead, StateDone, Open, WakeUp,
       CheckNew, ScanOverflows, Ping, RpcFails, UpToDate, UpdateDone, FetchRefused, os
  <2> QED
    BY <2>1
<1>13. ASSUME NEW n \in Names, NEW v \in Versions, Publish(n, v) PROVE Kept
  BY <1>13 DEF Publish, os
<1>14. ASSUME NEW n \in Names, Install(n) PROVE Kept
  BY <1>14 DEF Install, os
<1>15. CASE Tick
  BY <1>15 DEF Tick, os
<1> QED
  BY <1>4, <1>5, <1>6, <1>7, <1>8, <1>9, <1>10, <1>11, <1>12, <1>13, <1>14, <1>15, Zenon
  DEF Master, World

\* The end of a child that was not yet a zombie gives its signal a zombie of
\* its own, beside the one of a running handler.
LEMMA ChildEndsHandler ==
  ASSUME TypeOK, HandlerInv, NEW p \in Pids, st[p] # "zombie", ChildEnds(p)
  PROVE  HandlerInv'
<1>1. st' = [st EXCEPT ![p] = "zombie"] /\ st \in [Pids -> PidStates]
  BY DEF ChildEnds, TypeOK
<1>2. st'[p] = "zombie" /\ \A q \in Pids : st[q] = "zombie" => st'[q] = "zombie" /\ q # p
  BY <1>1
<1>3. inHandler' = inHandler
  BY Zenon DEF ChildEnds
<1>4. inHandler => \E q \in Pids : st[q] = "zombie"
  BY DEF HandlerInv
<1>5. inHandler' => \E q \in Pids : q # p /\ st'[q] = "zombie"
  BY <1>2, <1>3, <1>4, Zenon
<1> QED
  BY <1>2, <1>5, Zenon DEF HandlerInv

\* HandlerInv is preserved by every step.
LEMMA HandlerStep ==
  ASSUME TypeOK, ControlInv, HandlerInv, [Next]_vars
  PROVE  HandlerInv'
<1>1. CASE Master \/ World \/ (\E p \in Pids : HelperCalls(p))
  <2>1. /\ sigchld' = sigchld /\ inHandler' = inHandler
        /\ \A q \in Pids : st[q] = "zombie" <=> st'[q] = "zombie"
    BY <1>1, ZombiesKept
  <2> QED
    BY <2>1, Zenon DEF HandlerInv
<1>2. CASE Deliver
  <2>1. /\ sigchld /\ ~inHandler /\ ~sigchld' /\ inHandler' /\ st' = st
    BY <1>2, Zenon DEF Deliver
  <2> QED
    BY <2>1, Zenon DEF HandlerInv
<1>3. CASE Reap
  <2>1. PICK p \in Pids : st[p] = "zombie" /\ st' = [st EXCEPT ![p] = "free"]
    BY <1>3 DEF Reap
  <2>2. inHandler /\ ~inHandler' /\ sigchld' = sigchld
    BY <1>3, Zenon DEF Reap
  <2>3. \A q \in Pids : q # p => st'[q] = st[q]
    BY <2>1 DEF TypeOK
  <2>4. sigchld => \E q, r \in Pids : q # r /\ st[q] = "zombie" /\ st[r] = "zombie"
    BY <2>2, Zenon DEF HandlerInv
  <2>5. sigchld => \E q \in Pids : st'[q] = "zombie"
    BY <2>3, <2>4
  <2> QED
    BY <2>2, <2>5, Zenon DEF HandlerInv
<1>4. ASSUME NEW p \in Pids, AgentExit(p) \/ HelperFails(p) \/ HelperRemoves(p)
      PROVE  HandlerInv'
  <2>1. st[p] # "zombie" /\ ChildEnds(p)
    BY <1>4 DEF AgentExit, HelperFails, HelperRemoves
  <2> QED
    BY <2>1, ChildEndsHandler
<1>5. CASE UNCHANGED vars
  BY <1>5, Zenon DEF vars, os, HandlerInv
<1> QED
  BY <1>1, <1>2, <1>3, <1>4, <1>5, Zenon DEF Next, Unsupervised, Children

\* The wait(NULL) of the SIGCHLD handler never blocks the master, for any
\* number of children: a signal that is pending and a handler that is running
\* each have a zombie of their own (HandlerInv).
THEOREM AgentHandlerNeverBlocks == Spec => []HandlerNeverBlocks
<1>1. Init => HandlerInv
  BY Zenon DEF Init, HandlerInv
<1>2. TypeOK /\ ControlInv /\ HandlerInv /\ [Next]_vars => HandlerInv'
  BY HandlerStep
<1>3. HandlerInv => HandlerNeverBlocks
  BY Zenon DEF HandlerInv, HandlerNeverBlocks
<1> QED
  BY <1>1, <1>2, <1>3, AgentTypeOK, PTL DEF Spec

-----------------------------------------------------------------------------
(* Running agents are listed.                                              *)

\* Pushing the process of a fork, as startAll and checkNew do.
LEMMA ListedAfterPush ==
  ASSUME TypeOK, RunningAgentsAreListed, NEW p \in Pids, NEW l \in Lib,
         ForkAgent(p, l.name, l.ver),
         listProcess' = Append(listProcess, ProcessOf(l, p)),
         incidents \subseteq incidents'
  PROVE  RunningAgentsAreListed'
<1> DEFINE e == ProcessOf(l, p)
<1>1. e \in Process /\ e.pid = p
  BY ProcessOfType DEF ProcessOf
<1> HIDE DEF e
<1>2. listProcess \in Seq(Process) /\ st \in [Pids -> PidStates]
  BY DEF TypeOK
<1>3. /\ listProcess' \in Seq(Process) /\ Len(listProcess') = Len(listProcess) + 1
      /\ listProcess'[Len(listProcess) + 1] = e
      /\ \A k \in 1 .. Len(listProcess) : listProcess'[k] = listProcess[k]
  BY <1>1, <1>2, AppendProperties DEF e
<1>4. \A k \in DOMAIN listProcess : k \in DOMAIN listProcess' /\ listProcess'[k] = listProcess[k]
  BY <1>2, <1>3
<1>5. Len(listProcess) + 1 \in DOMAIN listProcess'
  BY <1>2, <1>3
<1>6. \A q \in Pids : st'[q] = "run" => q = p \/ st[q] = "run"
  BY <1>2 DEF ForkAgent
<1> QED
  BY <1>1, <1>3, <1>4, <1>5, <1>6 DEF RunningAgentsAreListed

\* Every step keeps running agents listed.
LEMMA ListedStep ==
  ASSUME TypeOK, ControlInv, RunningAgentsAreListed, [Next]_vars
  PROVE  RunningAgentsAreListed'
<1>0. listProcess \in Seq(Process) /\ st \in [Pids -> PidStates] /\ i \in Nat \ {0}
  BY DEF TypeOK
<1>1. ASSUME UNCHANGED listProcess, incidents \subseteq incidents',
             \A q \in Pids : st'[q] = "run" => st[q] = "run"
      PROVE  RunningAgentsAreListed'
  BY <1>1 DEF RunningAgentsAreListed
<1>2. CASE Boot
  BY <1>2 DEF Boot, At, ControlInv, RunningAgentsAreListed, os
<1>3. CASE StartLib
  <2>1. listLibs[i] \in Lib
    BY <1>3 DEF StartLib, TypeOK
  <2> QED
    BY <1>3, <2>1, ListedAfterPush DEF StartLib, Note
<1>4. CASE ForkFails
  <2>1. CASE listProcess = << >>
    BY <1>4, <2>1 DEF ForkFails, os, RunningAgentsAreListed
  <2>2. CASE listProcess # << >>
    BY <1>4, <2>2 DEF ForkFails, Note, RunningAgentsAreListed
  <2> QED
    BY <2>1, <2>2
<1>5. CASE MarkDead
  <2> DEFINE e == listProcess[i]
             f == [e EXCEPT !.status = 0, !.death = IF e.type = 1 THEN now ELSE @]
  <2>1. /\ listProcess' = [listProcess EXCEPT ![i] = f] /\ i <= Len(listProcess)
        /\ st' = st /\ incidents' = incidents
    BY <1>5 DEF MarkDead, os
  <2>2. e \in Process
    BY <1>0, <2>1
  <2>3. f.pid = e.pid
    BY <2>2 DEF Process
  <2> HIDE DEF f
  <2>4. /\ DOMAIN listProcess' = DOMAIN listProcess
        /\ \A k \in DOMAIN listProcess : listProcess'[k].pid = listProcess[k].pid
    BY <1>0, <2>1, <2>3
  <2> QED
    BY <2>1, <2>4 DEF RunningAgentsAreListed
<1>6. CASE RestartProcess
  <2> DEFINE e == listProcess[i]
  <2>1. i <= Len(listProcess) /\ Gone(e) /\ Restart(e)
    BY <1>6 DEF RestartProcess
  <2>2. i \in DOMAIN listProcess /\ e \in Process
    BY <1>0, <2>1
  <2>3. PICK p \in Pids :
          /\ ForkAgent(p, e.name, e.ver)
          /\ listProcess' = [listProcess EXCEPT ![i] =
               [e EXCEPT !.pid = p,
                         !.status = IF e.type = 1 /\ @ = 0 THEN 1 ELSE @]]
          /\ Note(Reuse(p, i))
    BY <2>1 DEF Restart
  <2> DEFINE f == [e EXCEPT !.pid = p,
                            !.status = IF e.type = 1 /\ @ = 0 THEN 1 ELSE @]
  <2>4. f.pid = p
    BY <2>2 DEF Process
  <2>5. listProcess' = [listProcess EXCEPT ![i] = f]
    BY <2>3
  <2> HIDE DEF f
  <2>6. /\ DOMAIN listProcess' = DOMAIN listProcess /\ listProcess'[i].pid = p
        /\ \A k \in DOMAIN listProcess : k # i => listProcess'[k] = listProcess[k]
    BY <1>0, <2>2, <2>4, <2>5
  <2>7. \A q \in Pids : st'[q] = "run" => q = p \/ (st[q] = "run" /\ q # e.pid)
    BY <1>0, <2>1, <2>3 DEF ForkAgent, Gone
  <2>8. incidents \subseteq incidents'
    BY <2>3 DEF Note
  <2> QED
    BY <2>2, <2>6, <2>7, <2>8 DEF RunningAgentsAreListed
<1>7. CASE StartNew
  <2>1. Head(libNew) \in Lib
    BY <1>7, HeadTailProperties DEF StartNew, TypeOK, ControlInv, At
  <2> QED
    BY <1>7, <2>1, ListedAfterPush DEF StartNew, Note
<1>8. CASE Swap
  <2> DEFINE p == listProcess[i].pid
             r == RemoveIndex(listProcess, i)
  <2>1. /\ i <= Len(listProcess) /\ listProcess' = r /\ incidents' = incidents
        /\ st' = [st EXCEPT ![p] = Terminated(p)]
    BY <1>8 DEF Swap, Replace, At, ControlInv
  <2>2. /\ r \in Seq(Process) /\ Len(r) = Len(listProcess) - 1
        /\ \A k \in 1 .. Len(listProcess) : k < i => r[k] = listProcess[k]
        /\ \A k \in 1 .. Len(listProcess) : k > i => r[k - 1] = listProcess[k]
    BY <1>0, <2>1, RemoveIndexProperties
  <2>3. Terminated(p) # "run"
    BY <1>0 DEF Terminated, Helping
  <2> HIDE DEF p, r
  <2>4. \A q \in Pids : st'[q] = "run" => st[q] = "run" /\ q # p
    BY <1>0, <2>1, <2>3
  <2>5. \A k \in DOMAIN listProcess : k # i => \E j \in DOMAIN r : r[j] = listProcess[k]
    <3> SUFFICES ASSUME NEW k \in DOMAIN listProcess, k # i
                 PROVE  \E j \in DOMAIN r : r[j] = listProcess[k]
      OBVIOUS
    <3>1. k \in 1 .. Len(listProcess) /\ DOMAIN r = 1 .. Len(listProcess) - 1
      BY <1>0, <2>2
    <3>2. CASE k < i
      BY <1>0, <2>1, <2>2, <3>1, <3>2
    <3>3. CASE k > i
      <4>1. k - 1 \in DOMAIN r /\ r[k - 1] = listProcess[k]
        BY <1>0, <2>1, <2>2, <3>1, <3>3
      <4> QED
        BY <4>1
    <3> QED
      BY <1>0, <3>1, <3>2, <3>3
  <2> QED
    BY <2>1, <2>4, <2>5 DEF RunningAgentsAreListed, p
<1>9. CASE Update
  <2>1. \A q \in Pids : st'[q] = "run" => st[q] = "run"
    BY <1>0, <1>9 DEF Update
  <2> QED
    BY <1>1, <1>9, <2>1 DEF Update, Note
<1>10. CASE Fetch
  <2>1. \A q \in Pids : st'[q] = "run" => st[q] = "run"
    BY <1>0, <1>10 DEF Fetch
  <2> QED
    BY <1>1, <1>10, <2>1 DEF Fetch
<1>11. CASE StartDone \/ KeepProcess \/ StateDone \/ Open \/ WakeUp \/ CheckNew
            \/ ScanOverflows \/ Ping \/ RpcFails \/ UpToDate \/ UpdateDone \/ FetchRefused
  <2>1. listProcess' = listProcess /\ st' = st
    BY <1>11, Zenon DEF StartDone, KeepProcess, StateDone, Open, WakeUp,
       CheckNew, ScanOverflows, Ping, RpcFails, UpToDate, UpdateDone, FetchRefused, os
  <2>2. incidents \subseteq incidents'
    BY <1>11, Zenon DEF StartDone, KeepProcess, StateDone, Open, WakeUp,
       CheckNew, ScanOverflows, Ping, RpcFails, UpToDate, UpdateDone, FetchRefused, Note
  <2> QED
    BY <1>1, <2>1, <2>2
<1>12. CASE Deliver \/ Reap
  <2>1. \A q \in Pids : st'[q] = "run" => st[q] = "run"
    BY <1>0, <1>12 DEF Deliver, Reap
  <2> QED
    BY <1>1, <1>12, <2>1 DEF Deliver, Reap
<1>13. ASSUME NEW p \in Pids, Children(p) PROVE RunningAgentsAreListed'
  <2>1. \A q \in Pids : st'[q] = "run" => st[q] = "run"
    BY <1>0, <1>13 DEF Children, AgentExit, HelperCalls, HelperFails, HelperRemoves, ChildEnds
  <2>2. listProcess' = listProcess /\ incidents \subseteq incidents'
    BY <1>13 DEF Children, AgentExit, HelperCalls, HelperFails, HelperRemoves, ChildEnds, Note
  <2> QED
    BY <1>1, <2>1, <2>2
<1>14. CASE World
  <2>1. \A q \in Pids : st'[q] = "run" => st[q] = "run"
    BY <1>0, <1>14 DEF World, AlienExit, Publish, Install, Tick, os
  <2>2. listProcess' = listProcess /\ incidents' = incidents
    BY <1>14 DEF World, AlienExit, Publish, Install, Tick
  <2> QED
    BY <1>1, <2>1, <2>2
<1>15. CASE UNCHANGED vars
  BY <1>1, <1>15 DEF vars, os
<1> QED
  BY <1>2, <1>3, <1>4, <1>5, <1>6, <1>7, <1>8, <1>9, <1>10, <1>11, <1>12, <1>13, <1>14, <1>15, Zenon
  DEF Next, Unsupervised, Master

\* Every running agent is in listProcess as long as no fork has failed,
\* through starts, restarts, reaping, pid reuse and the erase of update; a
\* failed fork pops a live process (agentmaster.cpp:293 and :327), which is
\* why the property excludes it.
THEOREM AgentRunningListed == Spec => []RunningAgentsAreListed
<1>1. Init => RunningAgentsAreListed
  BY InitTypeOK DEF Init, RunningAgentsAreListed, ControlInv
<1>2. TypeOK /\ ControlInv /\ RunningAgentsAreListed /\ [Next]_vars => RunningAgentsAreListed'
  BY ListedStep
<1> QED
  BY <1>1, <1>2, AgentTypeOK, PTL DEF Spec

-----------------------------------------------------------------------------
(* Agents are accounted for.                                               *)

\* History: an incident is never forgotten.
LEMMA IncidentsGrow == [Next]_vars => incidents \subseteq incidents'
<1> SUFFICES ASSUME [Next]_vars PROVE incidents \subseteq incidents'
  OBVIOUS
<1>1. CASE Master
  BY <1>1 DEF Master, Boot, StartLib, StartDone, ForkFails, KeepProcess, MarkDead,
     RestartProcess, Restart, StateDone, Open, WakeUp, CheckNew, ScanOverflows, StartNew, Ping,
     RpcFails, UpToDate, Update, UpdateDone, Fetch, FetchRefused, Swap, Replace, Note
<1>2. CASE Deliver \/ Reap
  BY <1>2 DEF Deliver, Reap
<1>3. ASSUME NEW p \in Pids, Children(p) PROVE incidents \subseteq incidents'
  BY <1>3 DEF Children, AgentExit, HelperCalls, HelperFails, HelperRemoves, ChildEnds, Note
<1>4. CASE World
  BY <1>4 DEF World, AlienExit, Publish, Install, Tick
<1>5. CASE UNCHANGED vars
  BY <1>5 DEF vars
<1> QED
  BY <1>1, <1>2, <1>3, <1>4, <1>5 DEF Next, Unsupervised

Zombies == {p \in Pids : st[p] = "zombie"}

\* The inductive form of ZombiesAreAnnounced: without a merged signal the
\* zombies are finitely many, and counted by the signal state.
ZombieInv ==
  "merged" \notin incidents =>
    IsFiniteSet(Zombies) /\ Cardinality(Zombies) = B2N(sigchld) + B2N(inHandler)

\* B2N of the two values of a flag.
LEMMA B2NValues == \A x \in BOOLEAN : (x => B2N(x) = 1) /\ (~x => B2N(x) = 0)
BY DEF B2N

\* ZombieInv is preserved by every step: an exit that is not merged raises
\* the signal for its zombie, and the handler takes one zombie per signal.
LEMMA ZombieStep ==
  ASSUME TypeOK, ControlInv, ZombieInv, [Next]_vars
  PROVE  ZombieInv'
<1> SUFFICES ASSUME "merged" \notin incidents'
             PROVE  (IsFiniteSet(Zombies) /\ Cardinality(Zombies) = B2N(sigchld) + B2N(inHandler))'
  BY DEF ZombieInv
<1>0. /\ IsFiniteSet(Zombies) /\ Cardinality(Zombies) = B2N(sigchld) + B2N(inHandler)
      /\ st \in [Pids -> PidStates]
  BY IncidentsGrow DEF ZombieInv, TypeOK
<1>00. sigchld \in BOOLEAN /\ inHandler \in BOOLEAN
  BY Zenon DEF TypeOK
<1>1. CASE Master \/ World \/ (\E p \in Pids : HelperCalls(p))
  <2>1. /\ sigchld' = sigchld /\ inHandler' = inHandler
        /\ \A q \in Pids : st[q] = "zombie" <=> st'[q] = "zombie"
    BY <1>1, ZombiesKept
  <2>2. Zombies' = Zombies
    BY <2>1 DEF Zombies
  <2> QED
    BY <1>0, <2>1, <2>2
<1>2. CASE Deliver
  <2>1. /\ sigchld /\ ~inHandler /\ ~sigchld' /\ inHandler' /\ st' = st
        /\ sigchld' \in BOOLEAN /\ inHandler' \in BOOLEAN
    BY <1>2, Zenon DEF Deliver
  <2>2. Zombies' = Zombies
    BY <2>1 DEF Zombies
  <2>3. B2N(sigchld) = 1 /\ B2N(inHandler) = 0 /\ B2N(sigchld') = 0 /\ B2N(inHandler') = 1
    BY <1>00, <2>1, B2NValues, Zenon
  <2> QED
    BY <1>0, <2>2, <2>3
<1>3. CASE Reap
  <2>1. PICK p \in Pids : st[p] = "zombie" /\ st' = [st EXCEPT ![p] = "free"]
    BY <1>3 DEF Reap
  <2>2. Zombies' = Zombies \ {p} /\ p \in Zombies
    BY <1>0, <2>1 DEF Zombies
  <2>3. inHandler /\ ~inHandler' /\ sigchld' = sigchld /\ inHandler' \in BOOLEAN
    BY <1>3, Zenon DEF Reap
  <2>4. B2N(inHandler) = 1 /\ B2N(inHandler') = 0 /\ B2N(sigchld') = B2N(sigchld)
    BY <1>00, <2>3, B2NValues, Zenon
  <2>5. B2N(sigchld) \in Nat
    BY <1>00 DEF B2N
  <2>6. IsFiniteSet(Zombies \ {p}) /\ Cardinality(Zombies \ {p}) = Cardinality(Zombies) - 1
    BY <1>0, <2>2, FS_RemoveElement
  <2> QED
    BY <1>0, <2>2, <2>4, <2>5, <2>6
<1>4. ASSUME NEW p \in Pids, AgentExit(p) \/ HelperFails(p) \/ HelperRemoves(p)
      PROVE  (IsFiniteSet(Zombies) /\ Cardinality(Zombies) = B2N(sigchld) + B2N(inHandler))'
  <2>1. st[p] # "zombie" /\ ChildEnds(p)
    BY <1>4 DEF AgentExit, HelperFails, HelperRemoves
  <2>2. ~sigchld
    BY <2>1 DEF ChildEnds, Note
  <2>3. sigchld' /\ sigchld' \in BOOLEAN /\ inHandler' = inHandler
    BY <2>1, Zenon DEF ChildEnds
  <2>4. st' = [st EXCEPT ![p] = "zombie"]
    BY <2>1 DEF ChildEnds
  <2>5. Zombies' = Zombies \cup {p} /\ p \notin Zombies
    BY <1>0, <2>1, <2>4 DEF Zombies
  <2>6. B2N(sigchld) = 0 /\ B2N(sigchld') = 1 /\ B2N(inHandler') = B2N(inHandler)
    BY <1>00, <2>2, <2>3, B2NValues, Zenon
  <2>7. B2N(inHandler) \in Nat
    BY <1>00 DEF B2N
  <2>8. IsFiniteSet(Zombies \cup {p}) /\ Cardinality(Zombies \cup {p}) = Cardinality(Zombies) + 1
    BY <1>0, <2>5, FS_AddElement
  <2> QED
    BY <1>0, <2>5, <2>6, <2>7, <2>8
<1>5. CASE UNCHANGED vars
  <2>1. Zombies' = Zombies /\ sigchld' = sigchld /\ inHandler' = inHandler
    BY <1>5 DEF vars, os, Zombies
  <2> QED
    BY <1>0, <2>1
<1> QED
  BY <1>1, <1>2, <1>3, <1>4, <1>5, Zenon DEF Next, Unsupervised, Children

\* At the start nobody has ended.
LEMMA InitZombies == Init => ZombieInv
<1> SUFFICES ASSUME Init PROVE ZombieInv
  OBVIOUS
<1>1. \A p \in Pids : st[p] # "zombie"
  BY DEF Init
<1>2. Zombies = {}
  BY <1>1 DEF Zombies
<1>3. B2N(sigchld) = 0 /\ B2N(inHandler) = 0
  BY DEF Init, B2N
<1> QED
  BY <1>2, <1>3, FS_EmptySet DEF ZombieInv

\* As long as no two exits shared one SIGCHLD, the zombies are exactly those
\* that a pending or a running handler stands for, so none is left for
\* checkState to mistake for a live agent.
THEOREM AgentZombiesAnnounced == Spec => []ZombiesAreAnnounced
<1>1. Init => ZombieInv
  BY InitZombies
<1>2. TypeOK /\ ControlInv /\ ZombieInv /\ [Next]_vars => ZombieInv'
  BY ZombieStep
<1>3. ZombieInv => ZombiesAreAnnounced
  BY DEF ZombieInv, ZombiesAreAnnounced, Zombies
<1> QED
  BY <1>1, <1>2, <1>3, AgentTypeOK, PTL DEF Spec

\* The log was written by a master that had one agent per library name.
LogsNameLibrariesOnce ==
  \A g \in Logs : \A j, k \in DOMAIN g : g[j].name = g[k].name => j = k

\* No name occurs twice in a list.
NameOnce(s) == \A j, k \in DOMAIN s : s[j].name = s[k].name => j = k

\* The process with pid p is entry k of a list, under the name of its library.
ListedAs(s, p, k) == k \in DOMAIN s /\ s[k].pid = p /\ s[k].name = img[p][1]

\* In the shipped build: without a log no process of an earlier master is
\* known; with one, the master only checks the entries it read, each name is
\* listed once, and every survivor and every agent is one of the entries.
SurvivorInv ==
  /\ log = << >> => \A p \in Pids : st[p] # "alien"
  /\ log # << >> =>
       /\ ret # "new" /\ pc \in {"boot", "state", "exit"}
       /\ pc = "boot" => \A p \in Pids : st[p] = "alien" => \E k : ListedAs(log, p, k)
       /\ pc # "boot" =>
            /\ NameOnce(listProcess)
            /\ \A p \in Pids : st[p] \in {"alien", "run"} =>
                 \E k : ListedAs(listProcess, p, k)

\* The log is never written by a step, and no step makes a process alien.
LEMMA NoNewAliens ==
  ASSUME TypeOK, [Next]_vars
  PROVE  log' = log /\ \A p \in Pids : st'[p] = "alien" => st[p] = "alien"
<1>0. st \in [Pids -> PidStates]
  BY DEF TypeOK
<1> DEFINE Goal == log' = log /\ \A p \in Pids : st'[p] = "alien" => st[p] = "alien"
<1>1. ASSUME NEW p, NEW x, x # "alien", st' = [st EXCEPT ![p] = x], log' = log
      PROVE  Goal
  BY <1>0, <1>1
<1>2. ASSUME NEW p \in Pids, NEW n, NEW v, ForkAgent(p, n, v), log' = log
      PROVE  Goal
  BY <1>1, <1>2 DEF ForkAgent
<1>3. CASE StartLib \/ RestartProcess \/ StartNew
  <2>1. (\E p \in Pids : \E n, v : ForkAgent(p, n, v)) /\ log' = log
    BY <1>3, Zenon DEF StartLib, RestartProcess, Restart, StartNew, disk
  <2> QED
    BY <1>2, <2>1
<1>4. CASE Swap
  <2>1. Terminated(listProcess[i].pid) # "alien"
    BY DEF Terminated, Helping
  <2>2. st' = [st EXCEPT ![listProcess[i].pid] = Terminated(listProcess[i].pid)] /\ log' = log
    BY <1>4 DEF Swap, Replace, disk
  <2> QED
    BY <1>1, <2>1, <2>2
<1>5. CASE Update
  BY <1>0, <1>5 DEF Update, disk
<1>6. CASE Fetch
  BY <1>0, <1>6 DEF Fetch
<1>7. CASE Boot \/ StartDone \/ ForkFails \/ KeepProcess \/ MarkDead \/ StateDone
            \/ Open \/ WakeUp \/ CheckNew \/ ScanOverflows \/ Ping \/ RpcFails
            \/ UpToDate \/ UpdateDone \/ FetchRefused
  <2>1. st' = st /\ log' = log
    BY <1>7, Zenon DEF Boot, StartDone, ForkFails, KeepProcess, MarkDead, StateDone, Open, WakeUp,
       CheckNew, ScanOverflows, Ping, RpcFails, UpToDate, UpdateDone, FetchRefused, os, disk
  <2> QED
    BY <2>1
<1>8. CASE Deliver \/ Reap
  BY <1>0, <1>8 DEF Deliver, Reap, disk
<1>9. ASSUME NEW p \in Pids, Children(p) PROVE Goal
  BY <1>0, <1>9 DEF Children, AgentExit, HelperCalls, HelperFails, HelperRemoves, ChildEnds, disk
<1>10. CASE World
  BY <1>0, <1>10 DEF World, AlienExit, Publish, Install, Tick, os, disk
<1>11. CASE UNCHANGED vars
  BY <1>11 DEF vars, os, disk
<1> QED
  BY <1>3, <1>4, <1>5, <1>6, <1>7, <1>8, <1>9, <1>10, <1>11, Zenon DEF Next, Unsupervised, Master

\* checkState rewrites only the entry it looks at, and neither the name, the
\* version nor the type in it.
LEMMA EntryRewritten ==
  ASSUME TypeOK, MarkDead \/ RestartProcess
  PROVE  /\ i \in DOMAIN listProcess
         /\ \E x \in Process :
              /\ listProcess' = [listProcess EXCEPT ![i] = x]
              /\ x.name = listProcess[i].name /\ x.ver = listProcess[i].ver
              /\ x.type = listProcess[i].type /\ x.status \in {0, 1, listProcess[i].status}
<1>0. listProcess \in Seq(Process) /\ i \in Nat \ {0} /\ now \in Nat
  BY DEF TypeOK
<1>1. i \in DOMAIN listProcess
  BY <1>0 DEF MarkDead, RestartProcess
<1> DEFINE e == listProcess[i]
<1>2. e \in Process
  BY <1>0, <1>1
<1>3. CASE MarkDead
  <2> DEFINE x == [e EXCEPT !.status = 0, !.death = IF e.type = 1 THEN now ELSE @]
  <2>1. x \in Process
    BY <1>0, <1>2, MarkedType
  <2>2. x.name = e.name /\ x.ver = e.ver /\ x.type = e.type /\ x.status = 0
    BY <1>2 DEF Process
  <2>3. listProcess' = [listProcess EXCEPT ![i] = x]
    BY <1>3 DEF MarkDead
  <2> HIDE DEF x
  <2> QED
    BY <1>1, <2>1, <2>2, <2>3
<1>4. CASE RestartProcess
  <2>1. PICK p \in Pids : listProcess' = [listProcess EXCEPT ![i] =
               [e EXCEPT !.pid = p,
                         !.status = IF e.type = 1 /\ @ = 0 THEN 1 ELSE @]]
    BY <1>4 DEF RestartProcess, Restart
  <2> DEFINE s == IF e.type = 1 /\ e.status = 0 THEN 1 ELSE e.status
             x == [e EXCEPT !.pid = p, !.status = s]
  <2>2. s \in 0 .. 2 /\ s \in {0, 1, e.status}
    BY <1>2 DEF Process
  <2>3. listProcess' = [listProcess EXCEPT ![i] = x]
    BY <2>1
  <2> HIDE DEF s
  <2>4. x \in Process /\ x.name = e.name /\ x.ver = e.ver /\ x.type = e.type /\ x.status = s
    BY <1>2, <2>2 DEF Process
  <2> HIDE DEF x
  <2> QED
    BY <1>1, <2>2, <2>3, <2>4
<1> QED
  BY <1>3, <1>4

\* A step that leaves the list of processes and the control point alone and
\* starts nothing keeps the survivors listed.
LEMMA SurvivorsStay ==
  ASSUME SurvivorInv, log # << >>, UNCHANGED <<log, listProcess, pc, ret>>,
         \A p \in Pids : st'[p] \in {"alien", "run"} => st'[p] = st[p] /\ img'[p] = img[p]
  PROVE  SurvivorInv'
BY DEF SurvivorInv, ListedAs, NameOnce

\* SurvivorInv is preserved by every step of the shipped build.
LEMMA SurvivorStep ==
  ASSUME ~ServiceLoop, LogsNameLibrariesOnce, TypeOK, ControlInv, SurvivorInv, [Next]_vars
  PROVE  SurvivorInv'
<1>0. /\ st \in [Pids -> PidStates] /\ img \in [Pids -> Libs \cup {NoLib}]
      /\ listProcess \in Seq(Process) /\ i \in Nat \ {0} /\ log \in Logs
  BY DEF TypeOK
<1>1. log' = log /\ \A p \in Pids : st'[p] = "alien" => st[p] = "alien"
  BY NoNewAliens
<1>2. CASE log = << >>
  BY <1>1, <1>2 DEF SurvivorInv
<1>3. CASE log # << >>
  <2>0. ret # "new" /\ pc \in {"boot", "state", "exit"}
    BY <1>3 DEF SurvivorInv
  <2>1. CASE Boot
    <3>1. PICK g \in [DOMAIN log -> Garbage] : listProcess' = readLog(g)
      BY <2>1 DEF Boot
    <3>2. /\ DOMAIN listProcess' = DOMAIN log
          /\ \A k \in DOMAIN log : listProcess'[k].pid = log[k].pid
                                   /\ listProcess'[k].name = log[k].name
      BY <3>1 DEF readLog
    <3>3. /\ pc = "boot" /\ pc' = "state" /\ st' = st /\ img' = img /\ ret' = ret
      BY <1>3, <2>1 DEF Boot, At, os, local
    <3>4. NameOnce(listProcess')
      BY <1>0, <3>2 DEF NameOnce, LogsNameLibrariesOnce
    <3>5. \A p \in Pids : st'[p] # "run"
      BY <3>3 DEF ControlInv
    <3>6. ASSUME NEW p \in Pids, st'[p] = "alien"
          PROVE  \E k : ListedAs(listProcess, p, k)'
      <4>1. PICK k : ListedAs(log, p, k)
        BY <1>3, <3>3, <3>6 DEF SurvivorInv
      <4>2. ListedAs(listProcess, p, k)'
        BY <3>2, <3>3, <4>1 DEF ListedAs
      <4> QED
        BY <4>2
    <3> QED
      BY <1>1, <1>3, <2>0, <3>3, <3>4, <3>5, <3>6 DEF SurvivorInv, NameOnce
  <2>2. CASE MarkDead \/ RestartProcess
    <3>1. /\ pc = "state" /\ pc' = pc /\ ret' = ret /\ i <= Len(listProcess)
      BY <2>2 DEF MarkDead, RestartProcess, Restart, At, local
    <3>2. /\ DOMAIN listProcess' = DOMAIN listProcess /\ i \in DOMAIN listProcess
          /\ \A k \in DOMAIN listProcess : k # i => listProcess'[k] = listProcess[k]
      BY <1>0, <2>2, EntryRewritten
    <3> DEFINE e == listProcess[i]
    <3>3. e \in Process
      BY <1>0, <3>2
    <3>4. listProcess'[i].name = e.name
      BY <1>0, <2>2, <3>2, EntryRewritten
    <3>5. NameOnce(listProcess')
      <4>1. NameOnce(listProcess)
        BY <1>3, <3>1 DEF SurvivorInv
      <4>2. \A k \in DOMAIN listProcess : listProcess'[k].name = listProcess[k].name
        BY <3>2, <3>4
      <4> QED
        BY <3>2, <4>1, <4>2 DEF NameOnce
    <3>6. st[e.pid] = "free"
      BY <2>2 DEF MarkDead, RestartProcess, Gone
    <3>7. ASSUME NEW p \in Pids, st[p] \in {"alien", "run"}
          PROVE  \E k : k # i /\ ListedAs(listProcess, p, k)
      <4>1. PICK k : ListedAs(listProcess, p, k)
        BY <1>3, <3>1, <3>7 DEF SurvivorInv
      <4>2. k # i
        BY <3>6, <3>7, <4>1 DEF ListedAs
      <4> QED
        BY <4>1, <4>2
    <3>8. \A p \in Pids : \A k : k # i /\ ListedAs(listProcess, p, k) /\ img'[p] = img[p]
                                 => ListedAs(listProcess, p, k)'
      BY <3>2 DEF ListedAs
    <3>9. CASE MarkDead
      <4>1. st' = st /\ img' = img
        BY <3>9 DEF MarkDead, os
      <4>2. \A p \in Pids : st'[p] \in {"alien", "run"} => \E k : ListedAs(listProcess, p, k)'
        BY <3>7, <3>8, <4>1
      <4> QED
        BY <1>1, <1>3, <2>0, <3>1, <3>5, <4>2 DEF SurvivorInv, NameOnce
    <3>10. CASE RestartProcess
      <4>1. PICK p \in Pids :
              /\ ForkAgent(p, e.name, e.ver)
              /\ listProcess' = [listProcess EXCEPT ![i] =
                   [e EXCEPT !.pid = p,
                             !.status = IF e.type = 1 /\ @ = 0 THEN 1 ELSE @]]
        BY <3>10 DEF RestartProcess, Restart
      <4>2. /\ st' = [st EXCEPT ![p] = "run"] /\ img' = [img EXCEPT ![p] = <<e.name, e.ver>>]
            /\ st[p] = "free"
        BY <4>1 DEF ForkAgent
      <4>3. listProcess'[i].pid = p
        BY <1>0, <3>2, <3>3, <4>1 DEF Process
      <4>4. img'[p][1] = e.name
        <5>1. img'[p] = <<e.name, e.ver>>
          BY <1>0, <4>2
        <5> QED
          BY <5>1
      <4>5. \E k : ListedAs(listProcess, p, k)'
        <5>1. PICK k : k = i
          OBVIOUS
        <5>2. ListedAs(listProcess, p, k)'
          BY <3>2, <3>4, <4>3, <4>4, <5>1 DEF ListedAs
        <5> QED
          BY <5>2
      <4>6. ASSUME NEW q \in Pids, q # p, st'[q] \in {"alien", "run"}
            PROVE  \E k : ListedAs(listProcess, q, k)'
        <5>1. st[q] \in {"alien", "run"} /\ img'[q] = img[q]
          BY <1>0, <4>2, <4>6
        <5> QED
          BY <3>7, <3>8, <5>1
      <4>7. \A q \in Pids : st'[q] \in {"alien", "run"} => \E k : ListedAs(listProcess, q, k)'
        BY <4>5, <4>6
      <4> QED
        BY <1>1, <1>3, <2>0, <3>1, <3>5, <4>7 DEF SurvivorInv, NameOnce
    <3> QED
      BY <2>2, <3>9, <3>10
  <2>3. CASE StateDone
    <3>1. /\ pc = "state" /\ pc' = "exit" /\ ret' = "ping"
          /\ st' = st /\ img' = img /\ listProcess' = listProcess
      BY <2>0, <2>3 DEF StateDone, At, os
    <3> QED
      BY <1>1, <1>3, <3>1 DEF SurvivorInv, ListedAs, NameOnce
  <2>4. CASE KeepProcess
    BY <1>3, <2>4, SurvivorsStay DEF KeepProcess, os, disk, local
  <2>5. CASE Deliver \/ Reap
    <3>1. /\ UNCHANGED <<log, listProcess, pc, ret>>
          /\ \A p \in Pids : st'[p] \in {"alien", "run"} => st'[p] = st[p] /\ img'[p] = img[p]
      BY <1>0, <2>5 DEF Deliver, Reap, disk, local
    <3> QED
      BY <1>3, <3>1, SurvivorsStay
  <2>6. ASSUME NEW p \in Pids, Children(p) PROVE SurvivorInv'
    <3>1. /\ UNCHANGED <<log, listProcess, pc, ret>>
          /\ \A q \in Pids : st'[q] \in {"alien", "run"} => st'[q] = st[q] /\ img'[q] = img[q]
      BY <1>0, <2>6 DEF Children, AgentExit, HelperCalls, HelperFails, HelperRemoves, ChildEnds,
         disk, local
    <3> QED
      BY <1>3, <3>1, SurvivorsStay
  <2>7. CASE World
    <3>1. /\ UNCHANGED <<log, listProcess, pc, ret>>
          /\ \A q \in Pids : st'[q] \in {"alien", "run"} => st'[q] = st[q] /\ img'[q] = img[q]
      BY <1>0, <2>7 DEF World, AlienExit, Publish, Install, Tick, os, disk, local
    <3> QED
      BY <1>3, <3>1, SurvivorsStay
  <2>8. CASE UNCHANGED vars
    BY <1>3, <2>8, SurvivorsStay DEF vars, os, disk, local
  <2>9. ~StartLib /\ ~StartDone /\ ~ForkFails /\ ~Open /\ ~WakeUp /\ ~CheckNew
        /\ ~ScanOverflows /\ ~StartNew /\ ~Ping /\ ~RpcFails /\ ~UpToDate /\ ~Update
        /\ ~UpdateDone /\ ~Fetch /\ ~FetchRefused /\ ~Swap
    BY <2>0 DEF StartLib, StartDone, ForkFails, Open, WakeUp, CheckNew, ScanOverflows, StartNew,
       Ping, RpcFails, UpToDate, Update, UpdateDone, Fetch, FetchRefused, Swap, At
  <2> QED
    BY <2>1, <2>2, <2>3, <2>4, <2>5, <2>6, <2>7, <2>8, <2>9, Zenon DEF Next, Unsupervised, Master
<1> QED
  BY <1>2, <1>3

\* At the start every process of an earlier master is one the log names.
LEMMA InitSurvivors == Init => SurvivorInv
<1> SUFFICES ASSUME Init PROVE SurvivorInv
  OBVIOUS
<1>1. PICK A \in SUBSET DOMAIN log :
        LET old == {log[k].pid : k \in A} IN
        /\ st = [p \in Pids |-> IF p \in old THEN "alien" ELSE "free"]
        /\ img = [p \in Pids |-> IF p \in old
                   THEN LET k == CHOOSE k \in A : log[k].pid = p
                        IN <<log[k].name, log[k].ver>>
                   ELSE NoLib]
  BY DEF Init
<1>2. pc = "boot" /\ ret = "idle"
  BY DEF Init
<1>3. ASSUME NEW p \in Pids, st[p] = "alien" PROVE \E k \in A : ListedAs(log, p, k)
  <2> DEFINE c == CHOOSE k \in A : log[k].pid = p
  <2>1. p \in {log[k].pid : k \in A}
    BY <1>1, <1>3
  <2>2. c \in A /\ log[c].pid = p
    BY <2>1
  <2>3. img[p] = <<log[c].name, log[c].ver>>
    BY <1>1, <2>1
  <2> HIDE DEF c
  <2> QED
    BY <2>2, <2>3 DEF ListedAs
<1>4. log = << >> => A = {}
  OBVIOUS
<1> QED
  BY <1>2, <1>3, <1>4 DEF SurvivorInv

\* The shipped build accounts for every process of an agent: a zombie is
\* announced unless signals merged, and a master started from a log that
\* names each library once never starts a second copy of a survivor.
THEOREM AgentAccounting ==
  ASSUME ~ServiceLoop, LogsNameLibrariesOnce
  PROVE  Spec => []AgentsAccountedFor
<1>1. Init => ZombieInv /\ SurvivorInv
  BY InitZombies, InitSurvivors
<1>2. /\ TypeOK /\ ControlInv /\ ZombieInv /\ SurvivorInv /\ [Next]_vars
      => ZombieInv' /\ SurvivorInv'
  BY ZombieStep, SurvivorStep
<1>3. ControlInv /\ ZombieInv /\ SurvivorInv => AgentsAccountedFor
  <2> SUFFICES ASSUME ControlInv, ZombieInv, SurvivorInv PROVE AgentsAccountedFor
    OBVIOUS
  <2>1. ZombiesAreAnnounced
    BY DEF ZombieInv, ZombiesAreAnnounced, Zombies
  <2>2. ASSUME NEW p \in Pids, NEW q \in Pids, st[p] = "alien", st[q] = "run",
               img[p][1] = img[q][1]
        PROVE  FALSE
    <3>1. log # << >> /\ pc # "boot"
      BY <2>2 DEF SurvivorInv, ControlInv
    <3>2. /\ \E k : ListedAs(listProcess, p, k)
          /\ \E k : ListedAs(listProcess, q, k)
          /\ NameOnce(listProcess)
      BY <2>2, <3>1 DEF SurvivorInv
    <3> QED
      BY <2>2, <3>2 DEF ListedAs, NameOnce
  <2> QED
    BY <2>1, <2>2 DEF AgentsAccountedFor, SurvivorsAreNotDuplicated
<1> QED
  BY <1>1, <1>2, <1>3, AgentTypeOK, PTL DEF Spec

-----------------------------------------------------------------------------
(* update terminates its own agent.                                        *)

\* As long as no listed pid was reused and the master has no log: the pid of
\* an entry is unused or still stands for the library of the entry.
Owned(e) == st[e.pid] = "free" \/ img[e.pid] = <<e.name, e.ver>>
OwnInv ==
  incidents \cap {"reused", "restored"} = {} =>
    \A k \in DOMAIN listProcess : Owned(listProcess[k])

\* A pid that no entry outside n has is one that fork did not reuse.
LEMMA NotReused ==
  ASSUME NEW p, NEW n, "reused" \notin Reuse(p, n)
  PROVE  \A k \in DOMAIN listProcess \ {n} : listProcess[k].pid # p
BY DEF Reuse

\* Pushing the process of a fork, as startAll and checkNew do.
LEMMA OwnedAfterPush ==
  ASSUME TypeOK, OwnInv, NEW p \in Pids, NEW l \in Lib,
         ForkAgent(p, l.name, l.ver),
         listProcess' = Append(listProcess, ProcessOf(l, p)),
         Note(Reuse(p, 0))
  PROVE  OwnInv'
<1> SUFFICES ASSUME incidents' \cap {"reused", "restored"} = {},
                    NEW k \in DOMAIN listProcess'
             PROVE  Owned(listProcess[k])'
  BY DEF OwnInv
<1> DEFINE e == ProcessOf(l, p)
<1>1. e \in Process /\ e.pid = p /\ e.name = l.name /\ e.ver = l.ver
  BY ProcessOfType DEF ProcessOf
<1> HIDE DEF e
<1>2. /\ listProcess \in Seq(Process) /\ st \in [Pids -> PidStates]
      /\ img \in [Pids -> Libs \cup {NoLib}]
  BY DEF TypeOK
<1>3. /\ listProcess' \in Seq(Process) /\ Len(listProcess') = Len(listProcess) + 1
      /\ listProcess'[Len(listProcess) + 1] = e
      /\ \A j \in 1 .. Len(listProcess) : listProcess'[j] = listProcess[j]
  BY <1>1, <1>2, AppendProperties DEF e
<1>4. k = Len(listProcess) + 1 \/ (k \in DOMAIN listProcess /\ listProcess'[k] = listProcess[k])
  BY <1>2, <1>3
<1>5. /\ st' = [st EXCEPT ![p] = "run"] /\ img' = [img EXCEPT ![p] = <<l.name, l.ver>>]
  BY DEF ForkAgent
<1>6. CASE k = Len(listProcess) + 1
  <2>1. img'[p] = <<l.name, l.ver>>
    BY <1>2, <1>5
  <2> QED
    BY <1>1, <1>3, <1>6, <2>1 DEF Owned
<1>7. CASE k \in DOMAIN listProcess /\ listProcess'[k] = listProcess[k]
  <2>1. Owned(listProcess[k])
    BY <1>7 DEF OwnInv, Note
  <2>2. listProcess[k].pid # p
    <3>1. k \in DOMAIN listProcess \ {0}
      BY <1>2, <1>7
    <3>2. "reused" \notin Reuse(p, 0)
      BY DEF Note
    <3> QED
      BY <3>1, <3>2, NotReused
  <2>3. listProcess[k].pid \in Pids
    <3>1. listProcess[k] \in Process
      BY <1>2, <1>7
    <3> QED
      BY <3>1 DEF Process
  <2>4. st'[listProcess[k].pid] = st[listProcess[k].pid]
        /\ img'[listProcess[k].pid] = img[listProcess[k].pid]
    BY <1>2, <1>5, <2>2, <2>3
  <2> QED
    BY <1>7, <2>1, <2>4 DEF Owned
<1> QED
  BY <1>4, <1>6, <1>7

\* OwnInv is preserved by every step.
LEMMA OwnStep ==
  ASSUME TypeOK, ControlInv, OwnInv, [Next]_vars
  PROVE  OwnInv'
<1>0. /\ st \in [Pids -> PidStates] /\ img \in [Pids -> Libs \cup {NoLib}]
      /\ listProcess \in Seq(Process) /\ i \in Nat \ {0}
  BY DEF TypeOK
<1>00. \A k \in DOMAIN listProcess : listProcess[k] \in Process /\ listProcess[k].pid \in Pids
  <2>1. \A k \in DOMAIN listProcess : listProcess[k] \in Process
    BY <1>0
  <2>2. \A e \in Process : e.pid \in Pids
    BY DEF Process
  <2> QED
    BY <2>1, <2>2
<1>000. incidents \subseteq incidents'
  BY IncidentsGrow
\* A step that keeps the list, and of every pid in use its state and image
\* unless it is freed.
<1>1. ASSUME listProcess' = listProcess,
             \A p \in Pids : st'[p] = "free" \/ (st[p] # "free" /\ img'[p] = img[p])
      PROVE  OwnInv'
  BY <1>00, <1>000, <1>1 DEF OwnInv, Owned
<1>2. CASE Boot
  <2>1. CASE log = << >>
    <3>1. DOMAIN listProcess' = {}
      BY <1>2, <2>1 DEF Boot, readLog
    <3> QED
      BY <3>1 DEF OwnInv
  <2>2. CASE log # << >>
    BY <1>2, <2>2 DEF Boot, Note, OwnInv
  <2> QED
    BY <2>1, <2>2
<1>3. CASE StartLib
  <2>1. listLibs[i] \in Lib
    BY <1>3 DEF StartLib, TypeOK
  <2> QED
    BY <1>3, <2>1, OwnedAfterPush DEF StartLib
<1>4. CASE StartNew
  <2>1. Head(libNew) \in Lib
    BY <1>4, HeadTailProperties DEF StartNew, TypeOK, ControlInv, At
  <2> QED
    BY <1>4, <2>1, OwnedAfterPush DEF StartNew
<1>5. CASE ForkFails
  <2>1. CASE listProcess = << >>
    BY <1>5, <2>1 DEF ForkFails, os, OwnInv, Owned
  <2>2. CASE listProcess # << >>
    <3>1. /\ DOMAIN listProcess' \subseteq DOMAIN listProcess
          /\ \A k \in DOMAIN listProcess' : listProcess'[k] = listProcess[k]
      <4>1. listProcess' = SubSeq(listProcess, 1, Len(listProcess) - 1)
        BY <1>5, <2>2 DEF ForkFails, PopBack
      <4>2. Len(listProcess) \in Nat /\ Len(listProcess) >= 1
        BY <1>0, <2>2
      <4> QED
        BY <1>0, <4>1, <4>2
    <3>2. st' = st /\ img' = img
      BY <1>5 DEF ForkFails, os
    <3> QED
      BY <1>000, <3>1, <3>2 DEF OwnInv, Owned
  <2> QED
    BY <2>1, <2>2
<1>6. CASE MarkDead
  <2> DEFINE e == listProcess[i]
             f == [e EXCEPT !.status = 0, !.death = IF e.type = 1 THEN now ELSE @]
  <2>1. /\ listProcess' = [listProcess EXCEPT ![i] = f] /\ i <= Len(listProcess)
        /\ st' = st /\ img' = img
    BY <1>6 DEF MarkDead, os
  <2>2. e \in Process
    BY <1>0, <2>1
  <2>3. f.pid = e.pid /\ f.name = e.name /\ f.ver = e.ver
    BY <2>2 DEF Process
  <2> HIDE DEF f
  <2>4. /\ DOMAIN listProcess' = DOMAIN listProcess
        /\ \A k \in DOMAIN listProcess :
             /\ listProcess'[k].pid = listProcess[k].pid /\ listProcess'[k].name = listProcess[k].name
             /\ listProcess'[k].ver = listProcess[k].ver
    BY <1>0, <2>1, <2>3
  <2> QED
    BY <1>000, <2>1, <2>4 DEF OwnInv, Owned
<1>7. CASE RestartProcess
  <2> SUFFICES ASSUME incidents' \cap {"reused", "restored"} = {},
                      NEW k \in DOMAIN listProcess'
               PROVE  Owned(listProcess[k])'
    BY DEF OwnInv
  <2> DEFINE e == listProcess[i]
  <2>1. PICK p \in Pids :
          /\ ForkAgent(p, e.name, e.ver)
          /\ listProcess' = [listProcess EXCEPT ![i] =
               [e EXCEPT !.pid = p,
                         !.status = IF e.type = 1 /\ @ = 0 THEN 1 ELSE @]]
          /\ Note(Reuse(p, i))
    BY <1>7 DEF RestartProcess, Restart
  <2> DEFINE f == [e EXCEPT !.pid = p,
                            !.status = IF e.type = 1 /\ @ = 0 THEN 1 ELSE @]
  <2>2. i \in DOMAIN listProcess /\ e \in Process
    BY <1>0, <1>00, <1>7, EntryRewritten
  <2>3. f.pid = p /\ f.name = e.name /\ f.ver = e.ver
    BY <2>2 DEF Process
  <2>4. listProcess' = [listProcess EXCEPT ![i] = f]
    BY <2>1
  <2> HIDE DEF f
  <2>5. /\ DOMAIN listProcess' = DOMAIN listProcess /\ listProcess'[i] = f
        /\ \A j \in DOMAIN listProcess : j # i => listProcess'[j] = listProcess[j]
    BY <1>0, <2>2, <2>4
  <2>6. /\ st' = [st EXCEPT ![p] = "run"] /\ img' = [img EXCEPT ![p] = <<e.name, e.ver>>]
    BY <2>1 DEF ForkAgent
  <2>7. CASE k = i
    <3>1. img'[p] = <<e.name, e.ver>>
      BY <1>0, <2>6
    <3> QED
      BY <2>3, <2>5, <2>7, <3>1 DEF Owned
  <2>8. CASE k # i
    <3>1. Owned(listProcess[k])
      BY <1>000, <2>5 DEF OwnInv
    <3>2. listProcess[k].pid # p
      <4>1. "reused" \notin Reuse(p, i)
        BY <2>1 DEF Note
      <4> QED
        BY <2>5, <2>8, <4>1, NotReused
    <3>3. listProcess[k].pid \in Pids
      BY <1>00, <2>5
    <3>4. st'[listProcess[k].pid] = st[listProcess[k].pid]
          /\ img'[listProcess[k].pid] = img[listProcess[k].pid]
      BY <1>0, <2>6, <3>2, <3>3
    <3> QED
      BY <2>5, <2>8, <3>1, <3>4 DEF Owned
  <2> QED
    BY <2>7, <2>8
<1>8. CASE Swap
  <2> DEFINE p == listProcess[i].pid
             r == RemoveIndex(listProcess, i)
  <2>1. /\ i <= Len(listProcess) /\ listProcess' = r /\ img' = img
        /\ st' = [st EXCEPT ![p] = Terminated(p)]
    BY <1>8 DEF Swap, Replace, At, ControlInv
  <2>2. /\ r \in Seq(Process) /\ Len(r) = Len(listProcess) - 1
        /\ \A k \in 1 .. Len(listProcess) : k < i => r[k] = listProcess[k]
        /\ \A k \in 1 .. Len(listProcess) : k > i => r[k - 1] = listProcess[k]
    BY <1>0, <2>1, RemoveIndexProperties
  <2>3. st[p] = "free" => Terminated(p) = "free"
    BY DEF Terminated, Helping
  <2> HIDE DEF p, r
  <2>4. \A q \in Pids : st[q] = "free" => st'[q] = "free"
    BY <1>0, <2>1, <2>3
  <2>5. ASSUME NEW k \in DOMAIN r PROVE \E j \in DOMAIN listProcess : r[k] = listProcess[j]
    <3>1. k \in 1 .. Len(listProcess) - 1 /\ Len(listProcess) \in Nat
      BY <1>0, <2>2, <2>5
    <3>2. CASE k < i
      BY <1>0, <2>2, <3>1, <3>2
    <3>3. CASE k >= i
      <4>1. k + 1 \in 1 .. Len(listProcess) /\ r[(k + 1) - 1] = listProcess[k + 1]
        BY <1>0, <2>2, <3>1, <3>3
      <4>2. (k + 1) - 1 = k
        BY <3>1
      <4> QED
        BY <1>0, <4>1, <4>2
    <3> QED
      BY <1>0, <3>1, <3>2, <3>3
  <2>6. ASSUME incidents' \cap {"reused", "restored"} = {}, NEW k \in DOMAIN listProcess'
        PROVE  Owned(listProcess[k])'
    <3>1. PICK j \in DOMAIN listProcess : listProcess'[k] = listProcess[j]
      BY <2>1, <2>5, <2>6
    <3>2. Owned(listProcess[j]) /\ listProcess[j].pid \in Pids
      BY <1>00, <1>000, <2>6 DEF OwnInv
    <3> QED
      BY <2>1, <2>4, <3>1, <3>2 DEF Owned
  <2> QED
    BY <2>6 DEF OwnInv
<1>9. CASE Update
  <2>1. listProcess' = listProcess
    BY <1>9 DEF Update
  <2>2. CASE UNCHANGED <<st, img>>
    BY <1>000, <2>1, <2>2 DEF OwnInv, Owned
  <2>3. ASSUME NEW p \in Pids, "reused" \notin Reuse(p, 0),
               \A q \in Pids : q # p => st'[q] = st[q] /\ img'[q] = img[q]
        PROVE  OwnInv'
    <3>1. \A k \in DOMAIN listProcess : k # 0
      BY <1>0
    <3>2. \A k \in DOMAIN listProcess : listProcess[k].pid # p
      BY <2>3, <3>1, NotReused
    <3> QED
      BY <1>00, <1>000, <2>1, <2>3, <3>2 DEF OwnInv, Owned
  <2>4. CASE ~UNCHANGED <<st, img>>
    <3>1. PICK p \in Pids :
            /\ st' = [st EXCEPT ![p] = "call"]
            /\ img' = [img EXCEPT ![p] = <<listProcess[i].name, listProcess[i].ver>>]
            /\ Note(Reuse(p, 0) \cup IF empfile = << >> THEN {} ELSE {"joined"})
      BY <1>9, <2>4 DEF Update
    <3>2. \A q \in Pids : q # p => st'[q] = st[q] /\ img'[q] = img[q]
      BY <1>0, <3>1
    <3>3. CASE "reused" \in Reuse(p, 0)
      BY <3>1, <3>3 DEF Note, OwnInv
    <3> QED
      BY <2>3, <3>2, <3>3
  <2> QED
    BY <2>2, <2>4
<1>10. CASE Fetch
  BY <1>0, <1>1, <1>10 DEF Fetch
<1>11. CASE StartDone \/ KeepProcess \/ StateDone \/ Open \/ WakeUp \/ CheckNew
            \/ ScanOverflows \/ Ping \/ RpcFails \/ UpToDate \/ UpdateDone \/ FetchRefused
  <2>1. listProcess' = listProcess /\ st' = st /\ img' = img
    BY <1>11, Zenon DEF StartDone, KeepProcess, StateDone, Open, WakeUp,
       CheckNew, ScanOverflows, Ping, RpcFails, UpToDate, UpdateDone, FetchRefused, os
  <2> QED
    BY <1>1, <2>1
<1>12. CASE Deliver \/ Reap
  BY <1>0, <1>1, <1>12 DEF Deliver, Reap
<1>13. ASSUME NEW p \in Pids, Children(p) PROVE OwnInv'
  <2>1. listProcess' = listProcess
        /\ \A q \in Pids : st'[q] = "free" \/ (st[q] # "free" /\ img'[q] = img[q])
    BY <1>0, <1>13 DEF Children, AgentExit, HelperCalls, HelperFails, HelperRemoves, ChildEnds
  <2> QED
    BY <1>1, <2>1
<1>14. CASE World
  <2>1. listProcess' = listProcess /\ img' = img /\ \A q \in Pids : st'[q] = "free" \/ st'[q] = st[q]
    BY <1>0, <1>14 DEF World, AlienExit, Publish, Install, Tick, os
  <2> QED
    BY <1>1, <2>1
<1>15. CASE UNCHANGED vars
  BY <1>1, <1>15 DEF vars, os
<1> QED
  BY <1>2, <1>3, <1>4, <1>5, <1>6, <1>7, <1>8, <1>9, <1>10, <1>11, <1>12, <1>13, <1>14, <1>15, Zenon
  DEF Next, Unsupervised, Master

\* update terminates only the agent it replaces: the pid it sends SIGTERM to
\* is, if anything was running there, still the library of the erased entry,
\* as long as no listed pid was reused and the list did not come from a log.
THEOREM AgentTerminatesOwn == Spec => TerminatesOwnAgent
<1> DEFINE Own == \A p \in Pids :
                    (Swap /\ st[p] # "dying" /\ st'[p] = "dying"
                       /\ incidents \cap {"reused", "restored"} = {})
                    => img[p] = <<listProcess[i].name, listProcess[i].ver>>
<1>1. Init => OwnInv
  <2> SUFFICES ASSUME Init PROVE OwnInv
    OBVIOUS
  <2>1. DOMAIN listProcess = {}
    BY DEF Init
  <2> QED
    BY <2>1 DEF OwnInv
<1>2. TypeOK /\ ControlInv /\ OwnInv /\ [Next]_vars => OwnInv'
  BY OwnStep
<1>3. TypeOK /\ ControlInv /\ OwnInv => Own
  <2> SUFFICES ASSUME TypeOK, ControlInv, OwnInv, NEW p \in Pids, Swap,
                      st[p] # "dying", st'[p] = "dying",
                      incidents \cap {"reused", "restored"} = {}
               PROVE  img[p] = <<listProcess[i].name, listProcess[i].ver>>
    OBVIOUS
  <2>1. i \in DOMAIN listProcess /\ st \in [Pids -> PidStates]
    BY DEF Swap, At, ControlInv, TypeOK
  <2>2. st' = [st EXCEPT ![listProcess[i].pid] = Terminated(listProcess[i].pid)]
    BY DEF Swap, Replace
  <2>3. p = listProcess[i].pid
    BY <2>1, <2>2
  <2>4. st[p] # "free"
    BY <2>1, <2>2, <2>3 DEF Terminated, Helping
  <2> QED
    BY <2>1, <2>3, <2>4 DEF OwnInv, Owned
<1>4. [][Own]_vars => TerminatesOwnAgent
  BY DEF TerminatesOwnAgent
<1> HIDE DEF Own
<1> QED
  BY <1>1, <1>2, <1>3, <1>4, AgentTypeOK, PTL DEF Spec

-----------------------------------------------------------------------------
(* The two lists of the agent master and its library directory, in a       *)
(* regular history: that update and checkState can use the lists together, *)
(* that nothing one-shot runs twice, and that restarts wait for the delay. *)

-----------------------------------------------------------------------------
(* The inductive invariant.                                                *)

\* A newer file than version v of library n is in the directory.
Replacing(n, v) == \E f \in files : f.name = n /\ f.ver > v

\* The directory has one file per name.
FilesOnce == \A f, g \in files : f.name = g.name => f = g

\* update is between the copy of a new file and the checkNew that reads it.
Exchanging == pc = "swap" \/ (pc = "new" /\ ret = "update")

\* startAll and checkNew push a process after its library; everywhere else
\* the lists have the same length.
LengthOK ==
  /\ pc = "boot" => listLibs = << >> /\ listProcess = << >>
  /\ pc = "start" => Len(listProcess) = i - 1 /\ i <= Len(listLibs) + 1
  /\ pc = "fork" => /\ Len(listLibs) = Len(listProcess) + 1
                    /\ Head(libNew) = listLibs[Len(listLibs)]
  /\ pc \notin {"boot", "start", "fork"} => Len(listProcess) = Len(listLibs)

\* Entries of one index are one library, and no library is listed twice.
PairOK ==
  /\ NameOnce(listLibs)
  /\ \A k \in DOMAIN listProcess :
       /\ k \in DOMAIN listLibs
       /\ listProcess[k].name = listLibs[k].name /\ listProcess[k].ver = listLibs[k].ver

\* Entries have the type of their config, and status 2 is not used.
EntryOK ==
  /\ \A k \in DOMAIN listLibs :
       listLibs[k].type = Type[listLibs[k].name] /\ listLibs[k].status = 1
  /\ \A k \in DOMAIN listProcess :
       listProcess[k].type = Type[listProcess[k].name] /\ listProcess[k].status \in {0, 1}

\* The one helper of update lives while update waits for the new file and
\* until checkNew has read the directory; it holds the library being replaced.
HelperOK ==
  /\ \A p, q \in Pids : st[p] \in Helping /\ st[q] \in Helping => p = q
  /\ \A p \in Pids : st[p] \in {"call", "listen"} => pc = "fetch"
  /\ \A p \in Pids : st[p] = "sent" =>
       Exchanging /\ Plain(img[p]) \in files /\ Replacing(img[p][1], img[p][2])
  /\ \A p \in Pids : st[p] \in Helping =>
       /\ pc \in {"fetch", "swap"} => img[p] = <<listProcess[i].name, listProcess[i].ver>>
       /\ pc = "new" => \A k \in DOMAIN listLibs : listLibs[k].name # img[p][1]
  /\ pc = "fetch" /\ helper # {} =>
       /\ Len(empfile) = 1
       /\ empfile[1][1] = listProcess[i].name /\ empfile[1][2] > listProcess[i].ver

\* The directory holds plain files, one per name unless a replacement is under
\* way, and the file of every listed library but the one being replaced.
FilesOK ==
  /\ \A f \in files : ~f.joined
  /\ Exchanging \/ FilesOnce
  /\ \A k \in DOMAIN listLibs :
       (pc = "swap" => k # i) => Plain(<<listLibs[k].name, listLibs[k].ver>>) \in files
  /\ pc = "swap" => Replacing(listProcess[i].name, listProcess[i].ver)

\* Whatever was started is superseded by a listed process of its library or
\* by a newer file: checkNew finds nothing that has run before.
Superseded(n, v) ==
  \/ \E k \in DOMAIN listProcess : listProcess[k].name = n /\ listProcess[k].ver >= v
  \/ Replacing(n, v)
StartedOK == \A l \in started : Superseded(l[1], l[2])

\* Nothing one-shot was forked twice.
OnceOK == \A l \in again : Type[l[1]] # 0

Whole == LengthOK /\ PairOK /\ EntryOK /\ HelperOK /\ FilesOK /\ StartedOK /\ OnceOK

\* What holds in a regular history: all of it while the master runs; the lists
\* and the fork history also once it has ended.
ListsInv ==
  Regular =>
    /\ OnceOK
    /\ pc # "undefined" => LengthOK /\ PairOK
    /\ pc \notin Ended => Whole

-----------------------------------------------------------------------------
(* Facts about single definitions.                                         *)

\* The type of the state that the lemmas below use, with records closed.
LEMMA ListTypes ==
  ASSUME TypeOK
  PROVE  /\ listLibs \in Seq(Lib) /\ listProcess \in Seq(Process) /\ i \in Nat \ {0}
         /\ Len(listLibs) \in Nat /\ Len(listProcess) \in Nat
         /\ DOMAIN listLibs = 1 .. Len(listLibs) /\ DOMAIN listProcess = 1 .. Len(listProcess)
         /\ st \in [Pids -> PidStates] /\ img \in [Pids -> Libs \cup {NoLib}]
         /\ \A k \in DOMAIN listLibs : listLibs[k] \in Lib
         /\ \A k \in DOMAIN listProcess : listProcess[k] \in Process
         /\ files \subseteq File /\ Versions \subseteq Nat
BY AgentAssumption DEF TypeOK, AgentAssumption

\* The fields of entries and files.
LEMMA FieldTypes ==
  /\ \A e \in Process : e.pid \in Pids /\ e.name \in Names /\ e.ver \in Versions /\ e.type \in 0 .. 2
  /\ \A l \in Lib : l.name \in Names /\ l.ver \in Versions /\ l.type \in 0 .. 2
  /\ \A f \in File : f.name \in Names /\ f.ver \in Versions
BY DEF Process, Lib, File

\* A file that is not a joined one is the plain file of its name and version.
LEMMA PlainFile ==
  ASSUME NEW f \in File, ~f.joined
  PROVE  f = Plain(<<f.name, f.ver>>)
BY DEF File, Plain

\* The parts of a plain file.
LEMMA PlainFields ==
  ASSUME NEW n, NEW v
  PROVE  /\ Plain(<<n, v>>).name = n /\ Plain(<<n, v>>).ver = v /\ ~Plain(<<n, v>>).joined
BY DEF Plain

\* A directory listing names every file of its set once.
LEMMA OrdersInjective ==
  ASSUME NEW S, IsFiniteSet(S), NEW o \in Orders(S)
  PROVE  /\ DOMAIN o = 1 .. Cardinality(S) /\ Cardinality(S) \in Nat
         /\ \A k \in DOMAIN o : o[k] \in S
         /\ \A j, k \in DOMAIN o : o[j] = o[k] => j = k
<1> DEFINE n == Cardinality(S)
<1>1. n \in Nat
  BY FS_CardinalityType
<1>2. o \in [1 .. n -> S] /\ \A x \in S : \E k \in 1 .. n : o[k] = x
  BY DEF Orders
<1>3. o \in Surjection(1 .. n, S)
  BY <1>2 DEF Surjection
<1>4. IsFiniteSet(1 .. n) /\ Cardinality(1 .. n) = n
  BY <1>1, FS_Interval
<1>5. o \in Injection(1 .. n, S)
  BY <1>3, <1>4, FS_SurjSameCardinalityImpliesInj
<1> QED
  BY <1>1, <1>2, <1>5 DEF Injection, IsInjective

-----------------------------------------------------------------------------
(* Steps that leave the lists and the directory alone.                     *)

\* A step outside the master that starts no helper and touches none but to
\* let a call be answered, or to end it.
LEMMA FrameWhole ==
  ASSUME Whole,
         UNCHANGED <<listLibs, listProcess, files, started, again, pc, i, ret, libNew,
                     helper, empfile>>,
         \A p \in Pids : st'[p] \in Helping =>
            /\ st[p] \in Helping /\ (st'[p] = "sent" <=> st[p] = "sent")
            /\ img'[p] = img[p]
  PROVE  Whole'
<1>1. LengthOK' /\ PairOK' /\ EntryOK' /\ FilesOK' /\ StartedOK' /\ OnceOK'
  BY DEF Whole, LengthOK, PairOK, EntryOK, FilesOK, StartedOK, OnceOK, NameOnce, FilesOnce,
     Exchanging, Replacing, Superseded
<1>2. HelperOK'
  <2>1. HelperOK /\ "sent" \in Helping
    BY DEF Whole, Helping
  <2>2. \A p \in Pids : st'[p] \in {"call", "listen"} => st[p] \in {"call", "listen"}
    BY DEF Helping
  <2> QED
    BY <2>1, <2>2 DEF HelperOK, Exchanging, Replacing
<1> QED
  BY <1>1, <1>2 DEF Whole

\* The control points between startAll and the inner steps of update and
\* checkNew: no helper lives there.
Quiet == {"state", "open", "idle", "ping", "update"}

\* At these points there is no helper.
LEMMA QuietNoHelper ==
  ASSUME HelperOK, pc \notin {"fetch", "swap"}, pc = "new" => ret # "update"
  PROVE  \A p \in Pids : st[p] \notin Helping
BY DEF HelperOK, Helping, Exchanging

\* Without a helper HelperOK says nothing.
LEMMA NoHelper ==
  ASSUME \A p \in Pids : st[p] \notin Helping, pc # "fetch"
  PROVE  HelperOK
BY DEF HelperOK, Helping

\* The master goes on without touching anything.
LEMMA QuietWhole ==
  ASSUME Whole, pc \in Quiet, pc' \in Quiet \cup {"new", "exit"}, pc' = "new" => ret' # "update",
         UNCHANGED <<listLibs, listProcess, files, started, again, st, img>>
  PROVE  Whole'
<1>1. \A p \in Pids : st[p] \notin Helping
  BY QuietNoHelper DEF Whole, Quiet
<1>2. HelperOK'
  <2>1. \A p \in Pids : st'[p] \notin Helping
    BY <1>1
  <2>2. pc' # "fetch"
    BY DEF Quiet
  <2> QED
    BY <2>1, <2>2 DEF HelperOK, Helping
<1>3. LengthOK' /\ PairOK' /\ EntryOK' /\ StartedOK' /\ OnceOK'
  BY DEF Whole, LengthOK, PairOK, EntryOK, StartedOK, OnceOK, NameOnce, Replacing, Superseded,
     Quiet
<1>4. FilesOK'
  <2>1. FilesOnce /\ pc # "swap" /\ pc' # "swap"
    BY DEF Whole, FilesOK, Exchanging, Quiet
  <2> QED
    BY <2>1 DEF Whole, FilesOK, FilesOnce
<1> QED
  BY <1>2, <1>3, <1>4 DEF Whole

\* The master goes on to the first checkState when every library is started.
LEMMA StartDoneWhole ==
  ASSUME TypeOK, Whole, StartDone
  PROVE  Whole'
<1>0. /\ Len(listLibs) \in Nat /\ Len(listProcess) \in Nat /\ i \in Nat
  BY ListTypes
<1>1. /\ pc = "start" /\ pc' = "state" /\ i > Len(listLibs)
      /\ UNCHANGED <<listLibs, listProcess, files, started, again, st, img>>
  BY DEF StartDone, At, os, disk
<1>2. \A p \in Pids : st[p] \notin Helping
  BY <1>1, QuietNoHelper DEF Whole
<1>3. HelperOK'
  BY <1>1, <1>2 DEF HelperOK, Helping
<1>4. LengthOK'
  BY <1>0, <1>1 DEF Whole, LengthOK
<1>5. PairOK' /\ EntryOK' /\ StartedOK' /\ OnceOK'
  BY <1>1 DEF Whole, PairOK, EntryOK, StartedOK, OnceOK, NameOnce, Replacing, Superseded
<1>6. FilesOK'
  BY <1>1 DEF Whole, FilesOK, FilesOnce, Exchanging
<1> QED
  BY <1>3, <1>4, <1>5, <1>6 DEF Whole

-----------------------------------------------------------------------------
(* startAll and checkNew.                                                  *)

\* scan: what the master boots with, without a log.
LEMMA BootWhole ==
  ASSUME TypeOK, Whole, Boot, "restored" \notin incidents'
  PROVE  Whole'
<1>0. /\ files \subseteq File /\ IsFiniteSet(files)
  BY DEF TypeOK
<1>1. PICK s \in Scans :
        /\ \E g \in [DOMAIN log -> Garbage] : listProcess' = readLog(g)
        /\ listLibs' = LibsOf(s)
        /\ pc' = IF log = << >> THEN "start" ELSE "state"
        /\ Note((IF log = << >> THEN {} ELSE {"restored"})
                \cup (IF ScanCut THEN {"cut"} ELSE {}))
  BY DEF Boot
<1>2. log = << >>
  BY <1>1 DEF Note
<1>3. /\ pc = "boot" /\ pc' = "start" /\ i' = 1
      /\ UNCHANGED <<files, started, again, st, img>>
  BY <1>1, <1>2 DEF Boot, At, os, disk
<1>4. listProcess' = << >>
  <2>1. DOMAIN log = {}
    BY <1>2
  <2> QED
    BY <1>1, <2>1 DEF readLog
<1>5. PICK S \in ScanSets : s \in Orders(S)
  BY <1>1 DEF Scans
<1>6. S \subseteq files
  BY <1>5 DEF ScanSets, Readable
<1>7. /\ DOMAIN s = 1 .. Cardinality(S) /\ Cardinality(S) \in Nat
      /\ \A k \in DOMAIN s : s[k] \in S
      /\ \A j, k \in DOMAIN s : s[j] = s[k] => j = k
  BY <1>0, <1>5, <1>6, FS_Subset, OrdersInjective
<1>8. /\ DOMAIN listLibs' = DOMAIN s
      /\ \A k \in DOMAIN s : /\ listLibs'[k].name = s[k].name /\ listLibs'[k].ver = s[k].ver
                             /\ listLibs'[k].type = Type[s[k].name] /\ listLibs'[k].status = 1
  BY <1>1 DEF LibsOf, ConfigOf
<1>9. FilesOnce /\ \A f \in files : ~f.joined
  BY <1>3 DEF Whole, FilesOK, Exchanging
<1>10. LengthOK'
  <2>1. Len(listLibs') = Cardinality(S)
    <3>1. listLibs' \in [1 .. Cardinality(S) -> {listLibs'[k] : k \in DOMAIN s}]
      BY <1>1, <1>7, <1>8 DEF LibsOf
    <3> QED
      BY <1>7, <3>1, FunctionIsSeq
  <2>2. Len(listProcess') = 0
    BY <1>4
  <2> QED
    BY <1>3, <1>7, <2>1, <2>2 DEF LengthOK
<1>11. PairOK' /\ EntryOK'
  <2>1. DOMAIN listProcess' = {}
    BY <1>4
  <2>2. ASSUME NEW j \in DOMAIN s, NEW k \in DOMAIN s, s[j].name = s[k].name PROVE j = k
    BY <1>6, <1>7, <1>9, <2>2 DEF FilesOnce
  <2>3. NameOnce(listLibs)'
    BY <1>8, <2>2 DEF NameOnce
  <2>4. \A k \in DOMAIN listLibs' :
          listLibs'[k].type = Type[listLibs'[k].name] /\ listLibs'[k].status = 1
    BY <1>8
  <2> QED
    BY <2>1, <2>3, <2>4 DEF PairOK, EntryOK
<1>12. HelperOK'
  <2>1. \A p \in Pids : st[p] \notin Helping
    BY <1>3, QuietNoHelper DEF Whole
  <2> QED
    BY <1>3, <2>1 DEF HelperOK, Helping
<1>13. FilesOK'
  <2>1. \A k \in DOMAIN listLibs' : Plain(<<listLibs'[k].name, listLibs'[k].ver>>) \in files
    <3> SUFFICES ASSUME NEW k \in DOMAIN s PROVE Plain(<<s[k].name, s[k].ver>>) \in files
      BY <1>8
    <3>1. s[k] \in files /\ s[k] \in File
      BY <1>0, <1>6, <1>7
    <3> QED
      BY <1>9, <3>1, PlainFile
  <2> QED
    BY <1>3, <1>9, <2>1 DEF FilesOK, FilesOnce
<1>14. StartedOK' /\ OnceOK'
  <2>1. DOMAIN listProcess = {}
    BY <1>3 DEF Whole, LengthOK
  <2> QED
    BY <1>3, <2>1 DEF Whole, StartedOK, OnceOK, Superseded, Replacing
<1> QED
  BY <1>10, <1>11, <1>12, <1>13, <1>14 DEF Whole

\* Pushing the process of the next library of listLibs, which has not been
\* started before: what was started has a newer file or a listed process, and
\* the one file of this name is the one that is being started.
LEMMA PushWhole ==
  ASSUME TypeOK, Whole, FilesOnce, pc # "swap", NEW p \in Pids, NEW l,
         Len(listProcess) + 1 \in DOMAIN listLibs, l = listLibs[Len(listProcess) + 1],
         ForkAgent(p, l.name, l.ver),
         listProcess' = Append(listProcess, ProcessOf(l, p)),
         UNCHANGED <<listLibs, files>>
  PROVE  /\ PairOK' /\ EntryOK' /\ StartedOK' /\ OnceOK'
         /\ Len(listProcess') = Len(listProcess) + 1
<1> DEFINE n == Len(listProcess) + 1
           e == ProcessOf(l, p)
<1>0. /\ listProcess \in Seq(Process) /\ Len(listProcess) \in Nat
      /\ DOMAIN listProcess = 1 .. Len(listProcess) /\ l \in Lib /\ l.ver \in Nat
      /\ l.name \in Names /\ l.ver \in Versions
      /\ \A k \in DOMAIN listProcess : listProcess[k] \in Process
      /\ files \subseteq File /\ Versions \subseteq Nat
  BY ListTypes, FieldTypes
<1>1. /\ e \in Process /\ e.name = l.name /\ e.ver = l.ver /\ e.type = l.type
      /\ e.status = l.status
  BY <1>0, ProcessOfType DEF ProcessOf
<1> HIDE DEF e
<1>2. /\ listProcess' \in Seq(Process) /\ Len(listProcess') = n /\ listProcess'[n] = e
      /\ \A k \in DOMAIN listProcess : listProcess'[k] = listProcess[k]
      /\ DOMAIN listProcess' = DOMAIN listProcess \cup {n} /\ n \notin DOMAIN listProcess
  <2>1. /\ listProcess' \in Seq(Process) /\ Len(listProcess') = n /\ listProcess'[n] = e
        /\ \A k \in 1 .. Len(listProcess) : listProcess'[k] = listProcess[k]
    BY <1>0, <1>1, AppendProperties DEF e
  <2>2. DOMAIN listProcess' = 1 .. n
    BY <2>1
  <2> QED
    BY <1>0, <2>1, <2>2
<1>3. PairOK' /\ EntryOK'
  <2>1. l.type = Type[l.name] /\ l.status = 1
    BY DEF Whole, EntryOK
  <2>2. ASSUME NEW k \in DOMAIN listProcess'
        PROVE  /\ k \in DOMAIN listLibs
               /\ listProcess'[k].name = listLibs[k].name /\ listProcess'[k].ver = listLibs[k].ver
               /\ listProcess'[k].type = Type[listProcess'[k].name]
               /\ listProcess'[k].status \in {0, 1}
    <3>1. CASE k = n
      BY <1>1, <1>2, <2>1, <3>1
    <3>2. CASE k \in DOMAIN listProcess
      BY <1>2, <3>2 DEF Whole, PairOK, EntryOK
    <3> QED
      BY <1>2, <3>1, <3>2
  <2> QED
    BY <2>2 DEF Whole, PairOK, EntryOK, NameOnce
<1>4. <<l.name, l.ver>> \notin started
  <2> SUFFICES ASSUME <<l.name, l.ver>> \in started PROVE FALSE
    OBVIOUS
  <2>1. Superseded(l.name, l.ver)
    <3>1. Superseded(<<l.name, l.ver>>[1], <<l.name, l.ver>>[2])
      BY DEF Whole, StartedOK
    <3> QED
      BY <3>1
  <2>2. \A k \in DOMAIN listProcess : listProcess[k].name # l.name
    <3> SUFFICES ASSUME NEW k \in DOMAIN listProcess, listProcess[k].name = l.name PROVE FALSE
      OBVIOUS
    <3>1. k \in DOMAIN listLibs /\ listLibs[k].name = listLibs[n].name
      BY DEF Whole, PairOK
    <3>2. k = n
      BY <3>1 DEF Whole, PairOK, NameOnce
    <3> QED
      BY <1>2, <3>2
  <2>3. PICK f \in files : f.name = l.name /\ f.ver > l.ver
    BY <2>1, <2>2 DEF Superseded, Replacing
  <2>4. Plain(<<l.name, l.ver>>) \in files
    BY DEF Whole, FilesOK
  <2>5. f = Plain(<<l.name, l.ver>>)
    BY <2>3, <2>4, PlainFields DEF FilesOnce
  <2>6. f.ver = l.ver
    BY <2>5, PlainFields
  <2> QED
    BY <1>0, <2>3, <2>6
<1>5. started' = started \cup {<<l.name, l.ver>>} /\ again' = again
  BY <1>4 DEF ForkAgent
<1>6. StartedOK'
  <2> SUFFICES ASSUME NEW x \in started' PROVE Superseded(x[1], x[2])'
    BY DEF StartedOK
  <2>1. CASE x = <<l.name, l.ver>>
    <3>1. n \in DOMAIN listProcess' /\ listProcess'[n].name = x[1] /\ listProcess'[n].ver >= x[2]
      BY <1>0, <1>1, <1>2, <2>1
    <3> QED
      BY <3>1 DEF Superseded
  <2>2. CASE x \in started
    <3>1. Superseded(x[1], x[2])
      BY <2>2 DEF Whole, StartedOK
    <3> QED
      BY <1>2, <3>1 DEF Superseded, Replacing
  <2> QED
    BY <1>5, <2>1, <2>2
<1>7. OnceOK'
  BY <1>5 DEF Whole, OnceOK
<1> QED
  BY <1>2, <1>3, <1>6, <1>7

\* startAll: one library.
LEMMA StartLibWhole ==
  ASSUME TypeOK, Whole, StartLib
  PROVE  Whole'
<1>0. /\ Len(listLibs) \in Nat /\ Len(listProcess) \in Nat /\ i \in Nat \ {0}
      /\ DOMAIN listLibs = 1 .. Len(listLibs) /\ st \in [Pids -> PidStates]
  BY ListTypes
<1>1. PICK p \in Pids :
        /\ ForkAgent(p, listLibs[i].name, listLibs[i].ver)
        /\ listProcess' = Append(listProcess, ProcessOf(listLibs[i], p))
  BY DEF StartLib
<1>2. /\ pc = "start" /\ pc' = pc /\ i <= Len(listLibs) /\ i' = i + 1
      /\ UNCHANGED <<listLibs, files, ret>>
  BY DEF StartLib, At, disk, local
<1>3. i = Len(listProcess) + 1 /\ i \in DOMAIN listLibs
  BY <1>0, <1>2 DEF Whole, LengthOK
<1>4. FilesOnce
  BY <1>2 DEF Whole, FilesOK, Exchanging
<1>5. /\ PairOK' /\ EntryOK' /\ StartedOK' /\ OnceOK'
      /\ Len(listProcess') = Len(listProcess) + 1
  BY <1>1, <1>2, <1>3, <1>4, PushWhole
<1>6. LengthOK'
  BY <1>0, <1>2, <1>3, <1>5 DEF LengthOK
<1>7. HelperOK'
  <2>1. \A q \in Pids : st[q] \notin Helping
    BY <1>2, QuietNoHelper DEF Whole
  <2>2. \A q \in Pids : st'[q] \notin Helping
    BY <1>0, <1>1, <2>1 DEF ForkAgent, Helping
  <2> QED
    BY <1>2, <2>2 DEF HelperOK, Helping
<1>8. FilesOK'
  BY <1>2, <1>4 DEF Whole, FilesOK, FilesOnce
<1> QED
  BY <1>5, <1>6, <1>7, <1>8 DEF Whole

\* checkNew: the one new library is started, and the lists have the same
\* length again.
LEMMA StartNewWhole ==
  ASSUME TypeOK, ControlInv, Whole, StartNew
  PROVE  Whole'
<1>0. /\ Len(listLibs) \in Nat /\ Len(listProcess) \in Nat
      /\ DOMAIN listLibs = 1 .. Len(listLibs) /\ st \in [Pids -> PidStates]
      /\ ret \in {"idle", "new", "ping", "update"}
  BY ListTypes DEF TypeOK
<1>1. PICK p \in Pids :
        /\ ForkAgent(p, Head(libNew).name, Head(libNew).ver)
        /\ listProcess' = Append(listProcess, ProcessOf(Head(libNew), p))
  BY DEF StartNew
<1>2. /\ pc = "fork" /\ pc' = ret /\ UNCHANGED <<listLibs, files, ret>>
  BY DEF StartNew, At, disk
<1>3. /\ Len(listLibs) = Len(listProcess) + 1 /\ Len(listProcess) + 1 \in DOMAIN listLibs
      /\ Head(libNew) = listLibs[Len(listProcess) + 1]
  BY <1>0, <1>2 DEF Whole, LengthOK
<1>4. FilesOnce
  BY <1>2 DEF Whole, FilesOK, Exchanging
<1>5. /\ PairOK' /\ EntryOK' /\ StartedOK' /\ OnceOK'
      /\ Len(listProcess') = Len(listProcess) + 1
  BY <1>1, <1>2, <1>3, <1>4, PushWhole
<1>6. LengthOK'
  BY <1>0, <1>2, <1>3, <1>5 DEF LengthOK
<1>7. HelperOK'
  <2>1. \A q \in Pids : st[q] \notin Helping
    BY <1>2, QuietNoHelper DEF Whole
  <2>2. \A q \in Pids : st'[q] \notin Helping
    BY <1>0, <1>1, <2>1 DEF ForkAgent, Helping
  <2> QED
    BY <1>0, <1>2, <2>2 DEF HelperOK, Helping
<1>8. FilesOK'
  BY <1>0, <1>2, <1>4 DEF Whole, FilesOK, FilesOnce
<1> QED
  BY <1>5, <1>6, <1>7, <1>8 DEF Whole

\* check, in a regular history: the directory has one file per name, so the
\* helper of a replacement has removed the old file, and at most one library
\* is new.
LEMMA CheckNewWhole ==
  ASSUME TypeOK, Whole, CheckNew, "burst" \notin incidents', "stale" \notin incidents'
  PROVE  Whole'
<1>0. /\ listLibs \in Seq(Lib) /\ Len(listLibs) \in Nat /\ Len(listProcess) \in Nat
      /\ DOMAIN listLibs = 1 .. Len(listLibs) /\ files \subseteq File /\ IsFiniteSet(files)
      /\ ret \in {"idle", "new", "ping", "update"}
  BY ListTypes DEF TypeOK
<1>1. PICK s \in Checks :
        /\ libNew' = NewLibsOf(s)
        /\ listLibs' = listLibs \o NewLibsOf(s)
        /\ pc' = IF s = << >> THEN ret ELSE "fork"
        /\ Note((IF Len(s) > 1 THEN {"burst"} ELSE {})
                \cup (IF ScanCut THEN {"cut"} ELSE {})
                \cup (IF \E f, g \in files : f # g /\ f.name = g.name
                        THEN {"stale"} ELSE {}))
  BY DEF CheckNew
<1>2. /\ pc = "new" /\ UNCHANGED <<listProcess, files, started, again, st, img, ret, i>>
  BY DEF CheckNew, At, os, disk
<1>3. FilesOnce
  BY <1>1 DEF Note, FilesOnce
<1>4. ~(Len(s) > 1)
  BY <1>1 DEF Note
<1>5. \A p \in Pids : st[p] \notin Helping
  <2> SUFFICES ASSUME NEW p \in Pids, st[p] \in Helping PROVE FALSE
    OBVIOUS
  <2>1. st[p] = "sent"
    BY <1>2 DEF Whole, HelperOK, Helping
  <2>2. Plain(img[p]) \in files /\ Replacing(img[p][1], img[p][2])
    BY <2>1 DEF Whole, HelperOK
  <2>3. PICK f \in files : f.name = img[p][1] /\ f.ver > img[p][2]
    BY <2>2 DEF Replacing
  <2>4. Plain(img[p]).name = img[p][1] /\ Plain(img[p]).ver = img[p][2]
    BY DEF Plain
  <2>5. f = Plain(img[p])
    BY <1>3, <2>2, <2>3, <2>4 DEF FilesOnce
  <2>6. f.ver \in Nat
    BY <1>0, FieldTypes, ListTypes
  <2> QED
    BY <2>3, <2>4, <2>5, <2>6
<1>6. PICK S \in ScanSets : s \in Orders(S \cap Fresh)
  BY <1>1 DEF Checks
<1>7. S \cap Fresh \subseteq files
  BY DEF Fresh
<1>8. /\ DOMAIN s = 1 .. Cardinality(S \cap Fresh) /\ Cardinality(S \cap Fresh) \in Nat
      /\ \A k \in DOMAIN s : s[k] \in Fresh /\ s[k] \in files
  <2>1. IsFiniteSet(S \cap Fresh)
    BY <1>0, <1>7, FS_Subset
  <2> QED
    BY <1>6, <1>7, <2>1, OrdersInjective
<1>9. Len(s) = Cardinality(S \cap Fresh) /\ s \in Seq(S \cap Fresh)
  <2>1. s \in [1 .. Cardinality(S \cap Fresh) -> S \cap Fresh]
    BY <1>6 DEF Orders
  <2> QED
    BY <1>8, <2>1, FunctionIsSeq
<1>10. HelperOK'
  <2>1. pc' # "fetch"
    BY <1>0, <1>1
  <2> QED
    BY <1>2, <1>5, <2>1 DEF HelperOK, Helping
<1>11. StartedOK' /\ OnceOK'
  BY <1>2 DEF Whole, StartedOK, OnceOK, Superseded, Replacing
<1>12. \A f \in files : ~f.joined
  BY DEF Whole, FilesOK
<1>13. CASE s = << >>
  <2>1. NewLibsOf(s) = << >>
    <3>1. DOMAIN s = {}
      BY <1>13
    <3> QED
      BY <3>1 DEF NewLibsOf
  <2>2. listLibs' = listLibs
    BY <1>0, <1>1, <2>1
  <2>3. pc' = ret
    BY <1>1, <1>13
  <2>4. LengthOK'
    BY <1>0, <1>2, <2>2, <2>3 DEF Whole, LengthOK
  <2>5. PairOK' /\ EntryOK'
    BY <1>2, <2>2 DEF Whole, PairOK, EntryOK, NameOnce
  <2>6. FilesOK'
    BY <1>0, <1>2, <1>3, <2>2, <2>3 DEF Whole, FilesOK, FilesOnce
  <2> QED
    BY <1>10, <1>11, <2>4, <2>5, <2>6 DEF Whole
<1>14. CASE s # << >>
  <2>1. Len(s) = 1 /\ DOMAIN s = {1}
    <3> DEFINE T == S \cap Fresh
    <3>1. s \in Seq(T)
      BY <1>9
    <3> HIDE DEF T
    <3>2. Len(s) \in Nat /\ Len(s) # 0
      BY <1>14, <3>1, EmptySeq
    <3>3. Len(s) = 1
      BY <1>4, <3>2
    <3>4. DOMAIN s = 1 .. 1
      BY <1>8, <1>9, <3>3, Zenon
    <3> QED
      BY <3>3, <3>4
  <2> DEFINE l == NewLib(s[1])
             n == Len(listLibs) + 1
  <2>2. /\ s[1] \in files /\ s[1] \in File
        /\ \A k \in DOMAIN listLibs : listLibs[k].name # s[1].name
    BY <1>0, <1>8, <2>1 DEF Fresh
  <2>3. l.name = s[1].name /\ l.ver = s[1].ver /\ l.type = Type[s[1].name] /\ l.status = 1
    BY DEF NewLib, ConfigOf
  <2>4. NewLibsOf(s) = <<l>>
    BY <2>1 DEF NewLibsOf
  <2> HIDE DEF l
  <2>5. /\ DOMAIN listLibs' = DOMAIN listLibs \cup {n} /\ Len(listLibs') = n
        /\ listLibs'[n] = l /\ n \notin DOMAIN listLibs
        /\ \A k \in DOMAIN listLibs : listLibs'[k] = listLibs[k]
    <3>1. listLibs' = listLibs \o <<l>>
      BY <1>1, <2>4
    <3> QED
      BY <1>0, <3>1
  <2>6. pc' = "fork" /\ Head(libNew') = l
    BY <1>1, <1>14, <2>4
  <2>7. LengthOK'
    BY <1>0, <1>2, <2>5, <2>6 DEF Whole, LengthOK
  <2>8. PairOK' /\ EntryOK'
    <3>1. NameOnce(listLibs)'
      BY <2>2, <2>3, <2>5 DEF Whole, PairOK, NameOnce
    <3>2. \A k \in DOMAIN listLibs' :
            listLibs'[k].type = Type[listLibs'[k].name] /\ listLibs'[k].status = 1
      BY <2>3, <2>5 DEF Whole, EntryOK
    <3> QED
      BY <1>2, <2>5, <3>1, <3>2 DEF Whole, PairOK, EntryOK
  <2>9. FilesOK'
    <3>1. Plain(<<l.name, l.ver>>) \in files
      BY <1>12, <2>2, <2>3, PlainFile
    <3>2. \A k \in DOMAIN listLibs' : Plain(<<listLibs'[k].name, listLibs'[k].ver>>) \in files
      BY <1>2, <2>5, <3>1 DEF Whole, FilesOK
    <3> QED
      BY <1>2, <1>3, <1>12, <2>6, <3>2 DEF FilesOK, FilesOnce
  <2> QED
    BY <1>10, <1>11, <2>7, <2>8, <2>9 DEF Whole
<1> QED
  BY <1>13, <1>14

-----------------------------------------------------------------------------
(* checkState.                                                             *)

\* checkState marks or restarts an entry; a one-shot entry is not restarted.
LEMMA CheckStateWhole ==
  ASSUME TypeOK, Whole, MarkDead \/ RestartProcess
  PROVE  Whole'
<1>0. /\ listProcess \in Seq(Process) /\ i \in Nat \ {0} /\ st \in [Pids -> PidStates]
      /\ \A k \in DOMAIN listProcess : listProcess[k] \in Process
      /\ Versions \subseteq Nat
  BY ListTypes
<1>1. /\ pc = "state" /\ pc' = pc /\ UNCHANGED <<listLibs, files, ret>>
  BY DEF MarkDead, RestartProcess, Restart, At, disk, local
<1>2. PICK x \in Process :
        /\ i \in DOMAIN listProcess
        /\ listProcess' = [listProcess EXCEPT ![i] = x]
        /\ x.name = listProcess[i].name /\ x.ver = listProcess[i].ver
        /\ x.type = listProcess[i].type /\ x.status \in {0, 1, listProcess[i].status}
  BY EntryRewritten
<1>3. /\ DOMAIN listProcess' = DOMAIN listProcess /\ Len(listProcess') = Len(listProcess)
      /\ \A k \in DOMAIN listProcess :
           /\ listProcess'[k].name = listProcess[k].name /\ listProcess'[k].ver = listProcess[k].ver
           /\ listProcess'[k].type = listProcess[k].type
           /\ listProcess'[k].status \in {0, 1, listProcess[k].status}
  BY <1>0, <1>2
<1>4. LengthOK' /\ PairOK' /\ EntryOK'
  <2>1. LengthOK'
    BY <1>1, <1>3 DEF Whole, LengthOK
  <2>2. PairOK' /\ EntryOK'
    BY <1>1, <1>3 DEF Whole, PairOK, EntryOK, NameOnce
  <2> QED
    BY <2>1, <2>2
<1>5. FilesOK'
  BY <1>1 DEF Whole, FilesOK, FilesOnce, Exchanging
<1>6. \A q \in Pids : st[q] \notin Helping
  BY <1>1, QuietNoHelper DEF Whole
<1>7. \A n, v : Superseded(n, v) => Superseded(n, v)'
  BY <1>1, <1>3 DEF Superseded, Replacing
<1>8. CASE MarkDead
  <2>1. UNCHANGED <<st, started, again>>
    BY <1>8 DEF MarkDead, os
  <2>2. HelperOK'
    BY <1>1, <1>6, <2>1 DEF HelperOK, Helping
  <2>3. StartedOK' /\ OnceOK'
    BY <1>7, <2>1 DEF Whole, StartedOK, OnceOK
  <2> QED
    BY <1>4, <1>5, <2>2, <2>3 DEF Whole
<1>9. CASE RestartProcess
  <2> DEFINE e == listProcess[i]
  <2>1. PICK p \in Pids : ForkAgent(p, e.name, e.ver)
    BY <1>9 DEF RestartProcess, Restart
  <2>2. HelperOK'
    <3>1. \A q \in Pids : st'[q] \notin Helping
      BY <1>0, <1>6, <2>1 DEF ForkAgent, Helping
    <3> QED
      BY <1>1, <3>1 DEF HelperOK, Helping
  <2>3. e.type # 0 /\ e.type = Type[e.name]
    BY <1>2, <1>9 DEF RestartProcess, Whole, EntryOK
  <2>4. OnceOK'
    <3> SUFFICES ASSUME NEW l \in again' PROVE Type[l[1]] # 0
      BY DEF OnceOK
    <3>1. l \in again \/ l = <<e.name, e.ver>>
      BY <2>1 DEF ForkAgent
    <3>2. CASE l \in again
      BY <3>2 DEF Whole, OnceOK
    <3>3. CASE l = <<e.name, e.ver>>
      <4>1. l[1] = e.name
        BY <3>3
      <4> QED
        BY <2>3, <4>1
    <3> QED
      BY <3>1, <3>2, <3>3
  <2>5. StartedOK'
    <3> SUFFICES ASSUME NEW l \in started' PROVE Superseded(l[1], l[2])'
      BY DEF StartedOK
    <3>1. l \in started \/ l = <<e.name, e.ver>>
      BY <2>1 DEF ForkAgent
    <3>2. CASE l \in started
      BY <1>7, <3>2 DEF Whole, StartedOK
    <3>3. CASE l = <<e.name, e.ver>>
      <4>1. l[1] = e.name /\ l[2] = e.ver /\ e.ver \in Nat
        BY <1>0, <1>2, <3>3, FieldTypes
      <4>2. Superseded(l[1], l[2])
        BY <1>2, <4>1 DEF Superseded
      <4> QED
        BY <1>7, <4>2
    <3> QED
      BY <3>1, <3>2, <3>3
  <2> QED
    BY <1>4, <1>5, <2>2, <2>4, <2>5 DEF Whole
<1> QED
  BY <1>8, <1>9

-----------------------------------------------------------------------------
(* update.                                                                 *)

\* update asks for one file at a time, in a regular history.
LEMMA UpdateWhole ==
  ASSUME TypeOK, Whole, Update, "joined" \notin incidents'
  PROVE  Whole'
<1>0. /\ listProcess \in Seq(Process) /\ i \in Nat \ {0} /\ st \in [Pids -> PidStates]
      /\ img \in [Pids -> Libs \cup {NoLib}] /\ empfile \in Seq(Libs)
  BY ListTypes DEF TypeOK
<1> DEFINE e == listProcess[i]
<1>1. /\ pc = "update" /\ pc' = "fetch" /\ i' = i /\ i <= Len(listProcess)
      /\ latest[e.name] > e.ver /\ empfile' = Append(empfile, <<e.name, latest[e.name]>>)
      /\ UNCHANGED <<listLibs, listProcess, files, started, again, ret>>
  BY DEF Update, At, disk
<1>2. \A q \in Pids : st[q] \notin Helping
  BY <1>1, QuietNoHelper DEF Whole
<1>3. LengthOK' /\ PairOK' /\ EntryOK' /\ StartedOK' /\ OnceOK'
  BY <1>1 DEF Whole, LengthOK, PairOK, EntryOK, StartedOK, OnceOK, NameOnce, Superseded, Replacing
<1>4. FilesOK'
  BY <1>1 DEF Whole, FilesOK, FilesOnce, Exchanging
<1>5. HelperOK'
  <2>1. ASSUME NEW p \in Pids, st' = [st EXCEPT ![p] = "call"],
               img' = [img EXCEPT ![p] = <<e.name, e.ver>>],
               Note(Reuse(p, 0) \cup IF empfile = << >> THEN {} ELSE {"joined"})
        PROVE  HelperOK'
    <3>1. empfile = << >>
      BY <2>1 DEF Note
    <3>2. empfile' = << <<e.name, latest[e.name]>> >>
      BY <1>1, <3>1
    <3>3. Len(empfile') = 1 /\ empfile'[1][1] = e.name /\ empfile'[1][2] > e.ver
      BY <1>1, <3>2
    <3>4. \A q \in Pids : st'[q] \in Helping => q = p
      BY <1>0, <1>2, <2>1
    <3>5. st'[p] = "call" /\ img'[p] = <<e.name, e.ver>>
      BY <1>0, <2>1
    <3>6. \A q \in Pids : st'[q] # "sent"
      BY <3>4, <3>5 DEF Helping
    <3> QED
      BY <1>1, <3>3, <3>4, <3>5, <3>6 DEF HelperOK
  <2>2. ASSUME helper' = {}, st' = st PROVE HelperOK'
    BY <1>2, <2>2 DEF HelperOK, Helping
  <2> QED
    BY <2>1, <2>2 DEF Update
<1> QED
  BY <1>3, <1>4, <1>5 DEF Whole

\* The new file is copied into the directory, beside the old one.
LEMMA FetchWhole ==
  ASSUME TypeOK, ControlInv, Whole, Fetch
  PROVE  Whole'
<1>0. /\ listProcess \in Seq(Process) /\ i \in Nat \ {0} /\ st \in [Pids -> PidStates]
      /\ Len(listProcess) \in Nat /\ DOMAIN listProcess = 1 .. Len(listProcess)
      /\ helper \subseteq Pids
  BY ListTypes DEF TypeOK
<1> DEFINE e == listProcess[i]
           new == [name |-> empfile[1][1], ver |-> empfile[1][2], joined |-> Len(empfile) > 1]
<1>1. PICK p \in helper : st[p] = "listen" /\ st' = [st EXCEPT ![p] = "sent"]
  BY DEF Fetch
<1>2. /\ pc = "fetch" /\ pc' = "swap" /\ files' = files \cup {new}
      /\ UNCHANGED <<listLibs, listProcess, started, again, i, img, ret>>
  BY DEF Fetch, At, local
<1>3. Len(empfile) = 1 /\ empfile[1][1] = e.name /\ empfile[1][2] > e.ver
  BY <1>1, <1>2 DEF Whole, HelperOK
<1>4. new.name = e.name /\ new.ver > e.ver /\ ~new.joined
  <2>1. new.name = e.name /\ new.ver > e.ver
    BY <1>3
  <2>2. ~(Len(empfile) > 1)
    BY <1>3
  <2>3. new.joined = (Len(empfile) > 1)
    BY Zenon
  <2> QED
    BY <2>1, <2>2, <2>3, Zenon
<1> HIDE DEF new
<1>5. i \in DOMAIN listProcess
  BY <1>0, <1>2 DEF ControlInv
<1>6. /\ i \in DOMAIN listLibs /\ listLibs[i].name = e.name /\ listLibs[i].ver = e.ver
  BY <1>5 DEF Whole, PairOK
<1>7. Plain(<<e.name, e.ver>>) \in files
  BY <1>2, <1>6 DEF Whole, FilesOK
<1>8. LengthOK' /\ PairOK' /\ EntryOK' /\ OnceOK'
  BY <1>2 DEF Whole, LengthOK, PairOK, EntryOK, OnceOK, NameOnce
<1>9. StartedOK'
  BY <1>2 DEF Whole, StartedOK, Superseded, Replacing
<1>10. FilesOK'
  <2>1. Replacing(e.name, e.ver)'
    BY <1>2, <1>4 DEF Replacing
  <2> QED
    BY <1>2, <1>4, <2>1 DEF Whole, FilesOK, Exchanging, Replacing
<1>11. HelperOK'
  <2>1. \A q \in Pids : st'[q] \in Helping => q = p
    <3>1. \A q \in Pids : st[q] \in Helping => q = p
      BY <1>0, <1>1 DEF Whole, HelperOK, Helping
    <3> QED
      BY <1>0, <1>1, <3>1
  <2>2. st'[p] = "sent" /\ img'[p] = <<e.name, e.ver>>
    BY <1>0, <1>1, <1>2 DEF Whole, HelperOK, Helping
  <2>3. Plain(img[p])' \in files' /\ Replacing(img[p][1], img[p][2])'
    <3>1. img'[p][1] = e.name /\ img'[p][2] = e.ver
      BY <2>2
    <3>2. Plain(img'[p]) = Plain(<<e.name, e.ver>>)
      BY <2>2
    <3>3. new \in files'
      BY <1>2
    <3> QED
      BY <1>2, <1>4, <1>7, <3>1, <3>2, <3>3 DEF Replacing
  <2>4. \A q \in Pids : st'[q] \notin {"call", "listen"}
    BY <2>1, <2>2 DEF Helping
  <2>5. \A q \in Pids : st'[q] = "sent" => q = p
    BY <2>1 DEF Helping
  <2> QED
    BY <1>2, <2>1, <2>2, <2>3, <2>4, <2>5 DEF HelperOK, Exchanging
<1> QED
  BY <1>8, <1>9, <1>10, <1>11 DEF Whole

\* The entry that index k of a list comes from when entry n was erased.
Behind(n, k) == IF k < n THEN k ELSE k + 1

\* The remaining indices come from all the others, one from one.
LEMMA BehindBijection ==
  ASSUME NEW m \in Nat, NEW n \in 1 .. m
  PROVE  /\ \A k \in 1 .. m - 1 : Behind(n, k) \in 1 .. m /\ Behind(n, k) # n
         /\ \A j, k \in 1 .. m - 1 : Behind(n, j) = Behind(n, k) => j = k
         /\ \A j \in 1 .. m : j # n => \E k \in 1 .. m - 1 : Behind(n, k) = j
<1>1. \A k \in 1 .. m - 1 : Behind(n, k) \in 1 .. m /\ Behind(n, k) # n
  BY DEF Behind
<1>2. \A j, k \in 1 .. m - 1 : Behind(n, j) = Behind(n, k) => j = k
  BY DEF Behind
<1>3. ASSUME NEW j \in 1 .. m, j # n PROVE \E k \in 1 .. m - 1 : Behind(n, k) = j
  <2>1. CASE j < n
    <3>1. j \in 1 .. m - 1 /\ Behind(n, j) = j
      BY <1>3, <2>1 DEF Behind
    <3> QED
      BY <3>1
  <2>2. CASE j > n
    <3>1. j - 1 \in 1 .. m - 1 /\ Behind(n, j - 1) = j
      BY <1>3, <2>2 DEF Behind
    <3> QED
      BY <3>1
  <2> QED
    BY <1>3, <2>1, <2>2
<1> QED
  BY <1>1, <1>2, <1>3

\* The entries of a list without entry n.
LEMMA Shortened ==
  \A s, n : /\ DOMAIN RemoveIndex(s, n) = 1 .. Len(s) - 1
            /\ \A k \in 1 .. Len(s) - 1 : RemoveIndex(s, n)[k] = s[Behind(n, k)]
BY DEF RemoveIndex, Behind

\* update erases one index of both lists, whose entries belong together; the
\* erased library has a newer file.
LEMMA SwapWhole ==
  ASSUME TypeOK, ControlInv, Whole, Swap
  PROVE  Whole'
<1>0. /\ listProcess \in Seq(Process) /\ listLibs \in Seq(Lib) /\ i \in Nat \ {0}
      /\ Len(listProcess) \in Nat /\ DOMAIN listProcess = 1 .. Len(listProcess)
      /\ DOMAIN listLibs = 1 .. Len(listLibs) /\ st \in [Pids -> PidStates]
      /\ \A k \in DOMAIN listProcess : listProcess[k] \in Process
      /\ files \subseteq File /\ Versions \subseteq Nat /\ started \subseteq Libs
  BY ListTypes DEF TypeOK
<1> DEFINE e == listProcess[i]
           n == Len(listProcess)
<1>1. pc = "swap" /\ i <= n /\ n = Len(listLibs)
  BY DEF Swap, At, ControlInv, Whole, LengthOK
<1>2. /\ st' = [st EXCEPT ![e.pid] = Terminated(e.pid)]
      /\ listProcess' = RemoveIndex(listProcess, i) /\ listLibs' = RemoveIndex(listLibs, i)
      /\ pc' = "new" /\ ret' = "update" /\ UNCHANGED <<img, files, started, again>>
  BY <1>1 DEF Swap, Replace, disk
<1>3. /\ i \in DOMAIN listLibs /\ listLibs[i].name = e.name /\ listLibs[i].ver = e.ver
  BY <1>0, <1>1 DEF Whole, PairOK
<1>4. /\ DOMAIN listProcess' = 1 .. n - 1 /\ DOMAIN listLibs' = 1 .. n - 1
      /\ \A k \in 1 .. n - 1 :
           /\ listProcess'[k] = listProcess[Behind(i, k)] /\ listLibs'[k] = listLibs[Behind(i, k)]
           /\ Behind(i, k) \in 1 .. n /\ Behind(i, k) # i
      /\ \A j, k \in 1 .. n - 1 : Behind(i, j) = Behind(i, k) => j = k
      /\ \A j \in 1 .. n : j # i => \E k \in 1 .. n - 1 : Behind(i, k) = j
  <2>1. /\ DOMAIN listProcess' = 1 .. n - 1
        /\ \A k \in 1 .. n - 1 : listProcess'[k] = listProcess[Behind(i, k)]
    BY <1>2, Shortened
  <2>2. /\ DOMAIN listLibs' = 1 .. n - 1
        /\ \A k \in 1 .. n - 1 : listLibs'[k] = listLibs[Behind(i, k)]
    BY <1>1, <1>2, Shortened
  <2>3. i \in 1 .. n /\ n \in Nat
    BY <1>0, <1>1
  <2> HIDE DEF n
  <2>4. /\ \A k \in 1 .. n - 1 : Behind(i, k) \in 1 .. n /\ Behind(i, k) # i
        /\ \A j, k \in 1 .. n - 1 : Behind(i, j) = Behind(i, k) => j = k
        /\ \A j \in 1 .. n : j # i => \E k \in 1 .. n - 1 : Behind(i, k) = j
    BY <2>3, BehindBijection
  <2> QED
    BY <2>1, <2>2, <2>4
<1>5. LengthOK'
  <2>1. Len(listProcess') = n - 1 /\ Len(listLibs') = n - 1
    BY <1>0, <1>1, <1>2, RemoveIndexProperties
  <2> QED
    BY <1>2, <2>1 DEF LengthOK
<1>6. PairOK'
  <2>1. NameOnce(listLibs)'
    <3> SUFFICES ASSUME NEW j \in 1 .. n - 1, NEW k \in 1 .. n - 1,
                        listLibs'[j].name = listLibs'[k].name
                 PROVE  j = k
      BY <1>4 DEF NameOnce
    <3>1. Behind(i, j) \in DOMAIN listLibs /\ Behind(i, k) \in DOMAIN listLibs
      BY <1>0, <1>1, <1>4
    <3>2. listLibs[Behind(i, j)].name = listLibs[Behind(i, k)].name
      BY <1>4
    <3>3. Behind(i, j) = Behind(i, k)
      BY <3>1, <3>2 DEF Whole, PairOK, NameOnce
    <3> QED
      BY <1>4, <3>3
  <2>2. \A k \in 1 .. n - 1 :
          /\ listProcess'[k].name = listLibs'[k].name /\ listProcess'[k].ver = listLibs'[k].ver
    BY <1>0, <1>4 DEF Whole, PairOK
  <2> QED
    BY <1>4, <2>1, <2>2 DEF PairOK
<1>7. EntryOK'
  <2>1. ASSUME NEW k \in 1 .. n - 1
        PROVE  /\ listLibs'[k].type = Type[listLibs'[k].name] /\ listLibs'[k].status = 1
               /\ listProcess'[k].type = Type[listProcess'[k].name]
               /\ listProcess'[k].status \in {0, 1}
    <3>1. Behind(i, k) \in DOMAIN listLibs /\ Behind(i, k) \in DOMAIN listProcess
      BY <1>0, <1>1, <1>4
    <3>2. listProcess'[k] = listProcess[Behind(i, k)] /\ listLibs'[k] = listLibs[Behind(i, k)]
      BY <1>4
    <3> QED
      BY <3>1, <3>2 DEF Whole, EntryOK
  <2> QED
    BY <1>4, <2>1 DEF EntryOK
<1>8. OnceOK'
  BY <1>2 DEF Whole, OnceOK
<1>9. FilesOK'
  <2>1. \A k \in DOMAIN listLibs' : Plain(<<listLibs'[k].name, listLibs'[k].ver>>) \in files
    BY <1>0, <1>1, <1>4 DEF Whole, FilesOK
  <2> QED
    BY <1>2, <2>1 DEF Whole, FilesOK, Exchanging
<1>10. HelperOK'
  <2>1. ASSUME NEW q \in Pids, st'[q] \in Helping
        PROVE  /\ st'[q] = "sent" /\ st[q] = "sent"
               /\ img[q] = <<e.name, e.ver>>
    <3>1. st'[q] = st[q]
      <4>1. Terminated(e.pid) \notin Helping
        BY <1>0 DEF Terminated, Helping
      <4> QED
        BY <1>0, <1>2, <2>1, <4>1
    <3>2. st[q] = "sent"
      BY <1>1, <2>1, <3>1 DEF Whole, HelperOK, Helping
    <3> QED
      BY <1>1, <2>1, <3>1, <3>2 DEF Whole, HelperOK
  <2>2. \A p, q \in Pids : st'[p] \in Helping /\ st'[q] \in Helping => p = q
    BY <2>1 DEF Whole, HelperOK, Helping
  <2>3. \A p \in Pids : st'[p] \notin {"call", "listen"}
    BY <2>1 DEF Helping
  <2>4. ASSUME NEW q \in Pids, st'[q] \in Helping
        PROVE  /\ Plain(img[q]) \in files /\ Replacing(img[q][1], img[q][2])
               /\ \A k \in DOMAIN listLibs' : listLibs'[k].name # img[q][1]
    <3>1. Plain(img[q]) \in files /\ Replacing(img[q][1], img[q][2])
      BY <2>1, <2>4 DEF Whole, HelperOK
    <3>2. img[q][1] = e.name
      BY <2>1, <2>4
    <3>3. ASSUME NEW k \in 1 .. n - 1 PROVE listLibs'[k].name # e.name
      <4>1. Behind(i, k) \in DOMAIN listLibs /\ Behind(i, k) # i
        BY <1>0, <1>1, <1>4, <3>3
      <4>2. listLibs[Behind(i, k)].name # listLibs[i].name
        BY <1>3, <4>1 DEF Whole, PairOK, NameOnce
      <4> QED
        BY <1>3, <1>4, <4>2
    <3> QED
      BY <1>4, <3>1, <3>2, <3>3
  <2>5. \A q \in Pids : st'[q] = "sent" => st'[q] \in Helping
    BY DEF Helping
  <2> QED
    BY <1>2, <2>2, <2>3, <2>4, <2>5 DEF HelperOK, Exchanging, Replacing
<1>11. StartedOK'
  <2> SUFFICES ASSUME NEW l \in started PROVE Superseded(l[1], l[2])'
    BY <1>2 DEF StartedOK
  <2>1. CASE Replacing(l[1], l[2])
    BY <1>2, <2>1 DEF Superseded, Replacing
  <2>2. ASSUME NEW j \in DOMAIN listProcess, listProcess[j].name = l[1], listProcess[j].ver >= l[2]
        PROVE  Superseded(l[1], l[2])'
    <3>1. CASE j # i
      <4>1. PICK k \in 1 .. n - 1 : Behind(i, k) = j
        BY <1>0, <1>4, <3>1
      <4>2. listProcess'[k] = listProcess[j] /\ k \in DOMAIN listProcess'
        BY <1>4, <4>1
      <4> QED
        BY <2>2, <4>2 DEF Superseded
    <3>2. CASE j = i
      <4>1. PICK f \in files : f.name = e.name /\ f.ver > e.ver
        BY <1>1 DEF Whole, FilesOK, Replacing
      <4>2. f.ver \in Nat /\ e.ver \in Nat /\ l[2] \in Nat
        <5>1. f.ver \in Nat /\ e.ver \in Nat
          <6>1. e \in Process /\ f \in File
            BY <1>0, <1>1, <4>1
          <6> HIDE DEF e
          <6> QED
            BY <1>0, <6>1, FieldTypes
        <5>2. l[2] \in Nat
          BY <1>0 DEF Libs
        <5> QED
          BY <5>1, <5>2
      <4>3. f.name = l[1] /\ f.ver > l[2]
        BY <2>2, <3>2, <4>1, <4>2
      <4> QED
        BY <1>2, <4>3 DEF Superseded, Replacing
    <3> QED
      BY <3>1, <3>2
  <2> QED
    BY <2>1, <2>2 DEF Whole, StartedOK, Superseded
<1> QED
  BY <1>5, <1>6, <1>7, <1>8, <1>9, <1>10, <1>11 DEF Whole

-----------------------------------------------------------------------------
(* The helper and the directory.                                           *)

\* The helper removes the old file of the library being replaced, and no file
\* that an entry or the fork history needs.
LEMMA HelperRemovesWhole ==
  ASSUME TypeOK, ControlInv, Whole, NEW p \in Pids, HelperRemoves(p)
  PROVE  Whole'
<1>0. /\ i \in Nat \ {0} /\ st \in [Pids -> PidStates] /\ DOMAIN listProcess = 1 .. Len(listProcess)
      /\ \A k \in DOMAIN listProcess : listProcess[k] \in Process
      /\ files \subseteq File /\ Versions \subseteq Nat /\ started \subseteq Libs
  BY ListTypes DEF TypeOK
<1> DEFINE n == img[p][1]
           v == img[p][2]
<1>1. /\ st[p] = "sent" /\ files' = files \ {Plain(img[p])}
      /\ st' = [st EXCEPT ![p] = "zombie"]
      /\ UNCHANGED <<listLibs, listProcess, img, pc, i, ret, libNew, helper, empfile, started, again>>
  BY DEF HelperRemoves, ChildEnds, local
<1>2. Exchanging /\ Plain(img[p]) \in files /\ Replacing(n, v)
  BY <1>1 DEF Whole, HelperOK
<1>3. Plain(img[p]).name = n /\ Plain(img[p]).ver = v
  BY DEF Plain
<1>4. v \in Nat
  <2>1. Plain(img[p]) \in File
    BY <1>0, <1>2
  <2> QED
    BY <1>0, <1>3, <2>1, FieldTypes
<1>5. PICK g \in files : g.name = n /\ g.ver > v
  BY <1>2 DEF Replacing
<1>6. g \in files' /\ g.ver \in Nat
  <2>1. g.ver \in Nat
    BY <1>0, FieldTypes
  <2>2. g # Plain(img[p])
    BY <1>3, <1>4, <1>5, <2>1
  <2> QED
    BY <1>1, <2>1, <2>2
<1>7. pc = "swap" => /\ i \in DOMAIN listProcess /\ listProcess[i].name = n /\ listProcess[i].ver = v
                     /\ i \in DOMAIN listLibs /\ listLibs[i].name = n
  <2> SUFFICES ASSUME pc = "swap"
               PROVE  /\ i \in DOMAIN listProcess /\ listProcess[i].name = n /\ listProcess[i].ver = v
                      /\ i \in DOMAIN listLibs /\ listLibs[i].name = n
    OBVIOUS
  <2>1. i \in DOMAIN listProcess
    BY <1>0, ListTypes DEF ControlInv
  <2>2. img[p] = <<listProcess[i].name, listProcess[i].ver>>
    BY <1>1 DEF Whole, HelperOK, Helping
  <2>3. listProcess[i].name = n /\ listProcess[i].ver = v
    BY <2>2
  <2> QED
    BY <2>1, <2>3 DEF Whole, PairOK
<1>8. \A q \in Pids : st'[q] \notin Helping
  <2>1. \A q \in Pids : st[q] \in Helping => q = p
    BY <1>1 DEF Whole, HelperOK, Helping
  <2> QED
    BY <1>0, <1>1, <2>1 DEF Helping
<1>9. HelperOK'
  BY <1>1, <1>2, <1>8 DEF HelperOK, Helping, Exchanging
<1>10. LengthOK' /\ PairOK' /\ EntryOK' /\ OnceOK'
  BY <1>1 DEF Whole, LengthOK, PairOK, EntryOK, OnceOK, NameOnce
<1>11. FilesOK'
  <2>1. Exchanging' /\ \A f \in files' : ~f.joined
    BY <1>1, <1>2 DEF Whole, FilesOK, Exchanging
  <2>2. ASSUME NEW k \in DOMAIN listLibs, pc = "swap" => k # i
        PROVE  Plain(<<listLibs[k].name, listLibs[k].ver>>) \in files'
    <3>1. Plain(<<listLibs[k].name, listLibs[k].ver>>) \in files
      BY <2>2 DEF Whole, FilesOK
    <3>2. listLibs[k].name # n
      <4>1. CASE pc = "swap"
        BY <1>7, <2>2, <4>1 DEF Whole, PairOK, NameOnce
      <4>2. CASE pc = "new"
        BY <1>1, <2>2, <4>2 DEF Whole, HelperOK, Helping
      <4> QED
        BY <1>2, <4>1, <4>2 DEF Exchanging
    <3>3. Plain(<<listLibs[k].name, listLibs[k].ver>>) # Plain(img[p])
      BY <1>3, <3>2, PlainFields
    <3> QED
      BY <1>1, <3>1, <3>3
  <2>3. pc = "swap" => Replacing(listProcess[i].name, listProcess[i].ver)'
    BY <1>1, <1>5, <1>6, <1>7 DEF Replacing
  <2> QED
    BY <1>1, <2>1, <2>2, <2>3 DEF FilesOK
<1>12. StartedOK'
  <2> SUFFICES ASSUME NEW l \in started PROVE Superseded(l[1], l[2])'
    BY <1>1 DEF StartedOK
  <2>1. CASE \E k \in DOMAIN listProcess : listProcess[k].name = l[1] /\ listProcess[k].ver >= l[2]
    BY <1>1, <2>1 DEF Superseded
  <2>2. ASSUME NEW f \in files, f.name = l[1], f.ver > l[2] PROVE Superseded(l[1], l[2])'
    <3>1. CASE f # Plain(img[p])
      BY <1>1, <2>2, <3>1 DEF Superseded, Replacing
    <3>2. CASE f = Plain(img[p])
      <4>1. l[2] \in Nat
        BY <1>0 DEF Libs
      <4>2. g.name = l[1] /\ g.ver > l[2]
        BY <1>3, <1>4, <1>5, <1>6, <2>2, <3>2, <4>1
      <4> QED
        BY <1>6, <4>2 DEF Superseded, Replacing
    <3> QED
      BY <3>1, <3>2
  <2> QED
    BY <2>1, <2>2 DEF Whole, StartedOK, Superseded, Replacing
<1> QED
  BY <1>9, <1>10, <1>11, <1>12 DEF Whole

\* A library is installed under a name that no file has.
LEMMA InstallWhole ==
  ASSUME Whole, NEW n \in Names, Install(n)
  PROVE  Whole'
<1> DEFINE f == Plain(<<n, FirstVersion>>)
<1>1. /\ files' = files \cup {f} /\ \A g \in files : g.name # n
      /\ UNCHANGED <<listLibs, listProcess, st, img, pc, i, ret, libNew, helper, empfile, started, again>>
  BY DEF Install, os, local
<1>2. f.name = n /\ ~f.joined
  BY PlainFields
<1> HIDE DEF f
<1>3. LengthOK' /\ PairOK' /\ EntryOK' /\ OnceOK'
  BY <1>1 DEF Whole, LengthOK, PairOK, EntryOK, OnceOK, NameOnce
<1>4. HelperOK'
  BY <1>1 DEF Whole, HelperOK, Exchanging, Replacing
<1>5. StartedOK'
  BY <1>1 DEF Whole, StartedOK, Superseded, Replacing
<1>6. FilesOK'
  <2>1. FilesOnce => FilesOnce'
    BY <1>1, <1>2 DEF FilesOnce
  <2> QED
    BY <1>1, <1>2, <2>1 DEF Whole, FilesOK, Exchanging, Replacing
<1> QED
  BY <1>3, <1>4, <1>5, <1>6 DEF Whole

-----------------------------------------------------------------------------
(* The lists are usable.                                                   *)

\* A child, the handler or the world acts.
LEMMA SurroundingsWhole ==
  ASSUME TypeOK, ControlInv, Whole,
         Deliver \/ Reap \/ (\E p \in Pids : Children(p)) \/ World
  PROVE  Whole'
<1>0. st \in [Pids -> PidStates] /\ img \in [Pids -> Libs \cup {NoLib}]
  BY ListTypes
<1> DEFINE Same == UNCHANGED <<listLibs, listProcess, files, started, again, pc, i, ret, libNew,
                               helper, empfile>>
           Kept == \A p \in Pids : st'[p] \in Helping =>
                     /\ st[p] \in Helping /\ (st'[p] = "sent" <=> st[p] = "sent")
                     /\ img'[p] = img[p]
<1>1. ASSUME Same, Kept PROVE Whole'
  BY <1>1, FrameWhole
<1>2. CASE Deliver \/ Reap
  <2>1. Same
    BY <1>2 DEF Deliver, Reap, disk, local
  <2>2. Kept
    BY <1>0, <1>2 DEF Deliver, Reap, Helping
  <2> QED
    BY <1>1, <2>1, <2>2
<1>3. ASSUME NEW p \in Pids, AgentExit(p) \/ HelperFails(p) \/ HelperCalls(p) PROVE Whole'
  <2>1. Same
    BY <1>3 DEF AgentExit, HelperFails, HelperCalls, ChildEnds, disk, local
  <2>2. Kept
    BY <1>0, <1>3 DEF AgentExit, HelperFails, HelperCalls, ChildEnds, Helping
  <2> QED
    BY <1>1, <2>1, <2>2
<1>4. ASSUME NEW p \in Pids, HelperRemoves(p) PROVE Whole'
  BY <1>4, HelperRemovesWhole
<1>5. ASSUME NEW n \in Names, Install(n) PROVE Whole'
  BY <1>5, InstallWhole
<1>6. ASSUME NEW p \in Pids, AlienExit(p) PROVE Whole'
  <2>1. Same
    BY <1>6 DEF AlienExit, disk, local
  <2>2. Kept
    BY <1>0, <1>6 DEF AlienExit, Helping
  <2> QED
    BY <1>1, <2>1, <2>2
<1>7. CASE Tick \/ \E n \in Names, v \in Versions : Publish(n, v)
  <2>1. Same /\ st' = st /\ img' = img
    BY <1>7 DEF Tick, Publish, os, disk, local
  <2> QED
    BY <1>1, <2>1
<1> QED
  BY <1>2, <1>3, <1>4, <1>5, <1>6, <1>7, Zenon DEF Children, World

\* The steps of the master that only move its control point.
LEMMA ControlWhole ==
  ASSUME TypeOK, Whole,
         KeepProcess \/ StateDone \/ Open \/ WakeUp \/ Ping \/ RpcFails \/ UpToDate \/ UpdateDone
  PROVE  Whole'
<1>1. UNCHANGED <<listLibs, listProcess, files, started, again, st, img>>
  BY DEF KeepProcess, StateDone, Open, WakeUp, Ping, RpcFails, UpToDate, UpdateDone, os, disk
<1>2. /\ pc \in Quiet /\ pc' \in Quiet \cup {"new", "exit"}
      /\ pc' = "new" => ret' # "update"
  BY DEF KeepProcess, StateDone, Open, WakeUp, Ping, RpcFails, UpToDate, UpdateDone, Quiet, At, local
<1> QED
  BY <1>1, <1>2, QuietWhole

\* In a regular history no step of a running master breaks the invariant.
LEMMA RunningStep ==
  ASSUME TypeOK, ControlInv, Whole, Regular', pc \notin Ended, Next, pc' # "undefined"
  PROVE  pc' # "exit" => Whole'
<1>0. /\ "popped" \notin incidents' /\ "burst" \notin incidents' /\ "stale" \notin incidents'
      /\ "joined" \notin incidents' /\ "restored" \notin incidents'
  BY DEF Regular
<1>1. CASE Boot
  BY <1>0, <1>1, BootWhole
<1>2. CASE StartLib
  BY <1>2, StartLibWhole
<1>3. CASE StartDone
  BY <1>3, StartDoneWhole
<1>4. ~ForkFails
  BY <1>0 DEF ForkFails, Note
<1>5. CASE MarkDead \/ RestartProcess
  BY <1>5, CheckStateWhole
<1>6. CASE KeepProcess \/ StateDone \/ Open \/ WakeUp \/ Ping \/ RpcFails \/ UpToDate \/ UpdateDone
  BY <1>6, ControlWhole
<1>7. CASE CheckNew
  BY <1>0, <1>7, CheckNewWhole
<1>8. ~ScanOverflows
  BY DEF ScanOverflows
<1>9. CASE StartNew
  BY <1>9, StartNewWhole
<1>10. CASE Update
  BY <1>0, <1>10, UpdateWhole
<1>11. CASE Fetch
  BY <1>11, FetchWhole
<1>12. CASE FetchRefused
  BY <1>12 DEF FetchRefused
<1>13. CASE Swap
  BY <1>13, SwapWhole
<1>14. CASE Deliver \/ Reap \/ (\E p \in Pids : Children(p)) \/ World
  BY <1>14, SurroundingsWhole
<1> QED
  BY <1>1, <1>2, <1>3, <1>4, <1>5, <1>6, <1>7, <1>8, <1>9, <1>10, <1>11, <1>12, <1>13, <1>14, Zenon
  DEF Next, Unsupervised, Master

\* A step to the end of onRun leaves the lists and the fork history alone.
LEMMA ExitStep ==
  ASSUME TypeOK, Whole, pc \notin Ended, Next, pc' = "exit"
  PROVE  LengthOK' /\ PairOK' /\ OnceOK'
<1>1. UNCHANGED <<listLibs, listProcess, again>> /\ pc \notin {"boot", "start", "fork"}
  <2>1. CASE StateDone \/ RpcFails \/ FetchRefused
    BY <2>1 DEF StateDone, RpcFails, FetchRefused, At
  <2>2. CASE Boot \/ StartLib \/ StartDone \/ ForkFails \/ KeepProcess \/ MarkDead \/ RestartProcess
    BY <2>2 DEF Boot, StartLib, StartDone, ForkFails, KeepProcess, MarkDead, RestartProcess,
       Restart, At, Ended
  <2>3. CASE Open \/ WakeUp \/ ScanOverflows \/ Ping \/ UpToDate \/ Update \/ UpdateDone \/ Fetch \/ Swap
    BY <2>3 DEF Open, WakeUp, ScanOverflows, Ping, UpToDate, Update, UpdateDone, Fetch, Swap,
       Replace, At
  <2>4. CASE CheckNew \/ StartNew
    <3>1. pc' \in {"fork", ret} /\ ret # "exit"
      BY <2>4 DEF CheckNew, StartNew, TypeOK
    <3> QED
      BY <3>1
  <2>5. CASE Deliver \/ Reap \/ (\E p \in Pids : Children(p)) \/ World
    <3>1. pc' = pc
      BY <2>5, Zenon DEF Deliver, Reap, Children, AgentExit, HelperCalls, HelperFails, HelperRemoves,
         ChildEnds, World, AlienExit, Publish, Install, Tick
    <3> QED
      BY <3>1 DEF Ended
  <2> QED
    BY <2>1, <2>2, <2>3, <2>4, <2>5, Zenon DEF Next, Unsupervised, Master
<1> QED
  BY <1>1 DEF Whole, LengthOK, PairOK, OnceOK, NameOnce

\* Every step preserves ListsInv.
LEMMA ListsStep ==
  ASSUME TypeOK, ControlInv, ListsInv, [Next]_vars
  PROVE  ListsInv'
<1>1. CASE UNCHANGED vars
  <2>1. UNCHANGED <<listLibs, listProcess, files, started, again, pc, i, ret, libNew,
                    helper, empfile, st, img, incidents>>
    BY <1>1 DEF vars, os, disk, local
  <2>2. Regular' = Regular
    BY <2>1 DEF Regular
  <2>3. LengthOK' = LengthOK /\ PairOK' = PairOK /\ OnceOK' = OnceOK
    BY <2>1 DEF LengthOK, PairOK, OnceOK, NameOnce
  <2>4. Whole => Whole'
    BY <2>1, FrameWhole
  <2> QED
    BY <2>1, <2>2, <2>3, <2>4 DEF ListsInv
<1>2. CASE Next /\ pc \in Ended
  <2>1. UNCHANGED vars
    BY <1>2 DEF Next, Unsupervised
  <2> QED
    BY <1>1, <2>1
<1>3. CASE Next /\ pc \notin Ended
  <2> SUFFICES ASSUME Regular'
               PROVE  /\ OnceOK' /\ (pc' # "undefined" => LengthOK' /\ PairOK')
                      /\ (pc' \notin Ended => Whole')
    BY DEF ListsInv
  <2>1. Regular
    BY IncidentsGrow DEF Regular
  <2>2. Whole
    BY <1>3, <2>1 DEF ListsInv
  <2>3. CASE pc' = "exit"
    <3>1. LengthOK' /\ PairOK' /\ OnceOK'
      BY <1>3, <2>2, <2>3, ExitStep
    <3> QED
      BY <2>3, <3>1 DEF Ended
  <2>4. CASE pc' = "undefined"
    <3>1. again' = again
      <4>1. CASE ForkFails \/ ScanOverflows \/ Swap
        BY <4>1 DEF ForkFails, ScanOverflows, Swap, Replace
      <4>2. CASE Boot \/ StartLib \/ StartDone \/ KeepProcess \/ MarkDead \/ RestartProcess \/ StateDone
        BY <2>4, <4>2 DEF Boot, StartLib, StartDone, KeepProcess, MarkDead, RestartProcess, Restart,
           StateDone, At
      <4>3. CASE Open \/ WakeUp \/ Ping \/ RpcFails \/ UpToDate \/ Update \/ UpdateDone \/ Fetch
                 \/ FetchRefused
        BY <2>4, <4>3 DEF Open, WakeUp, Ping, RpcFails, UpToDate, Update, UpdateDone, Fetch,
           FetchRefused, At
      <4>4. CASE CheckNew \/ StartNew
        <5>1. pc' \in {"fork", ret} /\ ret # "undefined"
          BY <4>4 DEF CheckNew, StartNew, TypeOK
        <5> QED
          BY <2>4, <5>1
      <4>5. CASE Deliver \/ Reap \/ (\E p \in Pids : Children(p)) \/ World
        BY <4>5, Zenon DEF Deliver, Reap, Children, AgentExit, HelperCalls, HelperFails,
           HelperRemoves, ChildEnds, World, AlienExit, Publish, Install, Tick
      <4> QED
        BY <1>3, <4>1, <4>2, <4>3, <4>4, <4>5, Zenon DEF Next, Unsupervised, Master
    <3>2. OnceOK'
      BY <2>2, <3>1 DEF Whole, OnceOK
    <3> QED
      BY <2>4, <3>2 DEF Ended
  <2>5. CASE pc' \notin Ended
    <3>1. Whole'
      BY <1>3, <2>2, <2>5, RunningStep DEF Ended
    <3> QED
      BY <2>5, <3>1 DEF Whole, Ended
  <2> QED
    BY <2>3, <2>4, <2>5 DEF Ended
<1> QED
  BY <1>1, <1>2, <1>3

\* The invariant holds when the master starts: the lists are empty and the
\* directory has one file per name.
LEMMA InitLists == Init => ListsInv
<1> SUFFICES ASSUME Init PROVE Whole
  BY DEF ListsInv, Whole
<1>1. /\ listLibs = << >> /\ listProcess = << >> /\ started = {} /\ again = {} /\ pc = "boot"
  BY DEF Init
<1>2. \A p \in Pids : st[p] \notin Helping
  BY DEF Init, Helping
<1>3. PICK S \in SUBSET Names : files = {Plain(<<n, FirstVersion>>) : n \in S}
  BY DEF Init
<1>4. \A n : Plain(<<n, FirstVersion>>).name = n /\ ~Plain(<<n, FirstVersion>>).joined
  BY PlainFields
<1>5. FilesOnce /\ \A f \in files : ~f.joined
  <2>1. \A f \in files : f = Plain(<<f.name, FirstVersion>>) /\ ~f.joined
    BY <1>3, <1>4, Zenon
  <2> QED
    BY <2>1, Zenon DEF FilesOnce
<1>6. DOMAIN listLibs = {} /\ DOMAIN listProcess = {}
  BY <1>1
<1>7. HelperOK
  BY <1>1, <1>2, NoHelper
<1> QED
  BY <1>1, <1>5, <1>6, <1>7 DEF Whole, LengthOK, PairOK, EntryOK, FilesOK, StartedOK, OnceOK, NameOnce

\* Both lists are usable as update and checkState use them, in a regular
\* history and for any libraries, versions and pids: they name the same
\* libraries in the same order, the library of every listed process is on
\* disk between two rounds of the loop, and no one-shot library is run twice.
THEOREM AgentListsUsable == Spec => []ListsUsable
<1>1. Init => ListsInv
  BY InitLists
<1>2. TypeOK /\ ControlInv /\ ListsInv /\ [Next]_vars => ListsInv'
  BY ListsStep
<1>3. TypeOK /\ ListsInv => ListsUsable
  <2> SUFFICES ASSUME TypeOK, ListsInv PROVE ListsUsable
    OBVIOUS
  <2>0. DOMAIN listLibs = 1 .. Len(listLibs) /\ DOMAIN listProcess = 1 .. Len(listProcess)
    BY ListTypes
  <2>1. ListsAligned
    BY <2>0 DEF ListsInv, ListsAligned, LengthOK, PairOK
  <2>2. ASSUME Regular, pc \in {"idle", "open"}, NEW k \in DOMAIN listProcess
        PROVE  Plain(<<listProcess[k].name, listProcess[k].ver>>) \in files
    <3>1. PairOK /\ FilesOK
      BY <2>2 DEF ListsInv, Whole, Ended
    <3>2. /\ k \in DOMAIN listLibs /\ listProcess[k].name = listLibs[k].name
          /\ listProcess[k].ver = listLibs[k].ver
      BY <3>1 DEF PairOK
    <3>3. Plain(<<listLibs[k].name, listLibs[k].ver>>) \in files
      BY <2>2, <3>1, <3>2 DEF FilesOK
    <3> QED
      BY <3>2, <3>3
  <2>3. OneShotRunsOnce
    BY DEF ListsInv, OnceOK, OneShotRunsOnce
  <2> QED
    BY <2>1, <2>2, <2>3 DEF ListsUsable, ListedCanBeRestarted
<1> QED
  BY <1>1, <1>2, <1>3, AgentTypeOK, PTL DEF Spec

-----------------------------------------------------------------------------
(* Restart after the delay.                                                *)

\* Every running agent is the entry of its library, and an entry of type 1 that
\* is marked dead has no agent and a time of death no earlier than its end.
DelayOK ==
  /\ \A n \in Names : diedAt[n] <= now
  /\ \A p \in Pids : st[p] = "run" => \E k : ListedAs(listProcess, p, k)
  /\ \A k \in DOMAIN listProcess :
       listProcess[k].type = 1 /\ listProcess[k].status = 0 =>
         /\ diedAt[listProcess[k].name] <= listProcess[k].death
         /\ \A p \in Pids : st[p] = "run" => img[p][1] # listProcess[k].name
DelayInv == Regular /\ pc \notin Ended => DelayOK

\* A step that keeps the list, lets no agent run that did not, and ends none.
LEMMA DelayStays ==
  ASSUME DelayOK, UNCHANGED <<listProcess, diedAt>>, \A n \in Names : diedAt[n] <= now',
         \A p \in Pids : st'[p] = "run" => st[p] = "run" /\ img'[p] = img[p]
  PROVE  DelayOK'
<1>1. \A p \in Pids : st'[p] = "run" => \E k : ListedAs(listProcess, p, k)'
  BY DEF DelayOK, ListedAs
<1> QED
  BY <1>1 DEF DelayOK

\* The names of listed processes are distinct, as those of their libraries.
LEMMA ProcessNamesOnce ==
  ASSUME PairOK
  PROVE  NameOnce(listProcess)
BY DEF PairOK, NameOnce

\* Pushing the process of a library that no process is listed for.
LEMMA DelayAfterPush ==
  ASSUME TypeOK, DelayOK, NEW p \in Pids, NEW l \in Lib, l.status = 1,
         \A k \in DOMAIN listProcess : listProcess[k].name # l.name,
         ForkAgent(p, l.name, l.ver),
         listProcess' = Append(listProcess, ProcessOf(l, p)), now' = now
  PROVE  DelayOK'
<1>0. /\ listProcess \in Seq(Process) /\ Len(listProcess) \in Nat
      /\ DOMAIN listProcess = 1 .. Len(listProcess)
      /\ st \in [Pids -> PidStates] /\ img \in [Pids -> Libs \cup {NoLib}]
  BY ListTypes
<1> DEFINE n == Len(listProcess) + 1
           e == ProcessOf(l, p)
<1>1. e \in Process /\ e.pid = p /\ e.name = l.name /\ e.status = 1
  BY ProcessOfType DEF ProcessOf
<1> HIDE DEF e
<1>2. /\ listProcess'[n] = e /\ n \in DOMAIN listProcess'
      /\ \A k \in DOMAIN listProcess : k \in DOMAIN listProcess' /\ listProcess'[k] = listProcess[k]
      /\ \A k \in DOMAIN listProcess' : k = n \/ k \in DOMAIN listProcess
  <2>1. /\ listProcess' \in Seq(Process) /\ Len(listProcess') = n /\ listProcess'[n] = e
        /\ \A k \in 1 .. Len(listProcess) : listProcess'[k] = listProcess[k]
    BY <1>0, <1>1, AppendProperties DEF e
  <2>2. DOMAIN listProcess' = 1 .. n
    BY <2>1
  <2> QED
    BY <1>0, <2>1, <2>2
<1> HIDE DEF n
<1>3. /\ st' = [st EXCEPT ![p] = "run"] /\ img' = [img EXCEPT ![p] = <<l.name, l.ver>>]
      /\ diedAt' = diedAt
  BY DEF ForkAgent
<1>4. img'[p] = <<l.name, l.ver>>
  BY <1>0, <1>3
<1>5. img'[p][1] = l.name
  BY <1>4
<1>6. \A q \in Pids : q # p /\ st'[q] = "run" => st[q] = "run" /\ img'[q] = img[q]
  BY <1>0, <1>3
<1>7. \A q \in Pids : st'[q] = "run" => \E k : ListedAs(listProcess, q, k)'
  <2>1. \E k : ListedAs(listProcess, p, k)'
    BY <1>1, <1>2, <1>5 DEF ListedAs
  <2>2. ASSUME NEW q \in Pids, q # p, st'[q] = "run" PROVE \E k : ListedAs(listProcess, q, k)'
    <3>1. PICK k : ListedAs(listProcess, q, k)
      BY <1>6, <2>2 DEF DelayOK
    <3>2. ListedAs(listProcess, q, k)'
      BY <1>2, <1>6, <2>2, <3>1 DEF ListedAs
    <3> QED
      BY <3>2
  <2> QED
    BY <2>1, <2>2
<1>8. ASSUME NEW k \in DOMAIN listProcess', listProcess'[k].type = 1, listProcess'[k].status = 0
      PROVE  /\ diedAt[listProcess'[k].name] <= listProcess'[k].death
             /\ \A q \in Pids : st'[q] = "run" => img'[q][1] # listProcess'[k].name
  <2>1. k \in DOMAIN listProcess /\ listProcess'[k] = listProcess[k]
    BY <1>1, <1>2, <1>8
  <2>2. /\ diedAt[listProcess[k].name] <= listProcess[k].death
        /\ \A q \in Pids : st[q] = "run" => img[q][1] # listProcess[k].name
    BY <1>8, <2>1 DEF DelayOK
  <2> QED
    BY <1>5, <1>6, <2>1, <2>2
<1> QED
  BY <1>3, <1>7, <1>8 DEF DelayOK

\* DelayOK is preserved by every step of a regular history.
LEMMA DelayStep ==
  ASSUME TypeOK, ControlInv, Whole, DelayOK, Regular', pc \notin Ended, Next,
         pc' \notin Ended
  PROVE  DelayOK'
<1>0. /\ listProcess \in Seq(Process) /\ listLibs \in Seq(Lib) /\ i \in Nat \ {0}
      /\ Len(listProcess) \in Nat /\ Len(listLibs) \in Nat
      /\ DOMAIN listProcess = 1 .. Len(listProcess) /\ DOMAIN listLibs = 1 .. Len(listLibs)
      /\ st \in [Pids -> PidStates] /\ img \in [Pids -> Libs \cup {NoLib}]
      /\ \A k \in DOMAIN listProcess : listProcess[k] \in Process
      /\ \A k \in DOMAIN listLibs : listLibs[k] \in Lib
      /\ now \in Nat /\ diedAt \in [Names -> Nat]
  BY ListTypes DEF TypeOK
<1>00. \A n \in Names : diedAt[n] <= now
  BY DEF DelayOK
\* The next library of listLibs has no process yet.
<1>1. ASSUME NEW n \in DOMAIN listLibs, n = Len(listProcess) + 1
      PROVE  \A k \in DOMAIN listProcess : listProcess[k].name # listLibs[n].name
  <2> SUFFICES ASSUME NEW k \in DOMAIN listProcess, listProcess[k].name = listLibs[n].name
               PROVE  FALSE
    OBVIOUS
  <2>1. k \in DOMAIN listLibs /\ listLibs[k].name = listLibs[n].name
    BY DEF Whole, PairOK
  <2>2. k = n
    BY <2>1 DEF Whole, PairOK, NameOnce
  <2> QED
    BY <1>0, <1>1, <2>2
<1>2. CASE Boot
  <2>1. log = << >>
    BY <1>2 DEF Boot, Note, Regular
  <2>2. DOMAIN listProcess' = {}
    BY <1>2, <2>1 DEF Boot, readLog
  <2>3. \A p \in Pids : st'[p] # "run"
    BY <1>2 DEF Boot, At, ControlInv, os
  <2>4. now' = now /\ diedAt' = diedAt
    BY <1>2 DEF Boot
  <2> QED
    BY <1>00, <2>2, <2>3, <2>4 DEF DelayOK
<1>3. CASE StartLib
  <2>1. PICK p \in Pids :
          /\ ForkAgent(p, listLibs[i].name, listLibs[i].ver)
          /\ listProcess' = Append(listProcess, ProcessOf(listLibs[i], p))
    BY <1>3 DEF StartLib
  <2>2. i = Len(listProcess) + 1 /\ i \in DOMAIN listLibs /\ now' = now
    BY <1>0, <1>3 DEF StartLib, At, Whole, LengthOK
  <2>3. listLibs[i].status = 1 /\ listLibs[i] \in Lib
    BY <1>0, <2>2 DEF Whole, EntryOK
  <2> QED
    BY <1>1, <2>1, <2>2, <2>3, DelayAfterPush
<1>4. CASE StartNew
  <2> DEFINE l == Head(libNew)
  <2>1. PICK p \in Pids :
          /\ ForkAgent(p, l.name, l.ver)
          /\ listProcess' = Append(listProcess, ProcessOf(l, p))
    BY <1>4 DEF StartNew
  <2>2. /\ Len(listLibs) = Len(listProcess) + 1 /\ Len(listLibs) \in DOMAIN listLibs
        /\ l = listLibs[Len(listLibs)] /\ now' = now
    BY <1>0, <1>4 DEF StartNew, At, Whole, LengthOK
  <2>3. l.status = 1 /\ l \in Lib
    BY <1>0, <2>2 DEF Whole, EntryOK
  <2>4. \A k \in DOMAIN listProcess : listProcess[k].name # l.name
    BY <1>1, <2>2
  <2> HIDE DEF l
  <2> QED
    BY <2>1, <2>2, <2>3, <2>4, DelayAfterPush
<1>5. ~ForkFails
  BY DEF ForkFails, Note, Regular, Ended
<1>6. CASE MarkDead
  <2> DEFINE e == listProcess[i]
             f == [e EXCEPT !.status = 0, !.death = IF e.type = 1 THEN now ELSE @]
  <2>1. /\ listProcess' = [listProcess EXCEPT ![i] = f] /\ i <= Len(listProcess) /\ Gone(e)
        /\ st' = st /\ img' = img /\ now' = now /\ diedAt' = diedAt
    BY <1>6 DEF MarkDead, os
  <2>2. e \in Process /\ i \in DOMAIN listProcess
    BY <1>0, <2>1
  <2>3. /\ f.pid = e.pid /\ f.name = e.name /\ f.type = e.type
        /\ e.type = 1 => f.death = now
    BY <2>2 DEF Process
  <2> HIDE DEF f
  <2>4. /\ DOMAIN listProcess' = DOMAIN listProcess /\ listProcess'[i] = f
        /\ \A k \in DOMAIN listProcess : k # i => listProcess'[k] = listProcess[k]
        /\ \A k \in DOMAIN listProcess :
             listProcess'[k].pid = listProcess[k].pid /\ listProcess'[k].name = listProcess[k].name
    BY <1>0, <2>1, <2>2, <2>3
  <2>5. \A p \in Pids : st'[p] = "run" => \E k : ListedAs(listProcess, p, k)'
    <3> SUFFICES ASSUME NEW p \in Pids, st[p] = "run" PROVE \E k : ListedAs(listProcess, p, k)'
      BY <2>1
    <3>1. PICK k : ListedAs(listProcess, p, k)
      BY DEF DelayOK
    <3>2. ListedAs(listProcess, p, k)'
      BY <2>1, <2>4, <3>1 DEF ListedAs
    <3> QED
      BY <3>2
  <2>6. \A p \in Pids : st[p] = "run" => img[p][1] # e.name
    <3> SUFFICES ASSUME NEW p \in Pids, st[p] = "run", img[p][1] = e.name PROVE FALSE
      OBVIOUS
    <3>1. PICK k : ListedAs(listProcess, p, k)
      BY DEF DelayOK
    <3>2. k = i
      BY <2>2, <3>1, ProcessNamesOnce DEF ListedAs, Whole, NameOnce
    <3> QED
      BY <2>1, <3>1, <3>2 DEF ListedAs, Gone
  <2>7. e.name \in Names
    BY <2>2, FieldTypes
  <2>8. ASSUME NEW k \in DOMAIN listProcess', listProcess'[k].type = 1, listProcess'[k].status = 0
        PROVE  /\ diedAt[listProcess'[k].name] <= listProcess'[k].death
               /\ \A p \in Pids : st[p] = "run" => img[p][1] # listProcess'[k].name
    <3>1. CASE k = i
      BY <1>00, <2>3, <2>4, <2>6, <2>7, <2>8, <3>1
    <3>2. CASE k # i
      BY <2>4, <2>8, <3>2 DEF DelayOK
    <3> QED
      BY <3>1, <3>2
  <2> QED
    BY <1>00, <2>1, <2>5, <2>8 DEF DelayOK
<1>7. CASE RestartProcess
  <2> DEFINE e == listProcess[i]
  <2>1. PICK p \in Pids :
          /\ ForkAgent(p, e.name, e.ver)
          /\ listProcess' = [listProcess EXCEPT ![i] =
               [e EXCEPT !.pid = p,
                         !.status = IF e.type = 1 /\ @ = 0 THEN 1 ELSE @]]
    BY <1>7 DEF RestartProcess, Restart
  <2> DEFINE s == IF e.type = 1 /\ e.status = 0 THEN 1 ELSE e.status
             f == [e EXCEPT !.pid = p, !.status = s]
  <2>2. e \in Process /\ i \in DOMAIN listProcess /\ Gone(e)
    BY <1>0, <1>7, EntryRewritten DEF RestartProcess
  <2>3. f.pid = p /\ f.name = e.name /\ f.type = e.type /\ (f.type = 1 => f.status # 0)
    BY <2>2 DEF Process
  <2>4. listProcess' = [listProcess EXCEPT ![i] = f]
    BY <2>1
  <2> HIDE DEF f, s
  <2>5. /\ DOMAIN listProcess' = DOMAIN listProcess /\ listProcess'[i] = f
        /\ \A k \in DOMAIN listProcess : k # i => listProcess'[k] = listProcess[k]
    BY <1>0, <2>2, <2>4
  <2>6. /\ st' = [st EXCEPT ![p] = "run"] /\ img' = [img EXCEPT ![p] = <<e.name, e.ver>>]
        /\ diedAt' = diedAt /\ now' = now
    BY <1>7, <2>1 DEF ForkAgent, RestartProcess, Restart
  <2>7. img'[p][1] = e.name
    <3>1. img'[p] = <<e.name, e.ver>>
      BY <1>0, <2>6
    <3> QED
      BY <3>1
  <2>8. \A q \in Pids : q # p /\ st'[q] = "run" => st[q] = "run" /\ img'[q] = img[q]
    BY <1>0, <2>6
  <2>9. \A q \in Pids : st'[q] = "run" => \E k : ListedAs(listProcess, q, k)'
    <3>1. \E k : ListedAs(listProcess, p, k)'
      <4>1. PICK k : k = i
        OBVIOUS
      <4>2. ListedAs(listProcess, p, k)'
        BY <2>2, <2>3, <2>5, <2>7, <4>1 DEF ListedAs
      <4> QED
        BY <4>2
    <3>2. ASSUME NEW q \in Pids, q # p, st'[q] = "run" PROVE \E k : ListedAs(listProcess, q, k)'
      <4>1. PICK k : ListedAs(listProcess, q, k)
        BY <2>8, <3>2 DEF DelayOK
      <4>2. k # i
        BY <2>2, <2>8, <3>2, <4>1 DEF ListedAs, Gone
      <4>3. ListedAs(listProcess, q, k)'
        BY <2>5, <2>8, <3>2, <4>1, <4>2 DEF ListedAs
      <4> QED
        BY <4>3
    <3> QED
      BY <3>1, <3>2
  <2>10. ASSUME NEW k \in DOMAIN listProcess', listProcess'[k].type = 1, listProcess'[k].status = 0
         PROVE  /\ diedAt[listProcess'[k].name] <= listProcess'[k].death
                /\ \A q \in Pids : st'[q] = "run" => img'[q][1] # listProcess'[k].name
    <3>1. k # i /\ listProcess'[k] = listProcess[k] /\ k \in DOMAIN listProcess
      BY <2>3, <2>5, <2>10
    <3>2. /\ diedAt[listProcess[k].name] <= listProcess[k].death
          /\ \A q \in Pids : st[q] = "run" => img[q][1] # listProcess[k].name
      BY <2>10, <3>1 DEF DelayOK
    <3>3. listProcess[k].name # e.name
      BY <2>2, <3>1, ProcessNamesOnce DEF Whole, NameOnce
    <3> QED
      BY <2>7, <2>8, <3>1, <3>2, <3>3
  <2> QED
    BY <1>00, <2>6, <2>9, <2>10 DEF DelayOK
<1>8. CASE Swap
  <2> DEFINE e == listProcess[i]
             n == Len(listProcess)
  <2>1. /\ st' = [st EXCEPT ![e.pid] = Terminated(e.pid)] /\ i <= n
        /\ listProcess' = RemoveIndex(listProcess, i)
        /\ UNCHANGED <<img, now, diedAt>>
    BY <1>8 DEF Swap, Replace, At, ControlInv
  <2>2. Terminated(e.pid) # "run"
    BY <1>0 DEF Terminated, Helping
  <2>3. \A q \in Pids : st'[q] = "run" => st[q] = "run" /\ q # e.pid
    BY <1>0, <2>1, <2>2
  <2>4. /\ DOMAIN listProcess' = 1 .. n - 1
        /\ \A k \in 1 .. n - 1 : listProcess'[k] = listProcess[Behind(i, k)]
    BY <2>1, Shortened
  <2>5. i \in 1 .. n /\ n \in Nat
    BY <1>0, <2>1
  <2>6. DOMAIN listProcess = 1 .. n
    BY <1>0
  <2> HIDE DEF n
  <2>7. /\ \A k \in 1 .. n - 1 : Behind(i, k) \in 1 .. n /\ Behind(i, k) # i
        /\ \A j \in 1 .. n : j # i => \E k \in 1 .. n - 1 : Behind(i, k) = j
    BY <2>5, BehindBijection
  <2>8. ASSUME NEW q \in Pids, st'[q] = "run" PROVE \E k : ListedAs(listProcess, q, k)'
    <3>1. PICK j : ListedAs(listProcess, q, j)
      BY <2>3, <2>8 DEF DelayOK
    <3>2. j # i /\ j \in 1 .. n
      BY <2>3, <2>6, <2>8, <3>1 DEF ListedAs
    <3>3. PICK k \in 1 .. n - 1 : Behind(i, k) = j
      BY <2>7, <3>2
    <3>4. listProcess'[k] = listProcess[j] /\ k \in DOMAIN listProcess'
      BY <2>4, <3>3
    <3>5. ListedAs(listProcess, q, k)'
      BY <2>1, <3>1, <3>4 DEF ListedAs
    <3> QED
      BY <3>5
  <2>9. ASSUME NEW k \in DOMAIN listProcess', listProcess'[k].type = 1, listProcess'[k].status = 0
        PROVE  /\ diedAt[listProcess'[k].name] <= listProcess'[k].death
               /\ \A q \in Pids : st'[q] = "run" => img[q][1] # listProcess'[k].name
    <3>1. PICK j : j = Behind(i, k)
      OBVIOUS
    <3>2. j \in DOMAIN listProcess /\ listProcess'[k] = listProcess[j]
      BY <2>4, <2>6, <2>7, <3>1
    <3> QED
      BY <2>3, <2>9, <3>2 DEF DelayOK
  <2> QED
    BY <1>00, <2>1, <2>8, <2>9 DEF DelayOK
<1>9. CASE Update \/ Fetch
  <2>1. UNCHANGED <<listProcess, diedAt, now>>
    BY <1>9 DEF Update, Fetch
  <2>2. \A p \in Pids : st'[p] = "run" => st[p] = "run" /\ img'[p] = img[p]
    BY <1>0, <1>9 DEF Update, Fetch
  <2> QED
    BY <1>00, <2>1, <2>2, DelayStays
<1>10. CASE StartDone \/ KeepProcess \/ StateDone \/ Open \/ WakeUp \/ CheckNew
            \/ ScanOverflows \/ Ping \/ RpcFails \/ UpToDate \/ UpdateDone \/ FetchRefused
  <2>1. UNCHANGED <<listProcess, diedAt, now, st, img>>
    BY <1>10, Zenon DEF StartDone, KeepProcess, StateDone, Open, WakeUp,
       CheckNew, ScanOverflows, Ping, RpcFails, UpToDate, UpdateDone, FetchRefused, os
  <2> QED
    BY <1>00, <2>1, DelayStays
<1>11. CASE Deliver \/ Reap
  <2>1. UNCHANGED <<listProcess, diedAt, now>>
    BY <1>11 DEF Deliver, Reap
  <2>2. \A p \in Pids : st'[p] = "run" => st[p] = "run" /\ img'[p] = img[p]
    BY <1>0, <1>11 DEF Deliver, Reap
  <2> QED
    BY <1>00, <2>1, <2>2, DelayStays
<1>12. ASSUME NEW p \in Pids, HelperCalls(p) \/ HelperFails(p) \/ HelperRemoves(p) PROVE DelayOK'
  <2>1. UNCHANGED <<listProcess, diedAt, now>>
    BY <1>12 DEF HelperCalls, HelperFails, HelperRemoves, ChildEnds
  <2>2. \A q \in Pids : st'[q] = "run" => st[q] = "run" /\ img'[q] = img[q]
    BY <1>0, <1>12 DEF HelperCalls, HelperFails, HelperRemoves, ChildEnds
  <2> QED
    BY <1>00, <2>1, <2>2, DelayStays
<1>13. ASSUME NEW p \in Pids, AgentExit(p) PROVE DelayOK'
  <2>1. /\ UNCHANGED <<listProcess, now, img>> /\ st' = [st EXCEPT ![p] = "zombie"]
        /\ diedAt' = IF st[p] = "run" /\ Type[img[p][1]] = 1
                       THEN [diedAt EXCEPT ![img[p][1]] = now] ELSE diedAt
    BY <1>13 DEF AgentExit, ChildEnds
  <2>2. \A q \in Pids : st'[q] = "run" => st[q] = "run"
    BY <1>0, <2>1
  <2>3. CASE diedAt' = diedAt
    BY <1>00, <2>1, <2>2, <2>3, DelayStays
  <2>4. CASE st[p] = "run" /\ diedAt' = [diedAt EXCEPT ![img[p][1]] = now]
    <3>1. \A n \in Names : diedAt'[n] <= now
      BY <1>0, <1>00, <2>4
    <3>2. \A q \in Pids : st'[q] = "run" => \E k : ListedAs(listProcess, q, k)'
      BY <2>1, <2>2 DEF DelayOK, ListedAs
    <3>3. ASSUME NEW k \in DOMAIN listProcess, listProcess[k].type = 1, listProcess[k].status = 0
          PROVE  /\ diedAt'[listProcess[k].name] <= listProcess[k].death
                 /\ \A q \in Pids : st'[q] = "run" => img[q][1] # listProcess[k].name
      <4>1. /\ diedAt[listProcess[k].name] <= listProcess[k].death
            /\ \A q \in Pids : st[q] = "run" => img[q][1] # listProcess[k].name
        BY <3>3 DEF DelayOK
      <4>2. listProcess[k].name \in Names
        BY <1>0, FieldTypes
      <4>3. diedAt'[listProcess[k].name] = diedAt[listProcess[k].name]
        BY <1>0, <2>4, <4>1, <4>2
      <4> QED
        BY <2>2, <4>1, <4>3
    <3> QED
      BY <2>1, <3>1, <3>2, <3>3 DEF DelayOK
  <2> QED
    BY <2>1, <2>3, <2>4
<1>14. CASE World
  <2>1. listProcess' = listProcess /\ diedAt' = diedAt /\ now' \in {now, now + 1}
    BY <1>14 DEF World, AlienExit, Publish, Install, Tick
  <2>2. \A p \in Pids : st'[p] = "run" => st[p] = "run" /\ img'[p] = img[p]
    BY <1>0, <1>14 DEF World, AlienExit, Publish, Install, Tick, os
  <2>3. \A n \in Names : diedAt[n] <= now'
    BY <1>0, <1>00, <2>1
  <2> QED
    BY <2>1, <2>2, <2>3, DelayStays
<1> QED
  BY <1>2, <1>3, <1>4, <1>5, <1>6, <1>7, <1>8, <1>9, <1>10, <1>11, <1>12, <1>13, <1>14, Zenon
  DEF Next, Unsupervised, Master, Children

\* RestartsAfterDelay for a regular history, updates included: an agent of
\* type 1 is restarted only when more than the delay of its entry has passed
\* since the agent really ended.
RegularRestarts ==
  [][\A k \in DOMAIN listProcess :
       (RestartProcess /\ k = i /\ listProcess[k].type = 1 /\ Regular)
       => now > diedAt[listProcess[k].name] + listProcess[k].time]_vars

\* In a regular history checkState restarts a delayed agent only after its
\* delay, counted from the agent's end and not from the moment checkState
\* noticed it.
THEOREM AgentRestartsAfterDelay == Spec => RegularRestarts
<1> DEFINE Late == \A k \in DOMAIN listProcess :
                     (RestartProcess /\ k = i /\ listProcess[k].type = 1 /\ Regular)
                     => now > diedAt[listProcess[k].name] + listProcess[k].time
<1>1. Init => ListsInv /\ DelayInv
  <2> SUFFICES ASSUME Init PROVE DelayOK
    BY InitLists DEF DelayInv
  <2>1. DOMAIN listProcess = {} /\ \A p \in Pids : st[p] # "run"
    BY DEF Init
  <2>2. \A n \in Names : diedAt[n] <= now
    BY DEF Init
  <2> QED
    BY <2>1, <2>2 DEF DelayOK
<1>2. /\ TypeOK /\ ControlInv /\ ListsInv /\ DelayInv /\ [Next]_vars
      => ListsInv' /\ DelayInv'
  <2> SUFFICES ASSUME TypeOK, ControlInv, ListsInv, DelayInv, [Next]_vars
               PROVE  DelayInv'
    BY ListsStep
  <2> SUFFICES ASSUME Regular', pc' \notin Ended PROVE DelayOK'
    BY DEF DelayInv
  <2>1. Regular
    BY IncidentsGrow DEF Regular
  <2>2. CASE Next
    <3>1. pc \notin Ended
      BY <2>2 DEF Next, Unsupervised, vars
    <3>2. Whole /\ DelayOK
      BY <2>1, <3>1 DEF ListsInv, DelayInv
    <3> QED
      BY <2>2, <3>1, <3>2, DelayStep
  <2>3. CASE UNCHANGED vars
    <3>1. pc \notin Ended /\ UNCHANGED <<listProcess, diedAt, now, st, img>>
      BY <2>3 DEF vars, os
    <3>2. DelayOK
      BY <2>1, <3>1 DEF DelayInv
    <3> QED
      BY <3>1, <3>2, DelayStays DEF DelayOK
  <2> QED
    BY <2>2, <2>3
<1>3. TypeOK /\ ListsInv /\ DelayInv => Late
  <2> SUFFICES ASSUME TypeOK, ListsInv, DelayInv, RestartProcess, Regular,
                      listProcess[i].type = 1, i \in DOMAIN listProcess
               PROVE  now > diedAt[listProcess[i].name] + listProcess[i].time
    OBVIOUS
  <2> DEFINE e == listProcess[i]
  <2>1. pc \notin Ended
    BY DEF RestartProcess, At, Ended
  <2>2. EntryOK /\ DelayOK
    BY <2>1 DEF ListsInv, Whole, DelayInv
  <2>3. e.status # 2
    BY <2>2 DEF EntryOK
  <2>4. e.status = 0 /\ DelayOver(e)
    BY <2>3 DEF RestartProcess
  <2>5. diedAt[e.name] <= e.death
    BY <2>2, <2>4 DEF DelayOK
  <2>6. e \in Process
    BY ListTypes
  <2>7. e.death \in Nat /\ e.time \in Nat /\ e.name \in Names
    BY <2>6 DEF Process
  <2>8. now \in Nat /\ diedAt[e.name] \in Nat
    BY <2>7 DEF TypeOK
  <2> QED
    BY <2>4, <2>5, <2>7, <2>8 DEF DelayOver
<1>4. [][Late]_vars => RegularRestarts
  BY DEF RegularRestarts
<1> HIDE DEF Late
<1> QED
  BY <1>1, <1>2, <1>3, <1>4, AgentTypeOK, PTL DEF Spec
=============================================================================
