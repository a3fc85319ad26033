--------------------------- MODULE ProcessMonitor ---------------------------
(***************************************************************************)
(* Qt/ZMonitor/ProcessMornitoring: getProc walks through /proc again and   *)
(* again and readProc shows what each process used since the round before. *)
(* The four times of a process are one number of ticks, its memory and the *)
(* text of the line are left out.  Time is counted in rounds of usleep.    *)
(* The path of a pid of more than one digit does not fit into path[13]:    *)
(* what that overwrites is not modelled.                                   *)
(***************************************************************************)
EXTENDS Integers, Sequences, FiniteSets, SequencesExt

CONSTANTS
  Pids,
  Width,       \* unsigned long long counts modulo this
  MaxTicks,    \* bound: ticks of a process
  MaxBorn,     \* bound: processes that ever use a pid
  MaxRounds    \* bound: walks through /proc

VARIABLES
  proc,        \* the processes: a number of ticks, or None
  born,        \* history: processes that had a pid so far
  round, dir,  \* the walk, and the entries readdir still returns
  opened,      \* the /proc/[pid]/stat that is open, or None
  lst_task,    \* time_info of the pids met so far
  line,        \* the line printed last
  reads,       \* history: the last two reads of each pid, newest first
  garbled      \* history: a line was made of uninitialised values
vars == <<proc, born, round, dir, opened, lst_task, line, reads, garbled>>
world == <<proc, born>>

None == -1

\* Assumed of the constants: no process uses as many ticks as are counted.
ProcessAssumption == Pids \subseteq Nat /\ MaxTicks \in Nat /\ Width \in Nat /\ MaxTicks < Width
NoLine == [pid |-> None, used |-> 0, ms |-> 0]

Init ==
  /\ proc = [p \in Pids |-> None] /\ born = [p \in Pids |-> 0]
  /\ round = 0 /\ dir = {} /\ opened = None
  /\ lst_task = << >>
  /\ line = NoLine /\ reads = [p \in Pids |-> << >>] /\ garbled = FALSE

-----------------------------------------------------------------------------
(* The processes of the system.                                            *)

Start(p) ==
  /\ proc[p] = None /\ born[p] < MaxBorn
  /\ proc' = [proc EXCEPT ![p] = 0] /\ born' = [born EXCEPT ![p] = @ + 1]
  /\ UNCHANGED <<round, dir, opened, lst_task, line, reads, garbled>>

Run(p) ==
  /\ proc[p] \in 0 .. MaxTicks - 1
  /\ proc' = [proc EXCEPT ![p] = @ + 1]
  /\ UNCHANGED <<born, round, dir, opened, lst_task, line, reads, garbled>>

End(p) ==
  /\ proc[p] # None
  /\ proc' = [proc EXCEPT ![p] = None]
  /\ UNCHANGED <<born, round, dir, opened, lst_task, line, reads, garbled>>

-----------------------------------------------------------------------------
(* getProc                                                                 *)

\* usleep, clear, and opendir.
NextRound ==
  /\ dir = {} /\ opened = None /\ round < MaxRounds
  /\ round' = round + 1
  /\ dir' = Pids
  /\ UNCHANGED <<world, opened, lst_task, line, reads, garbled>>

\* readdir goes through the numbers upwards; proc_fopen succeeds while the
\* process is there.
Open ==
  /\ opened = None
  /\ \E p \in dir :
       /\ \A q \in dir : p <= q
       /\ dir' = dir \ {p}
       /\ opened' = IF proc[p] = None THEN None ELSE p
  /\ UNCHANGED <<world, round, lst_task, line, reads, garbled>>

\* The node of a pid, 0 if there is none.
Node(id) == IF \E k \in DOMAIN lst_task : lst_task[k].pid = id
            THEN CHOOSE k \in DOMAIN lst_task :
                   lst_task[k].pid = id /\ \A j \in 1 .. k - 1 : lst_task[j].pid # id
            ELSE 0
TimeInfo(id, ticks) == [pid |-> id, ticks |-> ticks, last_time |-> round]

\* Slip: the times of a known pid are not stored.
Stored_once(id, ticks) ==
  IF Node(id) = 0 THEN Append(lst_task, TimeInfo(id, ticks))
  ELSE [lst_task EXCEPT ![Node(id)].last_time = round]

\* The list after a line: a node is updated, or appended.
Stored(id, ticks) ==
  IF Node(id) = 0 THEN Append(lst_task, TimeInfo(id, ticks))
  ELSE [lst_task EXCEPT ![Node(id)] = TimeInfo(id, ticks)]

\* The ticks and the time that cpu_used is the quotient of, 0 for a new pid.
Line(id, ticks) ==
  IF Node(id) = 0 THEN [pid |-> id, used |-> 0, ms |-> 0]
  ELSE [pid |-> id, used |-> (ticks - lst_task[Node(id)].ticks) % Width,
        ms |-> round - lst_task[Node(id)].last_time]

Show(id, ticks) == line' = Line(id, ticks) /\ lst_task' = Stored(id, ticks)

\* fgets and sscanf, and the line of the process.
readProc ==
  /\ opened # None /\ proc[opened] # None
  /\ Show(opened, proc[opened])
  /\ reads' = [reads EXCEPT ![opened] =
                <<[who |-> born[opened], ticks |-> proc[opened]]>> \o SubSeq(@, 1, Min({1, Len(@)}))]
  /\ opened' = None
  /\ UNCHANGED <<world, round, dir, garbled>>

\* The process ended after the open: fgets fails and every variable of the
\* frame has some value, such as that of the call before.
readProcEnded ==
  /\ opened # None /\ proc[opened] = None
  /\ \E id \in Pids, ticks \in 0 .. MaxTicks : Show(id, ticks)
  /\ garbled' = TRUE
  /\ opened' = None
  /\ UNCHANGED <<world, round, dir, reads>>

Next ==
  \/ \E p \in Pids : Start(p) \/ Run(p) \/ End(p)
  \/ NextRound \/ Open \/ readProc \/ readProcEnded
Spec == Init /\ [][Next]_vars

-----------------------------------------------------------------------------
(* Properties.                                                             *)

\* What is shown for a process is what that process used since it was shown
\* before, whatever started and ended in between: the node of its pid has its
\* last value, in the round it was read.  A pid that went to another process
\* is shown with the difference of two processes, modulo the width.
UsageIsOwn ==
  (line # NoLine /\ ~garbled) =>
    LET rs == reads[line.pid]
    IN  IF Len(rs) = 1 THEN line.used = 0
        ELSE /\ line.ms > 0
             /\ rs[2].who = rs[1].who => line.used = rs[1].ticks - rs[2].ticks

\* One node for every pid that was ever read, and no other: the list is as
\* long as the pids are many, and never gets shorter.
OneNodePerPid ==
  /\ Len(lst_task) = Cardinality({lst_task[k].pid : k \in DOMAIN lst_task})
  /\ ~garbled => {lst_task[k].pid : k \in DOMAIN lst_task} = {p \in Pids : reads[p] # << >>}

\* The list of samples is kept right over all rounds.
SamplesKept == UsageIsOwn /\ OneNodePerPid
=============================================================================
