----------------------------- MODULE DeviatTask -----------------------------
(***************************************************************************)
(* Qt/FakeAtop: how one sample of the tasks becomes their consumption over *)
(* the last interval.  photoproc lists the tasks from /proc, the accounting*)
(* records list the processes that ended, and deviattask compares both with*)
(* the task database (procdbase.c) that holds the previous sample: a hash  *)
(* table by pid, and the cyclic RESIDUE list of the entries that no task of*)
(* this sample has referred to yet.                                        *)
(*                                                                         *)
(* A task has one counter, use, that stands for all its counters; a second *)
(* one, of its thread, lets a thread be active alone.  atop.c, which calls *)
(* these functions, is not in the repository: the order photoproc, exit    *)
(* records, deviattask is the order their arguments demand.                *)
(***************************************************************************)
EXTENDS Integers, Sequences, SequencesExt, FiniteSets

CONSTANTS
  PidMax,         \* the highest process number of the kernel
  Pids,           \* process numbers the kernel gives out, again and again
  Threaded,       \* the pids among them whose processes have a second thread
  Names,          \* command names (with the user and the group)
  NPHASH,         \* hash queues of the task database
  MAX32BITVAL,    \* where a kernel counter wraps around
  MaxTask,        \* size of the list photoproc fills
  MaxTime, MaxUse, MaxBorn \* bounds of the clock, of a task's counter and of the processes

\* Assumed of the constants: a pid is positive, and no counter of a task
\* exceeds the value at which it wraps around.
ASSUME TaskAssumption ==
  /\ PidMax \in Nat /\ Pids \subseteq 1 .. PidMax /\ NPHASH \in Nat \ {0}
  /\ MaxTask \in Nat /\ MaxTime \in Nat /\ MaxUse \in Nat
  /\ MAX32BITVAL \in Nat /\ MaxUse <= MAX32BITVAL

Times == 0 .. MaxTime
NoPid == 0                  \* the pid of a record that has none
Incs == Pids \X Times       \* a process is its pid and its start time
TotUsed == MaxUse           \* totusedcpu: no task consumes more in an interval

VARIABLES
  acct,           \* accounting records: "off", "v2" without a pid, "v3" with it
  now, kern,      \* the clock, and the processes since boot, ended ones included
  pretime,        \* the time of the previous sample
  exits,          \* accounting records not read yet
  netexits,       \* what netatopd wrote of the tasks that ended
  phase,          \* "idle", "photo", "present", "exited", "clean"
  present, gone,  \* curtpres and curpexit of this sample
  c,              \* the loop index in them
  phash, presidue, pr,
  taskall, devtstat,
  prev,           \* history: the database when this sample began
  charged,        \* history: ticks shown for a process over all samples, counted up to MaxUse + 1
  missed          \* history: processes that did not fit in MaxTask

world == <<acct, now, kern, exits, netexits>>
base == <<phash, presidue, pr>>
sample == <<pretime, present, gone, c, taskall, devtstat, prev, charged, missed>>
vars == <<world, base, sample, phase>>

Near(a, b) == a - b \in -1 .. 1
Anchor == [pid |-> NoPid]

Init ==
  /\ acct \in {"off", "v2", "v3"}
  /\ now = 0 /\ kern = << >> /\ exits = << >> /\ netexits = << >>
  /\ phase = "idle" /\ pretime = 0
  /\ present = << >> /\ gone = << >> /\ c = 1
  /\ phash = [i \in 0 .. NPHASH - 1 |-> << >>] /\ presidue = << >> /\ pr = Anchor
  /\ taskall = << >>
  /\ devtstat = [nprocall |-> 0, nprocactive |-> 0, ntaskactive |-> 0]
  /\ prev = {} /\ charged = [i \in Incs |-> 0] /\ missed = {}

-----------------------------------------------------------------------------
(* The kernel, netatopd and the clock, between and during the samples.      *)

Alive == {i \in DOMAIN kern : kern[i].alive}
Sampling == phase \in {"present", "exited", "clean"}

Tick == now < MaxTime /\ now' = now + 1 /\ UNCHANGED <<acct, kern, exits, netexits>>

Fork(p, name) ==
  /\ ~\E i \in Alive : i[1] = p
  /\ <<p, now>> \notin DOMAIN kern /\ Cardinality(DOMAIN kern) < MaxBorn
  /\ kern' = [i \in DOMAIN kern \cup {<<p, now>>} |->
       IF i \in DOMAIN kern THEN kern[i]
       ELSE [name |-> name, use |-> 0, tuse |-> 0, alive |-> TRUE]]
  /\ UNCHANGED <<acct, now, exits, netexits>>

Run(i) ==
  /\ \/ kern[i].use < MaxUse /\ kern' = [kern EXCEPT ![i].use = @ + 1]
     \/ /\ i[1] \in Threaded /\ kern[i].tuse < MaxUse
        /\ kern' = [kern EXCEPT ![i].tuse = @ + 1]
  /\ UNCHANGED <<acct, now, exits, netexits>>

\* The record's start time may be a second later, and its counters, kept as
\* a mantissa and an exponent, may be lower than the real ones.
Exit(i) ==
  /\ kern' = [kern EXCEPT ![i].alive = FALSE]
  /\ IF acct = "off" THEN exits' = exits
     ELSE \E b \in {i[2], i[2] + 1} \cap Times, u \in {kern[i].use - 1, kern[i].use} \cap Nat :
            exits' = Append(exits, [pid |-> IF acct = "v3" THEN i[1] ELSE NoPid, isproc |-> TRUE,
                                    btime |-> b, name |-> kern[i].name, use |-> u, inc |-> i])
  /\ netexits' = Append(netexits, [id |-> i[1], btime |-> i[2], command |-> kern[i].name,
                                   net |-> kern[i].use, isused |-> FALSE])
  /\ UNCHANGED <<acct, now>>

\* Between the list of tasks and the exit records only an exit makes a
\* difference; all else may as well happen after the sample.
World ==
  /\ \/ /\ phase = "idle"
        /\ \/ Tick
           \/ \E p \in Pids, name \in Names : Fork(p, name)
           \/ \E i \in Alive : Run(i)
     \/ phase \in {"idle", "photo"} /\ \E i \in Alive : Exit(i)
  /\ UNCHANGED <<phase, base, sample>>

-----------------------------------------------------------------------------
(* photoproc                                                                *)

\* The counters of a process, or of its thread.
procio(i, isproc) == IF isproc THEN kern[i].use ELSE kern[i].tuse

procstat(i, isproc) == [pid |-> i[1], isproc |-> isproc, btime |-> i[2], use |-> procio(i, isproc)]

\* The name stands for the user and the group as well.
procstatus(i) == [name |-> kern[i].name]

\* A task whose files disappear while they are read is skipped, as if it had
\* ended before the list was made.
Entry(i, isproc) ==
  LET stat == procstat(i, isproc)
  IN [pid |-> stat.pid, isproc |-> stat.isproc, btime |-> stat.btime, use |-> stat.use,
      name |-> procstatus(i).name]

\* A process, and its thread when it has several (the others are left out).
Entries(i) ==
  IF i[1] \in Threaded THEN <<Entry(i, TRUE), Entry(i, FALSE)>> ELSE <<Entry(i, TRUE)>>

\* What /proc shows of a pid.
Listed(p) ==
  LET this == {i \in Alive : i[1] = p}
  IN IF this = {} THEN << >> ELSE Entries(CHOOSE i \in this : TRUE)

\* /proc lists the processes by pid; the list ends when it is full.
photoproc ==
  LET all == FlattenSeq([p \in 1 .. PidMax |-> Listed(p)])
  IN SubSeq(all, 1, IF Len(all) < MaxTask THEN Len(all) ELSE MaxTask)

Inc(e) == <<e.pid, e.btime>>

Photo ==
  /\ phase = "idle"
  /\ phase' = "photo"
  /\ present' = photoproc
  /\ missed' = missed \cup {i \in Alive : ~\E k \in DOMAIN photoproc : Inc(photoproc[k]) = i}
  /\ UNCHANGED <<world, base, pretime, gone, c, taskall, devtstat, prev, charged>>

-----------------------------------------------------------------------------
(* procdbase.c                                                              *)

Bucket(pid) == pid % NPHASH
Stored == UNION {ToSet(phash[b]) : b \in DOMAIN phash}

\* Slip: the start time of the task is not compared.
pdb_gettask_pid(pid, isproc, btime) ==
  SelectInSeq(phash[Bucket(pid)], LAMBDA e : e.pid = pid /\ e.isproc = isproc)

\* The index in the hash queue of the task, 0 when it is not there.
pdb_gettask(pid, isproc, btime) ==
  SelectInSeq(phash[Bucket(pid)],
              LAMBDA e : e.pid = pid /\ e.isproc = isproc /\ Near(e.btime, btime))

Unchained(e) == RemoveFirst(presidue, e)

pdb_addtask(e) == [phash EXCEPT ![Bucket(e.pid)] = <<e>> \o @]

Doomed(pid, isproc) ==
  SelectInSeq(phash[Bucket(pid)], LAMBDA e : e.pid = pid /\ e.isproc = isproc)

\* Slip: the entry stays chained in RESIDUE when it is freed.
pdb_deltask_chained(pid, isproc, chain) ==
  /\ phash' = [phash EXCEPT ![Bucket(pid)] = RemoveAt(@, Doomed(pid, isproc))]
  /\ presidue' = chain

\* The first entry of the queue with the pid is freed, whatever its start time.
\* chain is RESIDUE when it is called.
pdb_deltask(pid, isproc, chain) ==
  LET k == Doomed(pid, isproc) IN
  /\ phash' = [phash EXCEPT ![Bucket(pid)] = RemoveAt(@, k)]
  /\ presidue' = RemoveFirst(chain, phash[Bucket(pid)][k])

\* Every entry is chained behind the anchor, so the last one comes first.
pdb_makeresidue ==
  Reverse(FlattenSeq([b \in 1 .. NPHASH |-> phash[b - 1]]))

\* The index in RESIDUE of the task a record without pid is about: the first
\* with the exact start time, else the first that deviates a second, else 0.
pdb_srchresidue(r) ==
  LET exact == SelectInSeq(presidue, LAMBDA e : e.name = r.name /\ e.btime = r.btime)
  IN IF exact # 0 THEN exact
     ELSE SelectInSeq(presidue, LAMBDA e : e.name = r.name /\ Near(e.btime, r.btime))

-----------------------------------------------------------------------------
(* netatop_exithash and netatop_exitfind                                    *)

Byp == gone # << >> /\ gone[1].pid # NoPid

\* The records that answer to the key.  The break leaves the switch and not
\* the loop: all of them are visited, and all are used when looked up by
\* start time.
ExitMatches(r, pre) ==
  {k \in DOMAIN netexits :
     IF Byp THEN netexits[k].id = r.pid
     ELSE /\ ~netexits[k].isused /\ netexits[k].btime = r.btime
          /\ netexits[k].command = pre.name /\ netexits[k].net >= pre.use}

\* Slip: what was shown in earlier samples is not subtracted.
netatop_exitfind_total(r, pre) ==
  LET found == ExitMatches(r, pre) IN
  IF found = {} THEN 0
  ELSE netexits[CHOOSE k \in found : \A l \in found : k <= l].net

\* A queue is walked from the newest record to the oldest: the last one
\* visited overwrites the others.
netatop_exitfind(r, pre) ==
  LET found == ExitMatches(r, pre) IN
  IF found = {} THEN 0
  ELSE netexits[CHOOSE k \in found : \A l \in found : k <= l].net - pre.use

-----------------------------------------------------------------------------
(* deviattask                                                               *)

subcount(new, old) == IF new >= old THEN new - old ELSE MAX32BITVAL + new - old

\* The ticks of a task, with the sanity check on a counter that went back.
Ticks(cur, pre) == LET d == subcount(cur, pre) IN IF d > TotUsed THEN 1 ELSE d

\* Slip: what a new task consumed in its first interval is lost.
calcdiff_first(cur, pre, inactive, new) ==
  [pid |-> cur.pid, isproc |-> cur.isproc, btime |-> cur.btime, wasinactive |-> inactive,
   new |-> new, use |-> IF inactive \/ new THEN 0 ELSE Ticks(cur.use, pre)]

calcdiff(cur, pre, inactive, new) ==
  [pid |-> cur.pid, isproc |-> cur.isproc, btime |-> cur.btime, wasinactive |-> inactive,
   new |-> new, use |-> IF inactive THEN 0 ELSE Ticks(cur.use, pre)]

DeviatStart ==
  /\ phase = "photo"
  /\ phase' = "present"
  /\ gone' = exits /\ exits' = << >>
  /\ presidue' = pdb_makeresidue
  /\ prev' = Stored
  /\ taskall' = << >> /\ c' = 1
  /\ devtstat' = [nprocall |-> 0, nprocactive |-> 0, ntaskactive |-> 0]
  /\ UNCHANGED <<acct, now, kern, netexits, phash, pr, pretime, present, charged, missed>>

Charge(i, ticks) == [charged EXCEPT ![i] = IF @ + ticks > MaxUse THEN MaxUse + 1 ELSE @ + ticks]

ThisProc == SelectLastInSeq(taskall, LAMBDA d : d.isproc)

\* An active thread makes its process active.
WakesProcess(cur) == ~cur.isproc /\ taskall[ThisProc].wasinactive

\* Slip: the process is not counted when its thread wakes it.
ProcsActive_own(cur, active, wakes) == IF cur.isproc THEN active ELSE 0

\* By how much nprocactive grows.
ProcsActive(cur, active, wakes) == IF cur.isproc THEN active ELSE IF wakes THEN 1 ELSE 0

\* Slip: the statistics of the previous sample stay in the database.
Refreshed_never(q, k, cur) == q

Refreshed(q, k, cur) == [q EXCEPT ![k] = cur]

\* One pass of the loop over the tasks that are present.
PresentTask ==
  /\ phase = "present" /\ c <= Len(present)
  /\ LET cur == present[c]
         b == Bucket(cur.pid)
         k == pdb_gettask(cur.pid, cur.isproc, cur.btime)
         same == k # 0 /\ phash[b][k] = cur
         dev == calcdiff(cur, IF k = 0 THEN 0 ELSE phash[b][k].use, same, k = 0)
         wakes == ~same /\ WakesProcess(cur)
         active == IF same THEN 0 ELSE IF wakes THEN 2 ELSE 1
     IN /\ IF k = 0 THEN phash' = pdb_addtask(cur) /\ UNCHANGED presidue
           ELSE /\ phash' = [phash EXCEPT ![b] = Refreshed(@, k, cur)]
                /\ presidue' = Unchained(phash[b][k])
        /\ taskall' = Append(IF wakes THEN [taskall EXCEPT ![ThisProc].wasinactive = FALSE]
                             ELSE taskall, dev)
        /\ devtstat' = [devtstat EXCEPT
             !.nprocall = IF cur.isproc THEN @ + 1 ELSE @,
             !.ntaskactive = @ + active,
             !.nprocactive = @ + ProcsActive(cur, active, wakes)]
        /\ charged' = IF cur.isproc THEN Charge(Inc(cur), dev.use) ELSE charged
  /\ c' = c + 1
  /\ UNCHANGED <<world, phase, pr, pretime, present, gone, prev, missed>>

PresentDone ==
  /\ phase = "present" /\ c > Len(present)
  /\ phase' = "exited" /\ c' = 1
  /\ UNCHANGED <<world, base, pretime, present, gone, taskall, devtstat, prev, charged, missed>>

\* Slip: only the processes that no task of this sample referred to are known.
Former_residue(r) ==
  LET k == SelectInSeq(presidue, LAMBDA e : e.pid = r.pid /\ e.isproc) IN
  IF k = 0 THEN Anchor ELSE presidue[k]

\* The entry of the database an exit record is about; Anchor stands for none.
Former(r) ==
  IF r.pid # NoPid
  THEN LET k == pdb_gettask(r.pid, TRUE, r.btime) IN IF k = 0 THEN Anchor ELSE phash[Bucket(r.pid)][k]
  ELSE LET k == IF r.btime > pretime THEN 0 ELSE pdb_srchresidue(r) IN IF k = 0 THEN Anchor ELSE presidue[k]

Zero == [pid |-> NoPid, name |-> "", use |-> 0]

\* One pass of the loop over the processes that ended.
ExitedTask ==
  /\ phase = "exited" /\ c <= Len(gone)
  /\ LET r == gone[c]
         old == Former(r)
         pre == IF old = Anchor THEN Zero ELSE old
         dev == [pid |-> IF r.pid = NoPid THEN pre.pid ELSE r.pid, isproc |-> TRUE, btime |-> r.btime,
                 wasinactive |-> FALSE, new |-> pre.pid = NoPid,
                 use |-> IF r.use > pre.use THEN r.use - pre.use ELSE 0,
                 net |-> netatop_exitfind(r, pre)]
     IN /\ IF old = Anchor THEN UNCHANGED <<phash, presidue>>
           ELSE pdb_deltask(old.pid, old.isproc, IF r.pid = NoPid THEN presidue ELSE Unchained(old))
        /\ netexits' = IF Byp THEN netexits
                       ELSE [k \in DOMAIN netexits |->
                               [netexits[k] EXCEPT !.isused = @ \/ k \in ExitMatches(r, pre)]]
        /\ taskall' = Append(taskall, dev)
        /\ charged' = Charge(r.inc, dev.use)
  /\ devtstat' = [n \in DOMAIN devtstat |-> devtstat[n] + 1]
  /\ c' = c + 1
  /\ UNCHANGED <<acct, now, kern, exits, phase, pr, pretime, present, gone, prev, missed>>

ExitedDone ==
  /\ phase = "exited" /\ c > Len(gone)
  /\ phase' = "clean"
  /\ pr' = Head(presidue \o <<Anchor>>)
  /\ UNCHANGED <<world, phash, presidue, sample>>

\* pdb_cleanresidue: pr moves on before the entry is deleted.
CleanTask ==
  /\ phase = "clean" /\ pr # Anchor
  /\ LET k == SelectInSeq(presidue, LAMBDA e : e = pr)
     IN pr' = (presidue \o <<Anchor>>)[k + 1]
  /\ pdb_deltask(pr.pid, pr.isproc, presidue)
  /\ UNCHANGED <<world, phase, sample>>

\* The lists procall and procactive are filled and shown, and atop.c frees
\* what belongs to the sample (netatop_exiterase).
DeviatDone ==
  /\ phase = "clean" /\ pr = Anchor
  /\ phase' = "idle"
  /\ netexits' = << >> /\ present' = << >> /\ gone' = << >> /\ taskall' = << >> /\ c' = 1
  /\ devtstat' = [nprocall |-> 0, nprocactive |-> 0, ntaskactive |-> 0]
  /\ prev' = {} /\ presidue' = << >> /\ pretime' = now
  /\ UNCHANGED <<acct, now, kern, exits, phash, pr, charged, missed>>

Next ==
  \/ World \/ Photo \/ DeviatStart \/ PresentTask \/ PresentDone
  \/ ExitedTask \/ ExitedDone \/ CleanTask \/ DeviatDone

Spec == Init /\ [][Next]_vars


-----------------------------------------------------------------------------
(* Properties                                                               *)

TypeOK ==
  /\ now \in Times /\ pretime \in Times
  /\ phase \in {"idle", "photo", "present", "exited", "clean"}
  /\ DOMAIN kern \subseteq Incs /\ missed \subseteq Incs
  /\ charged \in [Incs -> Nat]
  /\ \A b \in DOMAIN phash : \A k \in DOMAIN phash[b] : Bucket(phash[b][k].pid) = b
  /\ Len(present) <= MaxTask /\ c \in Nat
  /\ devtstat \in [{"nprocall", "nprocactive", "ntaskactive"} -> Nat]

(* pdb_cleanresidue follows prnext and then frees an entry it finds by pid. *)
(* What it follows next has not been freed, and what RESIDUE chains is in   *)
(* the hash table: between two samples a pid has one entry at most, on the  *)
(* process level and on the thread level each.                              *)
ResidueIsStored ==
  /\ Sampling => ToSet(presidue) \subseteq Stored
  /\ phase = "clean" => pr \in {Anchor} \cup ToSet(presidue)
  /\ ~Sampling => \A e, f \in Stored : e.pid = f.pid /\ e.isproc = f.isproc => e = f

(* deviattask allocates procall and procactive by its counters and fills    *)
(* them by the flags of taskall: the counters agree with the flags, also    *)
(* when only a thread of an inactive process was active.                    *)
ListsFit ==
  phase = "clean" =>
    /\ devtstat.nprocall = Cardinality({k \in DOMAIN taskall : taskall[k].isproc})
    /\ devtstat.nprocactive = Cardinality({k \in DOMAIN taskall : taskall[k].isproc /\ ~taskall[k].wasinactive})
    /\ devtstat.ntaskactive = Cardinality({k \in DOMAIN taskall : ~taskall[k].wasinactive})

\* A process nobody can be taken for: its pid was never used by another one,
\* it was never left out for want of room, and no process with its name
\* started with it when records have no pid.
Clear(i) ==
  /\ i \notin missed
  /\ \A j \in DOMAIN kern \ {i} :
       /\ j[1] # i[1]
       /\ acct = "v2" => ~(kern[j].name = kern[i].name /\ \E d \in 0 .. 1 : Near(j[2], i[2] + d))

(* The ticks shown for a process in all samples together are the ticks it   *)
(* had when it was last seen: nothing is shown twice and nothing is lost,   *)
(* whatever processes start, end, and reappear around it.                   *)
TicksAddUp ==
  phase = "clean" =>
    \A k \in DOMAIN present :
      LET e == present[k] IN
      e.isproc /\ Clear(Inc(e)) /\ (\A g \in DOMAIN gone : gone[g].inc # Inc(e)) =>
        charged[Inc(e)] = e.use

(* Of a process that ended, no more is shown than it consumed, although the *)
(* record of the end may deviate and may come with the last sample of it.   *)
EndedNotOvercharged ==
  \A i \in DOMAIN kern : Clear(i) /\ acct # "v2" => charged[i] <= kern[i].use

\* The counter of a process in the samples up to this one.
LastSeen(i) ==
  LET seen == {present[k].use : k \in {l \in DOMAIN present : present[l].isproc /\ Inc(present[l]) = i}}
      known == {e.use : e \in {f \in prev : f.isproc /\ Inc(f) = i}}
  IN IF seen # {} THEN CHOOSE u \in seen : TRUE
     ELSE IF known # {} THEN CHOOSE u \in known : TRUE ELSE 0

(* The network counters shown for a process that ended are its own, less    *)
(* what the samples before showed, although the lookup by pid visits all    *)
(* the records of the hash queue.                                           *)
NetworkIsOwn ==
  phase = "clean" /\ Byp =>
    \A g \in DOMAIN gone :
      LET i == gone[g].inc
      IN Clear(i) => taskall[Len(present) + g].net = kern[i].use - LastSeen(i)

\* The database between two samples, or as the running sample found it.
Recorded == IF Sampling THEN prev ELSE Stored
RecordedTasks ==
  [k \in {<<e.pid, e.isproc>> : e \in Recorded} |->
     (CHOOSE e \in Recorded : <<e.pid, e.isproc>> = k).btime]

Map == INSTANCE TaskMap WITH Keys <- Pids \X BOOLEAN, tasks <- RecordedTasks

(* One pass of deviattask is one step of the map from keys to tasks, and a  *)
(* pid that came back keeps its old task.                                   *)
ImplementsMap == Map!Spec

(* The database, its RESIDUE chain and the lists that are made from a       *)
(* sample agree with each other at every step of deviattask.                *)
DatabaseSound == TypeOK /\ ResidueIsStored /\ ListsFit

(* What is shown for a process that ended is its own consumption: of the    *)
(* accounting record and of the network record.                             *)
ChargedToItself == EndedNotOvercharged /\ NetworkIsOwn

(* procdbase.c says of pdb_cleanresidue that it removes all remaining       *)
(* entries: after a sample the database holds tasks of that sample only.    *)
DatabaseIsCurrent ==
  phase = "clean" /\ pr = Anchor => \A e \in Stored : \E k \in DOMAIN present : present[k] = e
=============================================================================
