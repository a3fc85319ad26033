------------------------- MODULE PrivateAccounting -------------------------
(* The private accounting file of atop (acctproc.c): the atops that run at   *)
(* the same time share one file, the first one switches accounting on, the   *)
(* last one off.  A semaphore group holds a mutex and the (inverted) number  *)
(* of users; SEM_UNDO restores both when an atop is killed.  An atop that is *)
(* alone wipes the file when it has become large.  The administrator may     *)
(* switch accounting to a standard file, and the kernel suspends accounting  *)
(* when the disk is full.                                                    *)
EXTENDS Naturals, FiniteSets

CONSTANTS
    Atops,
    ATOPACCTTOT,  \* value of the counter without users
    ACCTMAXFILESZ,\* records in the file after which it is wiped
    MaxFiles,     \* bound: private files at the same time
    MaxRecs       \* bound: records in the file

\* Assumed of the constants: there is room for a file, and no more atops run
\* than the semaphore can count.
AccountingAssumption ==
    /\ IsFiniteSet(Atops) /\ ATOPACCTTOT \in Nat /\ Cardinality(Atops) <= ATOPACCTTOT
    /\ MaxFiles \in Nat \ {0}

VARIABLES
    group,      \* the semaphore group: absent, created, or initialised
    mutex,      \* semaphore 0
    counter,    \* semaphore 1
    pdir,       \* the directory ACCTDIR
    file,       \* the file in it: 0 if none, else its inode
    size,       \* records in each file
    target,     \* the file the kernel writes to: 0 if none, Standard
    suspended,  \* the kernel does not write
    priv,       \* atops with root privileges
    pc, fd, acctsize, acctatop,  \* of each atop
    killed,     \* history: an atop was killed
    foreign     \* history: another accounting, or a full disk, interfered

varsPrivate == <<group, mutex, counter, pdir, file, size, target, suspended, priv, pc, fd, acctsize, acctatop,
                 killed, foreign>>
sems == <<group, mutex, counter>>
disk == <<pdir, file, size, target>>
history == <<killed, foreign>>
own == <<fd, acctsize, acctatop>>

Standard == MaxFiles + 1
HasMutex == {"create", "open", "trialmutex", "last"}

InitPrivate ==
    /\ group = "absent" /\ mutex = 0 /\ counter = 0
    /\ pdir = FALSE /\ file = 0 /\ size = [f \in 1 .. MaxFiles |-> 0] /\ target = 0 /\ suspended = FALSE
    /\ priv \in {P \in SUBSET Atops : P # {}}
    /\ pc = [p \in Atops |-> "off"] /\ fd = [p \in Atops |-> 0]
    /\ acctsize = [p \in Atops |-> 0] /\ acctatop = [p \in Atops |-> FALSE]
    /\ killed = FALSE /\ foreign = FALSE

Goto(p, l) == pc' = [pc EXCEPT ![p] = l]
Writes(f) == target = f /\ f \in 1 .. MaxFiles /\ ~suspended

\* A record more in the file that the kernel writes to, if any.
Grown == IF Writes(target) THEN [size EXCEPT ![target] = @ + 1] ELSE size

---------------------------------------------------------------------------
(* acctswon *)

\* Accounting to a standard file is preferred, and needs no semaphore.  The
\* group is created exclusively, or opened.
GetGroup(p) ==
    /\ pc[p] = "off"
    /\ \/ target = Standard /\ Goto(p, "standard") /\ UNCHANGED sems
       \/ target # Standard /\ group = "absent" /\ group' = "created" /\ Goto(p, "setall")
          /\ UNCHANGED <<mutex, counter>>
       \/ target # Standard /\ group # "absent" /\ Goto(p, "claim") /\ UNCHANGED sems
    /\ UNCHANGED <<disk, suspended, priv, own, history>>

SetAll(p) ==
    /\ pc[p] = "setall"
    /\ group' = "ready" /\ mutex' = 1 /\ counter' = ATOPACCTTOT
    /\ Goto(p, "claim")
    /\ UNCHANGED <<disk, suspended, priv, own, history>>

ClaimMutex(p) ==
    /\ mutex = 1 /\ mutex' = 0
    /\ \/ pc[p] = "claim" /\ Goto(p, "create") /\ UNCHANGED counter
       \/ pc[p] = "trial" /\ Goto(p, "trialmutex") /\ UNCHANGED counter
       \/ pc[p] = "leave" /\ Goto(p, "last") /\ counter' = counter + 1
    /\ UNCHANGED <<group, disk, suspended, priv, own, history>>

\* The first user makes the directory (a left one is removed first), the file,
\* and switches accounting on.
IsFirst_early == counter >= ATOPACCTTOT - 1
IsFirst == counter = ATOPACCTTOT

Create(p) ==
    /\ pc[p] = "create"
    /\ \/ ~IsFirst /\ Goto(p, "open") /\ UNCHANGED <<mutex, disk>>
       \/ /\ IsFirst /\ p \notin priv
          /\ Goto(p, "off") /\ mutex' = 1 /\ UNCHANGED disk
       \/ /\ IsFirst /\ p \in priv
          /\ LET f == CHOOSE g \in 1 .. MaxFiles : \A q \in Atops : fd[q] # g IN
                /\ file' = f /\ pdir' = TRUE /\ size' = [size EXCEPT ![f] = 0] /\ target' = f
          /\ Goto(p, "open") /\ UNCHANGED mutex
    /\ UNCHANGED <<group, counter, suspended, priv, own, history>>

\* acct(0), unlink, rmdir: without privileges they do nothing.
Remove(p) ==
    IF p \in priv THEN target' = 0 /\ file' = 0 /\ pdir' = FALSE
                  ELSE UNCHANGED <<target, file, pdir>>

OpenPrivate(p) ==
    /\ pc[p] = "open" /\ mutex' = 1
    /\ IF file # 0 /\ p \in priv
       THEN /\ fd' = [fd EXCEPT ![p] = file] /\ acctatop' = [acctatop EXCEPT ![p] = TRUE]
            /\ counter' = counter - 1
            /\ Goto(p, "vers")
            /\ UNCHANGED <<pdir, file, target>>
       ELSE /\ Remove(p)
            /\ Goto(p, "off")
            /\ UNCHANGED <<fd, acctatop, counter>>
    /\ UNCHANGED <<group, size, suspended, priv, acctsize, history>>

\* A child is started for the first record, then the version is read.  When
\* there is no record, accounting is switched off and the file removed, but the
\* counter and acctatop stay as they are.
acctversPrivate(p) ==
    LET now == IF size[fd[p]] = 0 THEN Grown ELSE size IN
    /\ pc[p] = "vers"
    /\ size' = now
    /\ IF now[fd[p]] > 0
       THEN /\ acctsize' = [acctsize EXCEPT ![p] = now[fd[p]]] /\ Goto(p, "on")
            /\ UNCHANGED <<pdir, file, target, fd>>
       ELSE /\ Remove(p) /\ fd' = [fd EXCEPT ![p] = 0] /\ Goto(p, "half")
            /\ UNCHANGED acctsize
    /\ UNCHANGED <<sems, suspended, priv, acctatop, history>>

---------------------------------------------------------------------------
(* A sample: acctprocnt and acctphotoproc for a file without shadow, and the *)
(* attempt to wipe the file.                                                 *)

Sample(p) ==
    /\ pc[p] = "on" /\ acctsize[p] # size[fd[p]]
    /\ acctsize' = [acctsize EXCEPT ![p] = size[fd[p]]]
    /\ Goto(p, IF size[fd[p]] > ACCTMAXFILESZ THEN "size" ELSE "on")
    /\ UNCHANGED <<sems, disk, suspended, priv, fd, acctatop, history>>

CheckSize(p) ==
    /\ pc[p] = "size"
    /\ Goto(p, IF acctsize[p] = size[fd[p]] THEN "trial" ELSE "on")
    /\ UNCHANGED <<sems, disk, suspended, priv, own, history>>

Alone_two == counter >= ATOPACCTTOT - 2
Alone == counter >= ATOPACCTTOT - 1

\* Off, truncate (by name), on: what was written meanwhile is gone.
acctrestarttrial(p) ==
    /\ pc[p] = "trialmutex" /\ mutex' = 1
    /\ IF Alone
       THEN /\ size' = IF file = 0 THEN size ELSE [size EXCEPT ![file] = 0]
            /\ target' = file
            /\ acctsize' = [acctsize EXCEPT ![p] = 0]
       ELSE UNCHANGED <<size, target, acctsize>>
    /\ Goto(p, "on")
    /\ UNCHANGED <<group, counter, pdir, file, suspended, priv, fd, acctatop, history>>

---------------------------------------------------------------------------
(* acctswoff and the end of the process *)

\* Without an open file nothing is done; the end of the process then undoes the
\* counter that a failure of acctvers left.
acctswoff(p) ==
    /\ pc[p] \in {"on", "standard", "half"}
    /\ IF pc[p] = "on" /\ acctatop[p]
       THEN /\ acctatop' = [acctatop EXCEPT ![p] = FALSE] /\ Goto(p, "leave")
            /\ UNCHANGED <<fd, acctsize, counter>>
       ELSE /\ counter' = IF pc[p] = "half" THEN counter + 1 ELSE counter
            /\ acctatop' = [acctatop EXCEPT ![p] = FALSE] /\ Goto(p, "off")
            /\ fd' = [fd EXCEPT ![p] = 0] /\ acctsize' = [acctsize EXCEPT ![p] = 0]
    /\ UNCHANGED <<group, mutex, disk, suspended, priv, history>>

LastUser_never(p) ==
    /\ pc[p] = "last" /\ mutex' = 1
    /\ fd' = [fd EXCEPT ![p] = 0] /\ acctsize' = [acctsize EXCEPT ![p] = 0]
    /\ Goto(p, "off")
    /\ UNCHANGED <<disk, group, counter, suspended, priv, acctatop, history>>

\* The last user looks whether the file still grows: only then it is the one
\* that the kernel writes to.
LastUser(p) ==
    /\ pc[p] = "last" /\ mutex' = 1
    /\ size' = IF IsFirst THEN Grown ELSE size
    /\ IF IsFirst /\ Grown[fd[p]] > size[fd[p]]
       THEN Remove(p) ELSE UNCHANGED <<pdir, file, target>>
    /\ fd' = [fd EXCEPT ![p] = 0] /\ acctsize' = [acctsize EXCEPT ![p] = 0]
    /\ Goto(p, "off")
    /\ UNCHANGED <<group, counter, suspended, priv, acctatop, history>>

Killed_noundo(p) ==
    /\ pc[p] # "off"
    /\ mutex' = IF pc[p] \in HasMutex THEN 1 ELSE mutex
    /\ fd' = [fd EXCEPT ![p] = 0] /\ acctsize' = [acctsize EXCEPT ![p] = 0]
    /\ acctatop' = [acctatop EXCEPT ![p] = FALSE]
    /\ Goto(p, "off") /\ killed' = TRUE
    /\ UNCHANGED <<group, counter, disk, suspended, priv, foreign>>

\* Killed: the semaphores are restored.
Killed(p) ==
    /\ pc[p] # "off"
    /\ mutex' = IF pc[p] \in HasMutex THEN 1 ELSE mutex
    /\ counter' = IF pc[p] \in {"vers", "on", "size", "trial", "trialmutex", "leave", "half"} THEN counter + 1 ELSE counter
    /\ fd' = [fd EXCEPT ![p] = 0] /\ acctsize' = [acctsize EXCEPT ![p] = 0]
    /\ acctatop' = [acctatop EXCEPT ![p] = FALSE]
    /\ Goto(p, "off") /\ killed' = TRUE
    /\ UNCHANGED <<group, disk, suspended, priv, foreign>>

---------------------------------------------------------------------------
(* The kernel and the administrator *)

ExitPrivate ==
    /\ Writes(target) /\ size[target] < MaxRecs /\ size' = Grown
    /\ UNCHANGED <<sems, pdir, file, target, suspended, priv, pc, own, history>>
Suspend == suspended' = ~suspended /\ foreign' = TRUE /\ UNCHANGED <<sems, disk, priv, pc, own, killed>>
Admin ==
    /\ target' = IF target = Standard THEN 0 ELSE Standard
    /\ foreign' = TRUE
    /\ UNCHANGED <<sems, pdir, file, size, suspended, priv, pc, own, killed>>

NextPrivate ==
    \/ ExitPrivate \/ Suspend \/ Admin
    \/ \E p \in Atops :
          \/ GetGroup(p) \/ SetAll(p) \/ ClaimMutex(p) \/ Create(p) \/ OpenPrivate(p) \/ acctversPrivate(p)
          \/ Sample(p) \/ CheckSize(p) \/ acctrestarttrial(p) \/ acctswoff(p) \/ LastUser(p) \/ Killed(p)

SpecPrivate == InitPrivate /\ [][NextPrivate]_varsPrivate

---------------------------------------------------------------------------
(* Properties. *)

Users == {p \in Atops : pc[p] \in {"vers", "on", "size", "trial", "trialmutex", "leave"}}

\* The counter tells how many atops took part in private accounting and have
\* not left, whoever was killed in between.
CounterCounts ==
    group = "ready" =>
        counter = ATOPACCTTOT - Cardinality(Users \union {p \in Atops : pc[p] = "half"})

\* As long as there are users they have one file open, the one in the
\* directory, and the kernel writes to it, whoever came, left or was killed
\* (while no other accounting and no full disk interferes).
UsersShareFile == \A p \in Users : ~foreign => fd[p] = file /\ target = file

\* When all atops have left by themselves, accounting is off and nothing is
\* left in the file system.
LastOneCleans == ~killed /\ ~foreign /\ (\A p \in Atops : pc[p] = "off") => target = 0 /\ ~pdir

\* Atops that come, leave and are killed share one accounting file, count
\* themselves rightly, and the last one to leave turns accounting off.
SharedUntilLast == CounterCounts /\ UsersShareFile /\ LastOneCleans

\* The file is never wiped under another user: all of its records are still
\* to be read by that one.
WipedOnlyAlone ==
    [][\A f \in 1 .. MaxFiles : size'[f] < size[f] => Cardinality({p \in Users : fd[p] = f}) <= 1]_varsPrivate
=============================================================================
