----------------------------- MODULE SystemStats -----------------------------
(* The system statistics of atop: photosyst (photosyst.c) copies the kernel's *)
(* counters into tables, deviatsyst (deviate.c) subtracts the tables of the  *)
(* previous sample, totalsyst adds samples up, initifprop and getifprop      *)
(* (ifprop.c) keep the speed of the interfaces.                              *)
(*                                                                           *)
(* One class of devices is looked at in a behaviour: interfaces, disks (also *)
(* md devices and logical volumes), NFS mounts, containers or processors.    *)
(* Devices come and go and count between the samples.  A device has one      *)
(* counter of the kernel's width.  The history variables say how much each   *)
(* device really counted since the sample before.                            *)
EXTENDS Integers, Sequences, FiniteSets, FiniteSetsExt, SequencesExt

CONSTANTS
    Classes,      \* the classes looked at
    Names,        \* devices: 0 .. n - 1, the number of a processor
    MaxTab,       \* entries of a table (MAXINTF, MAXDSK, MAXNFSMOUNT, ...)
    MAX32BITVAL,  \* a kernel counter wraps here
    Speeds,       \* speeds of an interface
    Anywhere,     \* a new device may come before others in the kernel's list
    MaxSamples,   \* bound: samples taken
    MaxChanges    \* bound: devices coming, going and counting

VARIABLES
    sclass,   \* the class
    kdevs,    \* the kernel's list: name, counter, speed, new since the sample
    really,   \* history: what each device counted since the sample before
    took,     \* history: really, when photosyst read the counters
    cur, pre, \* tables of this sample and of the one before, and the entries used
    dev,      \* the deviations
    tot,      \* totals of two samples, and how many are in it
    summed,   \* history: devices whose counts are in each entry of tot
    ifprops,  \* the table of interface properties, never terminated anew
    spc       \* control: samples taken, changes so far, next step

\* A device has a name, a table has room, and the counters have a width.
StatsAssumption ==
    /\ Classes \subseteq {"intf", "dsk", "nfs", "cont", "cpu"}
    /\ Names \in SUBSET Nat /\ IsFiniteSet(Names)
    /\ MaxTab \in Nat \ {0} /\ MAX32BITVAL \in Nat \ {0}
    /\ Speeds \in SUBSET Nat /\ Speeds # {}

vars == <<sclass, kdevs, really, took, cur, pre, dev, tot, summed, ifprops, spc>>

Empty == [name |-> -1, cnt |-> 0, speed |-> 0, speedp |-> 0, young |-> FALSE]
NoTable == [tab |-> <<>>, n |-> 0]
At(tab, j) == IF j \in DOMAIN tab THEN tab[j] ELSE Empty
NamesIn(tab) == {tab[j].name : j \in DOMAIN tab}

Init ==
    /\ sclass = "none"
    /\ kdevs = <<>> /\ really = [d \in Names |-> 0] /\ took = [d \in Names |-> 0]
    /\ cur = NoTable /\ pre = NoTable /\ dev = NoTable
    /\ tot = <<>> /\ summed = <<>> /\ ifprops = <<>>
    /\ spc = [samples |-> 0, changes |-> 0, step |-> "photo"]

\* The system has devices that have counted when atop starts.
Boot ==
    /\ sclass = "none"
    /\ sclass' \in Classes
    /\ \E ds \in UNION {SetToSeqs(S) : S \in SUBSET Names} :
        kdevs' = [p \in DOMAIN ds |-> [Empty EXCEPT !.name = ds[p], !.cnt = MAX32BITVAL - 1, !.speed = Min(Speeds)]]
    /\ UNCHANGED <<really, took, cur, pre, dev, tot, summed, ifprops, spc>>

---------------------------------------------------------------------------
(* The kernel. *)

Change ==
    /\ sclass # "none" /\ spc.changes < MaxChanges /\ (spc.samples < MaxSamples \/ spc.step = "dev")
    /\ spc' = [spc EXCEPT !.changes = @ + 1]
    /\ UNCHANGED <<sclass, took, cur, pre, dev, tot, summed, ifprops>>

Plug ==
    /\ Change
    /\ \E d \in Names \ NamesIn(kdevs), p \in 1 .. Len(kdevs) + 1, s \in Speeds :
        /\ Anywhere \/ sclass = "intf" \/ p = Len(kdevs) + 1
        /\ sclass = "intf" \/ s = Min(Speeds)
        /\ kdevs' = InsertAt(kdevs, p, [Empty EXCEPT !.name = d, !.speed = s, !.young = TRUE])
        /\ really' = [really EXCEPT ![d] = 0]

Unplug ==
    /\ Change
    /\ \E p \in DOMAIN kdevs : kdevs' = RemoveAt(kdevs, p)
    /\ UNCHANGED really

Count ==
    /\ Change
    /\ \E p \in DOMAIN kdevs :
        /\ really[kdevs[p].name] < MAX32BITVAL - 1
        /\ kdevs' = [kdevs EXCEPT ![p].cnt = (@ + 1) % MAX32BITVAL]
        /\ really' = [really EXCEPT ![kdevs[p].name] = @ + 1]

SetSpeed ==
    /\ Change /\ sclass = "intf"
    /\ \E p \in DOMAIN kdevs, s \in Speeds : s # kdevs[p].speed /\ kdevs' = [kdevs EXCEPT ![p].speed = s]
    /\ UNCHANGED really

---------------------------------------------------------------------------
(* photosyst *)

Prefix(s, n) == SubSeq(s, 1, Min({Len(s), n}))

\* Mutant of Terminated.
Terminated_full(s) == [tab |-> Prefix(s, MaxTab), n |-> Min({Len(s), MaxTab})]

\* The table ends with an empty entry, so that one entry stays free.
Terminated(s) == [tab |-> Prefix(s, MaxTab - 1), n |-> Min({Len(s), MaxTab - 1})]

photointf == Terminated(kdevs)
photodsk == Terminated(kdevs)
photonfs == Terminated(kdevs)

\* The loop that stops at the last entry counts the one that did not fit.
photocont == [tab |-> Prefix(kdevs, MaxTab), n |-> Min({Len(kdevs), MaxTab + 1})]

\* A processor is stored under its number; the processors on line are counted.
photocpu ==
    [tab |-> [i \in 1 .. MaxTab |-> LET on == {p \in DOMAIN kdevs : kdevs[p].name = i - 1}
                                    IN IF on = {} THEN Empty ELSE kdevs[Min(on)]],
     n |-> IF kdevs = <<>> THEN 1 ELSE Len(kdevs)]

photosyst ==
    /\ sclass # "none" /\ spc.step = "photo" /\ spc.samples < MaxSamples
    /\ pre' = cur
    /\ cur' = CASE sclass = "intf" -> photointf
                [] sclass = "dsk" -> photodsk
                [] sclass = "nfs" -> photonfs
                [] sclass = "cont" -> photocont
                [] sclass = "cpu" -> photocpu
    /\ took' = really /\ really' = [d \in Names |-> 0]
    /\ kdevs' = [p \in DOMAIN kdevs |-> [kdevs[p] EXCEPT !.young = FALSE]]
    /\ spc' = [spc EXCEPT !.samples = @ + 1, !.step = "dev"]
    /\ UNCHANGED <<sclass, dev, tot, summed, ifprops>>

---------------------------------------------------------------------------
(* Interface properties *)

\* The names and speeds now; what is behind them in the table stays.
initifprop ==
    LET now == Prefix(kdevs, MaxTab - 1)
    IN [i \in 1 .. Max({Len(now), Len(ifprops)}) |-> IF i \in DOMAIN now THEN [name |-> now[i].name, speed |-> now[i].speed]
                                                     ELSE ifprops[i]]

\* Mutant of getifprop.
getifprop_last(props, d) ==
    LET found == {i \in DOMAIN props : props[i].name = d} IN IF found = {} THEN 0 ELSE props[Max(found)].speed

getifprop(props, d) ==
    LET found == {i \in DOMAIN props : props[i].name = d} IN IF found = {} THEN 0 ELSE props[Min(found)].speed

---------------------------------------------------------------------------
(* deviatsyst: which entry j of the previous table entry i is compared with. *)

subcount(newval, oldval) == IF newval >= oldval THEN newval - oldval ELSE MAX32BITVAL + newval - oldval

FirstNamed(tab, d, from) == Min({k \in from .. Len(tab) + from : At(tab, k).name \in {d, Empty.name}})

\* Interfaces: the pointer, or a search from the start; 0 if not found.
\* Mutant of SameInterface.
SameInterface_pointer(d, tab, j) == IF j \in DOMAIN tab THEN j ELSE 0

SameInterface(d, tab, j) ==
    IF At(tab, j).name = d THEN j
    ELSE LET k == FirstNamed(tab, d, 1) IN IF k \in DOMAIN tab THEN k ELSE 0

\* Disks: the pointer, or a search forward, up to an empty entry.
\* Mutant of SameDisk.
SameDisk_pointer(d, tab, j) == j

SameDisk(d, tab, j) == IF At(tab, j).name = d THEN j ELSE FirstNamed(tab, d, j + 1)

\* The test for an empty entry is never true: the pointer always moves on.
AfterDisk(tab, k, j) == k + 1

\* Mounts: the pointer, or a search from the start, up to the end.
SameMount(d, tab, j) == IF At(tab, j).name = d THEN j ELSE FirstNamed(tab, d, 1)

\* Mutant of Remounted.
Remounted_never(e) == FALSE

\* A mount younger than the interval has counted from zero.
Remounted(e) == e.young

\* The entry m that e is compared with, 0 if there is none, and the pointer
\* for the next one.
NextPlace(e, j) ==
    LET m == CASE sclass = "intf" -> SameInterface(e.name, pre.tab, j)
               [] sclass = "dsk" -> SameDisk(e.name, pre.tab, j)
               [] sclass = "nfs" -> SameMount(e.name, pre.tab, j)
    IN [m |-> IF sclass = "nfs" /\ Remounted(e) THEN 0 ELSE m,
        j |-> IF sclass = "dsk" THEN AfterDisk(pre.tab, m, j) ELSE IF m = 0 THEN 2 ELSE m + 1]

\* Containers and processors are compared by their place.
Compared ==
    LET walk[i \in 0 .. Len(cur.tab)] == IF i = 0 THEN [m |-> 0, j |-> 1] ELSE NextPlace(cur.tab[i], walk[i - 1].j)
    IN [i \in 1 .. Len(cur.tab) |-> IF sclass \in {"cont", "cpu"} THEN i ELSE walk[i].m]

Subtracted(e, p) == [e EXCEPT !.cnt = subcount(e.cnt, p.cnt), !.speedp = p.speed]

\* A class without interfaces keeps no speeds.
deviatsyst ==
    /\ spc.step = "dev"
    /\ ifprops' = IF sclass = "intf" THEN initifprop ELSE ifprops
    /\ LET c == [i \in DOMAIN cur.tab |-> IF sclass # "intf" THEN cur.tab[i]
                    ELSE LET s == getifprop(ifprops', cur.tab[i].name)
                         IN [cur.tab[i] EXCEPT !.speed = s, !.speedp = IF Compared[i] = 0 THEN s ELSE pre.tab[Compared[i]].speed]]
       IN /\ cur' = [cur EXCEPT !.tab = c]
          /\ dev' = [tab |-> [i \in 1 .. Min({cur.n, Len(cur.tab)}) |->
                                 LET p == At(pre.tab, Compared[i])
                                 IN [Subtracted(c[i], p) EXCEPT !.speedp = c[i].speedp]],
                     n |-> cur.n]
    /\ spc' = [spc EXCEPT !.step = "tot"]
    /\ UNCHANGED <<sclass, kdevs, really, took, pre, tot, summed>>

---------------------------------------------------------------------------
(* totalsyst *)

\* Mutant of SameEntry.
SameEntry_always(e, t) == t.name # Empty.name

\* An interface keeps its totals only in the entry that has its name; the
\* disks do not look at the name.
SameEntry(e, t) == IF sclass = "intf" THEN t.name = e.name ELSE t.name # Empty.name

SummaryCnt == 2
Added(e, t) == [e EXCEPT !.cnt = e.cnt + IF SameEntry(e, t) THEN t.cnt ELSE 0]

totalsyst ==
    /\ spc.step = "tot"
    /\ LET old == IF spc.samples % SummaryCnt = 1 THEN <<>> ELSE tot
           from == IF spc.samples % SummaryCnt = 1 THEN <<>> ELSE summed
       IN /\ tot' = [i \in DOMAIN dev.tab |-> Added(dev.tab[i], At(old, i))]
          /\ summed' = [i \in DOMAIN dev.tab |-> {dev.tab[i].name} \union
                            (IF SameEntry(dev.tab[i], At(old, i)) THEN from[i] ELSE {})]
    /\ spc' = [spc EXCEPT !.step = "photo"]
    /\ UNCHANGED <<sclass, kdevs, really, took, cur, pre, dev, ifprops>>

Next ==
    \/ Boot \/ Plug \/ Unplug \/ Count \/ SetSpeed
    \/ photosyst \/ deviatsyst \/ totalsyst

Spec == Init /\ [][Next]_vars

---------------------------------------------------------------------------
(* Properties. *)

Deviated == spc.step = "tot"

\* What a device counted according to its entry in the tables: since the
\* sample before if it was in the table then, and since it came otherwise.
Truly(i) ==
    IF dev.tab[i].name \in NamesIn(pre.tab) /\ ~cur.tab[i].young THEN took[dev.tab[i].name]
    ELSE cur.tab[i].cnt

\* A device that came back under its name counts from zero again, which only
\* the age of a mount shows.
Recreated(i) == cur.tab[i].young /\ dev.tab[i].name \in NamesIn(pre.tab) /\ sclass # "nfs"

\* The deviation of a device is what that device counted since the sample
\* before, whatever came and went in between and also when its counter
\* wrapped: always for interfaces and mounts, for disks as long as new ones
\* come last, for containers and processors where the place did not change.
TrueDeviations ==
    Deviated =>
        \A i \in DOMAIN dev.tab :
            /\ dev.tab[i].name \in Names /\ ~Recreated(i)
            /\ sclass \in {"cont", "cpu"} => At(pre.tab, i).name = dev.tab[i].name
            => dev.tab[i].cnt = Truly(i)

\* The tables that deviatsyst walks up to an empty name have one: a full
\* table of the kernel never fills the last entry.
HasTerminator == sclass \in {"intf", "dsk", "nfs"} => cur.n < MaxTab /\ Len(cur.tab) = cur.n

\* An interface that was in the kernel's list when the properties were read
\* has the speed it had then, though the table is never cleared, and as
\* previous speed the one of the sample before.
SpeedsCurrent ==
    [][spc.step = "dev" /\ spc'.step = "tot" /\ sclass = "intf" =>
        \A i \in DOMAIN dev'.tab :
            /\ \A p \in 1 .. Min({Len(kdevs), MaxTab - 1}) : kdevs[p].name = dev'.tab[i].name => dev'.tab[i].speed = kdevs[p].speed
            /\ \A p \in DOMAIN pre.tab : pre.tab[p].name = dev'.tab[i].name => dev'.tab[i].speedp = pre.tab[p].speed]_vars

\* The totals of an interface hold the counts of that interface only, when
\* the places of the interfaces in the table change between the samples.
TotalsUnmixed == sclass = "intf" => \A i \in DOMAIN tot : summed[i] = {tot[i].name}

\* Two samples are compared entry by entry of the same device, as are their
\* totals, and every walk through a table comes to its end.
DevicesMatched == TrueDeviations /\ HasTerminator /\ TotalsUnmixed

=============================================================================
