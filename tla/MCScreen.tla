------------------------------ MODULE MCScreen -------------------------------
(***************************************************************************)
(* From the kernel to the screen: the files of /proc, the samples and      *)
(* their deviations, the interactive list, and the lines that are shown.   *)
(* A behaviour looks at one of the four: what passes between them is one   *)
(* complete sample at a time.                                              *)
(***************************************************************************)
EXTENDS ShowGeneric
CONSTANTS
    Parts,   \* what is looked at: "proc", "stats", "list", "lines"
    Kinds, MaxMount,
    Classes, Names, MaxTab, MAX32BITVAL, Speeds, Anywhere, MaxSamples, MaxChanges,
    LineIntervals, Widths, Busy, PidDigits, MaxShown, MaxOrders
VARIABLES
    part,
    rdr,
    sclass, kdevs, really, took, cur, pre, dev, tot, summed, ifprops, spc,
    ln

\* A process, two of its threads, and four processes of two users.
Task(pid, tgid, uid, name, cont, cpu, mem, active, exited) ==
    [pid |-> pid, tgid |-> tgid, isproc |-> pid = tgid, uid |-> uid, name |-> name, cont |-> cont, args |-> 0,
     cpu |-> cpu, mem |-> mem, dsk |-> 0, net |-> 0, pmem |-> mem, active |-> active, exited |-> exited]
MCTall == <<Task(1, 1, 0, 1, 0, 0, 4, FALSE, FALSE), Task(2, 2, 5, 1, 7, 3, 2, TRUE, FALSE),
            Task(3, 2, 5, 1, 7, 1, 2, TRUE, FALSE), Task(4, 2, 5, 1, 7, 0, 2, FALSE, FALSE),
            Task(5, 5, 0, 2, 0, 4, 3, TRUE, FALSE), Task(6, 6, 5, 2, 0, 2, 0, TRUE, TRUE)>>
MCFlags == {<<>>, <<"y", "n">>}
MCRc == {<<>>, <<"A", "n">>}
MCPids == {<<2, 6>>, <<>>}
MCUsers == {{5}, {}}
MCNames == {{1}}

\* Values around every power of ten, with a half and just below it.
MCTens == UNION {{10^k - 1, 10^k, 5 * 10^k - 1, 9995 * 10^(k - 3), 9949 * 10^(k - 3), 12345 * 10^(k - 3)} : k \in 3..6}
MCValues == [ val |-> MCTens \cup {-7, -1, 0, 1, 9, 98, 99, 100, 250, 99999, 123456, 123461, 99499999},
              cpu |-> {0, 9, 999, 1234, 99999, 100000, 100499, 100500, 5999499, 5999500, 6000000,
                       6029999, 359969499, 359999999, 361800000, 432000000},
              mem |-> {-200000, -102297, -10000, -9999, -1, 0, 1, 2, 999, 1000, 9999, 10188, 10230, 10300, 30000,
                       99999, 100000, 1022976, 1022977, 20000000},
              hz  |-> {0, 800, 999, 1000, 2400, 9994, 9996, 9999, 10000, 99960, 99999, 100000, 999999, 1000000},
              dec |-> {0, 1, 99, 995, 9994, 9996, 99996, 123456},
              percent |-> {0, 49, 51, 9949, 9951, 9999, 10000, 98000},
              load |-> {0, 1, 9999, 99899, 99900, 99901, 123456},
              avio |-> {0, 1, 999, 1000, 1001, 9994, 9996, 10000, 10001, 99000},
              speed |-> {0, 124, 125, 1249999, 1250000, 124999999, 1249999999, 1250000000},
              speedmax |-> {0, 10, 1000, 9999, 10000, 100000},
              int |-> {0, 7, 10, 99}, literal |-> {0, 1} ]

Proc == INSTANCE ProcFiles
Stats == INSTANCE SystemStats
\* The second list gives up its COMMAND-LINE column first.
Item(names, prios) == [k \in DOMAIN names |-> [name |-> names[k], prio |-> prios[k]]]
MCOwnLists == {Item(<<"PID", "COMMAND-LINE", "SORTITEM", "CMD">>, <<9, 2, 7, 5>>), Item(<<"COMMAND-LINE">>, <<5>>)}
Lines == INSTANCE ShowLines WITH
    Values <- MCValues, Intervals <- LineIntervals, OwnLists <- MCOwnLists, MaxSamples <- MaxOrders

\* The assumption of SystemStats holds of this instance.
ASSUME ScreenAssumption == Stats!StatsAssumption

stats == <<sclass, kdevs, really, took, cur, pre, dev, tot, summed, ifprops, spc>>
NoStats ==
    /\ sclass = "none" /\ spc = [step |-> "off"]
    /\ kdevs = 0 /\ really = 0 /\ took = 0 /\ cur = 0 /\ pre = 0 /\ dev = 0
    /\ tot = 0 /\ summed = 0 /\ ifprops = 0

InitScreen ==
    /\ part \in Parts
    /\ IF part = "proc" THEN Proc!Init ELSE rdr = [kind |-> "none"]
    /\ IF part = "stats" THEN Stats!Init ELSE NoStats
    /\ IF part = "list" THEN Init ELSE ui = [pc |-> "off"]
    /\ IF part = "lines" THEN Lines!Init ELSE ln = [act |-> "off"]

NextScreen ==
    /\ \/ part = "proc" /\ Proc!Next /\ UNCHANGED <<stats, ui, ln>>
       \/ part = "stats" /\ Stats!Next /\ UNCHANGED <<rdr, ui, ln>>
       \/ part = "list" /\ Next /\ UNCHANGED <<rdr, stats, ln>>
       \/ part = "lines" /\ Lines!Next /\ UNCHANGED <<rdr, stats, ui>>
    /\ UNCHANGED part

SpecScreen == InitScreen /\ [][NextScreen]_<<part, rdr, stats, ui, ln>>

\* StoredWhereItBelongs of ProcFiles: photosyst stores what a line of /proc
\* says under the name or the mount or container the line is about.
StoredWhereItBelongs == part = "proc" => Proc!StoredWhereItBelongs

\* DevicesMatched of SystemStats: deviatsyst subtracts, and totalsyst adds,
\* counters of the same device.
DevicesMatched == part = "stats" => Stats!DevicesMatched

\* SpeedsCurrent of SystemStats: an interface has the speed of this sample.
SpeedsCurrent == Stats!SpeedsCurrent

\* ScreenFollowsKeys of ShowGeneric: the list on the screen is the one that
\* the switches and selections ask for, and the timer runs on.
ListAsAsked == part = "list" => ScreenFollowsKeys

\* FiguresTell of ShowLines: a figure is near its value and inside its box.
FiguresTell == part = "lines" => Lines!FiguresTell

\* LayoutFits of ShowLines: the most important boxes and columns fill a line.
LayoutFits == part = "lines" => Lines!LayoutFits

\* AveragesOrdered of ShowLines: val2memstr "determine[s] which format will be
\* used on bases of the value itself".
AveragesOrdered == part = "lines" => Lines!AveragesOrdered
=============================================================================
