----------------------------- MODULE ShowLines -----------------------------
(* What atop writes on a line: the text of a single figure, a line of boxes *)
(* about the system (showsys.c), a line of the process list (showprocs.c),  *)
(* and the resource the process list is ordered on when the program may     *)
(* choose (prisyst).  ln.act tells which of the four a behaviour follows;   *)
(* they share no state in the program either.                               *)
EXTENDS Figures, SequencesExt

CONSTANTS Values,       \* per conversion, the values a figure is shown of
          Intervals,    \* seconds between samples
          Widths,       \* columns of the screen, 30 or more
          Busy,         \* percentages a resource is in use
          PidDigits,    \* the width of a PID
          OwnLists,     \* process lines of an atoprc file
          MaxShown,     \* how often a header is shown
          MaxSamples    \* how often the order is chosen

VARIABLE ln

Item(name, prio) == [name |-> name, prio |-> prio]
Items(names, prios) == [i \in DOMAIN names |-> Item(names[i], prios[i])]
----------------------------------------------------------------------------
(* A figure.  The same place is filled sample after sample.                 *)
Blank == Unknown(0)

FigureInit == \E p \in BoxPlaces \cup ColumnPlaces, avg \in BOOLEAN, n \in Intervals :
    ln = [act |-> "figure", place |-> p, avg |-> avg, nsecs |-> n, value |-> 0, text |-> Blank,
          oldval |-> 0, oldtext |-> Blank, shown |-> 0]

ShowFigure ==
    /\ ln.act = "figure" /\ ln.shown < 2
    /\ \E v \in Values[ln.place.conv] :
         /\ v >= 0 \/ (ln.place.conv = "mem" => ~ln.place.avg)
         /\ ln' = [ln EXCEPT !.oldval = ln.value, !.oldtext = ln.text, !.value = v,
                             !.text = Convert(ln.place, v, ln.avg, ln.nsecs), !.shown = @ + 1]
----------------------------------------------------------------------------
(* A line of boxes.                                                         *)
SysLines ==
    { <<8, 8, 0, 7, 5, 5, 5, 5, 4, 0, 6>>,                      \* PRC
      <<9, 8, 6, 0, 7, 7, 2, 3, 0, 5, 4, 4, 4>>,                \* CPU, cpu
      <<4, 3, 2, 0, 6, 5, 0, 1>>,                               \* CPL
      <<6, 7, 5, 3, 5, 5, 2, 0, 4, 3, 1, 0, 4, 0, 4, 3>> }      \* MEM
SwapLines == { <<3, 4, 0, 0, 0, 0, 0, 0, 5, 6>>, <<3, 3, 1, 0, 0, 0, 0, 0, 3, 4>>,
               <<8, 7, 6, 6, 0, 0>>, <<8, 7, 6, 6, 4, 4, 5, 5, 1, 5>> }   \* SWP PAG CON DSK
NfsLines == { <<8, 8, 8, 8, 0, 7, 6, 0, 5, 4, 0, 3, 2, 0, 0>>, <<8, 7, 7, 5, 5, 0, 0, 0, 0, 0>>,
              <<8, 6, 6, 0, 7, 7, 0, 5, 5, 0, 3, 2, 1, 0, 4, 4, 4>> }     \* NFM NFC NFS
NetLines == { <<9, 8, 8, 8, 8, 6, 5, 4, 3, 2, 1, 3>>, <<5, 4, 4, 4, 4, 0, 0, 0, 1, 1>>,
              <<8, 0, 7, 7, 0, 5, 6, 6, 0, 2, 2, 4, 4, 3, 3>> }           \* NET

Avail(maxw) == (maxw - 5) \div 15
CharSlack(maxw) == (maxw - 5) % 15

SysInit == \E line \in SysLines \cup SwapLines \cup NfsLines \cup NetLines, maxw \in Widths :
    ln = [act |-> "sys", maxw |-> maxw, elems |-> Items([i \in DOMAIN line |-> i], line),
          dropped |-> {}, next |-> 1, boxes |-> 0, blanks |-> 0, charslack |-> 0, itemslack |-> 0]

\* The first of the elements with the lowest priority.
Lowest_first(elems) == 1
Lowest(elems) == CHOOSE i \in DOMAIN elems :
    \A j \in DOMAIN elems : elems[i].prio < elems[j].prio
                            \/ (elems[i].prio = elems[j].prio /\ i <= j)

RemoveBox ==
    /\ ln.act = "sys" /\ Len(ln.elems) > Avail(ln.maxw)
    /\ LET i == Lowest(ln.elems)
       IN  ln' = [ln EXCEPT !.elems = RemoveAt(@, i), !.dropped = @ \cup {ln.elems[i]}]

\* while (used > 0.5) used -= 1, with used in 1/d: how often the loop runs.
Loops(used, d) == IF 2 * used > d THEN (2 * used + d - 1) \div (2 * d) ELSE 0

\* One box, the blank boxes that are due after it, and a chance to add a
\* blank before and after each of them.
BlankBoxes_half(n, avail) == (avail - n) \div 2
BlankBoxes(n, avail) == IF n > 1 THEN avail - n ELSE n * ((avail - n) \div 2)
PrintBox ==
    LET n     == Len(ln.elems)
        avail == Avail(ln.maxw)
        item  == ln.itemslack + BlankBoxes(n, avail)
        extra == Loops(item, n)
        char  == ln.charslack + (2 + 2 * extra) * CharSlack(ln.maxw)
        blank == Loops(char, 2 * avail)
    IN  /\ ln.act = "sys" /\ n <= avail /\ ln.next <= n
        /\ ln' = [ln EXCEPT !.next = @ + 1, !.boxes = @ + 1 + extra, !.blanks = @ + blank,
                            !.itemslack = item - n * extra,
                            !.charslack = char - 2 * avail * blank]

SysDone == ln.act = "sys" /\ ln.next > Len(ln.elems) /\ Len(ln.elems) <= Avail(ln.maxw)
SysWidth == 3 + 15 * ln.boxes + ln.blanks + 2
----------------------------------------------------------------------------
(* A line of the process list.  The width of the COMMAND-LINE column is     *)
(* kept in its definition from one header to the next.                      *)
MemLists == { Items(<<"PID", "TID", "MINFLT", "MAJFLT", "VSTEXT", "VSLIBS", "VDATA", "VSTACK", "VSIZE",
                      "RSIZE", "PSIZE", "VGROW", "RGROW", "SWAPSZ", "RUID", "EUID", "SORTITEM", "CMD">>,
                    <<10, 3, 2, 2, 4, 4, 4, 4, 6, 7, 5, 7, 8, 5, 1, 0, 9, 10>>),
              Items(<<"PID", "TID", "CID", "VPID", "CTID", "TRUN", "TSLPI", "TSLPU", "POLI", "NICE",
                      "PRI", "RTPR", "CPUNR", "ST", "EXC", "S", "SORTITEM", "CMD">>,
                    <<10, 6, 5, 4, 4, 7, 7, 7, 8, 9, 9, 9, 8, 8, 8, 8, 10, 10>>) }
NetLists == { Items(<<"PID", "TID", "RDDSK", "WRDSK", "WCANCL", "SORTITEM", "CMD">>,
                    <<10, 4, 9, 9, 8, 10, 10>>),
              Items(<<"PID", "TID", "TCPRCV", "TCPRASZ", "TCPSND", "TCPSASZ", "UDPRCV", "UDPRASZ",
                      "UDPSND", "UDPSASZ", "BANDWI", "BANDWO", "SORTITEM", "CMD">>,
                    <<10, 6, 9, 4, 9, 4, 8, 3, 8, 3, 10, 10, 10, 10>>) }
TotalLists == { Items(<<"NPROCS", "SYSCPU", "USRCPU", "VSIZE", "RSIZE", "PSIZE", "SWAPSZ", "RDDSK",
                        "CWRDSK", "RNET", "SNET", "SORTITEM", who>>,
                      <<10, 9, 9, 6, 8, 8, 5, 7, 7, 6, 6, 10, 10>>) : who \in {"RUID", "CMD", "CID"} }
CommandList == Items(<<"PID", "TID", "S", "SORTITEM", "COMMAND-LINE">>, <<10, 4, 8, 10, 10>>)
GenericList(threads, dock, iostat, netatop) ==
    LET If(c, s) == IF c THEN s ELSE <<>>
    IN  <<Item("PID", 10)>> \o If(threads, <<Item("TID", 6)>>) \o If(dock, <<Item("CID", 5)>>)
        \o Items(<<"SYSCPU", "USRCPU", "VGROW", "RGROW">>, <<9, 9, 8, 8>>)
        \o If(iostat, Items(<<"RDDSK", "CWRDSK">>, <<7, 7>>))
        \o If(netatop, Items(<<"RNET", "SNET">>, <<6, 6>>))
        \o Items(<<"RUID", "EUID", "ST", "EXC", "THR", "S", "CPUNR", "SORTITEM", "CMD">>,
                 <<3, 2, 4, 4, 4, 4, 4, 10, 10>>)
Lists == MemLists \cup NetLists \cup TotalLists \cup {CommandList} \cup OwnLists
         \cup {GenericList(t, t, i, n) : t, i, n \in BOOLEAN}

Variable(e) == e.name = "COMMAND-LINE"
Width(e) == IF Variable(e) THEN 0 ELSE Columns(ln.pidw)[e.name].w
Sum(s) == FoldSeq(LAMBDA a, b : a + b, 0, s)
FixedWidth(elems) == Sum([i \in DOMAIN elems |-> Width(elems[i])])
HasVariable(elems) == \E i \in DOMAIN elems : Variable(elems[i])

ProcInit == \E maxw \in Widths, w \in PidDigits :
    ln = [act |-> "proc", pc |-> "idle", maxw |-> maxw, pidw |-> w, list |-> <<>>, elems |-> <<>>,
          col |-> 0, varw |-> 0, cmdw |-> 0, dropped |-> {}, spacings |-> <<>>, shown |-> 0]

Resize == /\ ln.act = "proc" /\ ln.pc = "idle" /\ ln.shown = 1
          /\ \E maxw \in Widths : ln' = [ln EXCEPT !.maxw = maxw]

\* gettotwidth() copies the list and adds up the columns of a fixed width.
Header == /\ ln.act = "proc" /\ ln.pc = "idle" /\ ln.shown < MaxShown
          /\ \E list \in Lists :
               ln' = [ln EXCEPT !.list = list, !.elems = list, !.dropped = {},
                                !.col = FixedWidth(list),
                                !.varw = Cardinality({i \in DOMAIN list : Variable(list[i])}),
                                !.spacings = <<>>, !.pc = "fit"]

TooWide == ln.col + Len(ln.elems) - 1 + 12 * ln.varw > ln.maxw

RemoveColumn ==
    /\ ln.act = "proc" /\ ln.pc = "fit" /\ Len(ln.list) # 1 /\ TooWide
    /\ LET i == Lowest(ln.elems)
           e == ln.elems[i]
       IN  ln' = [ln EXCEPT !.elems = RemoveAt(@, i), !.dropped = @ \cup {e},
                            !.col = @ - (IF Variable(e) THEN ln.cmdw ELSE Width(e)),
                            !.varw = @ - (IF Variable(e) THEN 1 ELSE 0)]

\* The width is set by the place of the column in the list it was asked for,
\* looked for among as many places as there are columns left.
CommandWidth ==
    IF \E j \in 1..Len(ln.elems) : Variable(ln.list[j])
    THEN ln.maxw - ln.col - (Len(ln.elems) - 1) ELSE ln.cmdw

\* What is over is spread; what a column cannot get in whole is carried over.
Spread_even(over, n) == [j \in 1..n |-> IF j < n THEN over \div (n - 1) ELSE 0]
Spread(over, n) == [j \in 1..n |-> IF j < n THEN (j * over) \div (n - 1) - ((j - 1) * over) \div (n - 1)
                                            ELSE 0]

ShowProcs ==
    /\ ln.act = "proc" /\ ln.pc = "fit" /\ (Len(ln.list) = 1 \/ ~TooWide)
    /\ LET n == Len(ln.elems)
       IN  ln' = [ln EXCEPT !.pc = "shown", !.shown = @ + 1,
               !.spacings = CASE Len(ln.list) = 1 -> <<0>>
                              [] Len(ln.list) # 1 /\ ln.varw > 0 -> [j \in 1..n |-> 1]
                              [] OTHER -> Spread(ln.maxw - ln.col, n),
               !.cmdw = IF Len(ln.list) # 1 /\ ln.varw > 0 THEN CommandWidth ELSE @]

Rest == /\ ln.act = "proc" /\ ln.pc = "shown"
        /\ ln' = [ln EXCEPT !.pc = "idle"]

\* From the first position of the first column to the last of the last one.
ProcWidth == LET n == Len(ln.elems)
             IN  FixedWidth(ln.elems) + (IF HasVariable(ln.elems) THEN ln.cmdw ELSE 0)
                 + Sum([j \in 1..(n - 1) |-> ln.spacings[j]])
----------------------------------------------------------------------------
(* The order of the process list when the program may choose.  "cpu" and   *)
(* "dsk" stand for the worst of the processors and of the disks (LVM, MDD  *)
(* and DSK) that are looked at; a resource without a line is not in use.   *)
Resources == {"cpu", "mem", "swp", "pag", "dsk", "net"}
Critical == [cpu |-> 90, mem |-> 90, swp |-> 80, pag |-> 90, dsk |-> 70, net |-> 90]

OrderInit == \E crit \in {Critical, [Critical EXCEPT !.dsk = 0]}, o \in {"C", "M", "D", "N"} :
    ln = [act |-> "order", crit |-> crit, order |-> o, old |-> o, busy |-> [r \in Resources |-> 0],
          support |-> {}, samples |-> 0]

Badness(r, busy, crit) == IF crit[r] = 0 THEN 0 ELSE (busy[r] * 100) \div crit[r]

\* A resource takes the order over when it is in a worse state than those
\* before it; disks and the network only when processes can be told apart.
Order(r) == CASE r = "cpu" -> "C" [] r = "dsk" -> "D" [] r = "net" -> "N" [] OTHER -> "M"
Eligible_all(r, support) == TRUE
Eligible(r, support) == /\ r = "dsk" => "iostat" \in support
                        /\ r = "net" => "netatop" \in support
Worse(acc, r, busy, crit, support) ==
    LET b == Badness(r, busy, crit)
    IN  IF acc.high < b /\ Eligible(r, support) THEN [high |-> b, order |-> Order(r)] ELSE acc

prisyst ==
    /\ ln.act = "order" /\ ln.samples < MaxSamples
    /\ \E busy \in [Resources -> Busy], support \in SUBSET {"iostat", "netatop"} :
         LET W(acc, r) == Worse(acc, r, busy, ln.crit, support)
             end == W(W(W(W(W(W([high |-> 0, order |-> ln.order], "cpu"), "mem"), "swp"), "pag"),
                        "dsk"), "net")
         IN  ln' = [ln EXCEPT !.busy = busy, !.support = support, !.old = ln.order,
                              !.samples = @ + 1,
                              !.order = IF end.high < 70 /\ end.order = "M" THEN "C" ELSE end.order]
----------------------------------------------------------------------------
Init == FigureInit \/ SysInit \/ ProcInit \/ OrderInit
Next == \/ ShowFigure
        \/ RemoveBox \/ PrintBox
        \/ Resize \/ Header \/ RemoveColumn \/ ShowProcs \/ Rest
        \/ prisyst
Spec == Init /\ [][Next]_ln
----------------------------------------------------------------------------
(* Properties.                                                              *)

\* A figure is within one unit of its last position of the value (or of the
\* average) it stands for, whatever conversion and width the place has; only
\* a negative counter is shown as a question mark.
Shows == ln.act = "figure" /\ ln.shown > 0 /\ ln.place.conv # "literal"
Denotes(t, v) == Abs(t.figure * t.unit * t.per - t.den * v) < t.unit * t.per
FiguresDenote == Shows => IF ln.text.unit = 0 THEN ln.value < 0
                          ELSE Denotes(ln.text, ln.value)

\* A larger value is never shown as a smaller figure, also when it is the
\* first one that is shown in a coarser unit or in exponent notation.  The
\* average of a size is left out: see AveragesOrdered.
Average(p) == p.conv = "mem" /\ PerSecond(p.avg /\ ln.avg, ln.nsecs)
InOrder ==
    (Shows /\ ln.shown = 2 /\ ln.oldval >= 0 /\ ln.oldval <= ln.value) =>
        ln.oldtext.figure * ln.oldtext.unit * ln.text.den
            <= ln.text.figure * ln.text.unit * ln.oldtext.den
FiguresOrdered == (ln.act = "figure" /\ ~Average(ln.place)) => InOrder

\* A text fills its box or column, and only a figure that was rounded up to
\* one more digit, an average for which val2valstr has less than three
\* positions, or a disk request of exactly 10 or 100 ms, is longer than that.
Narrow(p) == p.conv = "val" /\ WidthLeft(p.w, p.avg /\ ln.avg, ln.nsecs) < 3
RoundedUp(t, v) == t.figure * t.unit * t.per > t.den * v
AtLimit(p, v) == p.conv = "avio" /\ v \in {1000, 10000}
FiguresFill ==
    (ln.act = "figure" /\ ln.shown > 0) =>
        \/ ln.place.at + ln.text.len = ln.place.total
        \/ /\ ln.place.at + ln.text.len > ln.place.total
           /\ \/ Narrow(ln.place) \/ RoundedUp(ln.text, ln.value)
              \/ AtLimit(ln.place, ln.value)

\* Boxes and columns are given up in the order of their priority: nothing
\* that was removed is more important than something that is shown.
PrioritiesKept ==
    ln.act \in {"sys", "proc"} =>
        \A d \in ln.dropped, i \in DOMAIN ln.elems : d.prio <= ln.elems[i].prio

\* With two or more boxes a line about the system takes exactly the width of
\* the screen: the blank boxes and blanks that are put in add up to what is
\* over, although they are counted out in fractions.  No line is longer.
BoxesFill == SysDone => /\ SysWidth <= ln.maxw
                        /\ Len(ln.elems) >= 2 => SysWidth = ln.maxw

\* A line of the process list never gets wider than the screen, and takes
\* all of it when two or more columns are left; the COMMAND-LINE column is
\* known to fit when no column had to go.
ColumnsFill ==
    (ln.act = "proc" /\ ln.pc = "shown" /\ (HasVariable(ln.list) => ln.dropped = {})) =>
        /\ ProcWidth <= ln.maxw \/ Len(ln.list) = 1
        /\ Len(ln.elems) >= 2 => ProcWidth = ln.maxw

\* The list is ordered on the resource that is worst off among those that can
\* be told apart per process; memory counts only from 70% of critical.  When
\* nothing is in use the order of the sample before is kept.
OrderIsWorst ==
    (ln.act = "order" /\ ln.samples > 0) =>
        LET Bad(r) == Badness(r, ln.busy, ln.crit)
            Told(r) == (r = "dsk" => "iostat" \in ln.support) /\ (r = "net" => "netatop" \in ln.support)
            On == {r \in Resources : Told(r) /\ Bad(r) > 0}
            Worst == {r \in On : \A q \in On : Bad(q) <= Bad(r)}
        IN  IF On = {} THEN ln.order = IF ln.old = "M" THEN "C" ELSE ln.old
            ELSE \/ \E r \in Worst : ln.order = Order(r) /\ (Order(r) = "M" => Bad(r) >= 70)
                 \/ \E r \in Worst : Order(r) = "M" /\ Bad(r) < 70 /\ ln.order = "C"

\* The figures tell the truth: near the value, in the order of the values,
\* and inside their boxes.
FiguresTell == FiguresDenote /\ FiguresOrdered /\ FiguresFill

\* The screen is used for what matters most: the most important boxes and
\* columns fill it exactly, and the list is ordered on the worst resource.
LayoutFits == PrioritiesKept /\ BoxesFill /\ ColumnsFill /\ OrderIsWorst

\* val2memstr chooses the unit of a size by its value, so that a larger
\* average is never shown as a smaller figure.
AveragesOrdered == (ln.act = "figure" /\ Average(ln.place)) => InOrder

=============================================================================
