------------------------------- MODULE AtopSar -------------------------------
(* atopsar (atopsar.c): the flags select reports from the table pridef; the  *)
(* reports are printed one after the other from the raw log (reportraw), or  *)
(* together, sample by sample, from live measurements (engine, reportlive).  *)
(*                                                                           *)
(* The state is one record.  A sample of the log has the time that is its    *)
(* number, the boot flag and the units (disks, volumes, mounts, interfaces)  *)
(* that were active; a printed line is the report, the samples it stands for *)
(* and the number of rows.                                                   *)
EXTENDS Integers, Sequences, FiniteSets, FiniteSetsExt, SequencesExt

CONSTANTS
    Rcs, Args,   \* flags in ~/.atoprc and on the command line (sequences)
    MaxLog,      \* bound: samples in the log, and live samples
    Units,       \* number of units of each kind
    NrCpu,       \* number of processors
    Midnights,   \* the last sample of the first day
    Idles,       \* sets of samples without active units
    Supports,    \* sets of supported statistics
    Summaries,   \* arguments of -R
    Begins, Ends,\* arguments of -b and -e, 0 if absent
    RepeatHead   \* rows of the terminal, for -H

\* Counts are unsigned.
SarAssumption ==
    /\ MaxLog \in Nat /\ Units \in Nat /\ NrCpu \in Nat /\ RepeatHead \in Nat
    /\ Summaries \subseteq Int

VARIABLE sar

\* The table of print functions: flag and function, in the order of the source.
Entry(flag, line) == [flag |-> flag, line |-> line]
pridef == << Entry("c", "cpu"), Entry("p", "proc"), Entry("P", "task"), Entry("m", "mem"), Entry("s", "swap"),
             Entry("l", "dsk"), Entry("f", "dsk"), Entry("d", "dsk"), Entry("n", "nfm"), Entry("j", "nfc"),
             Entry("J", "nfs"), Entry("i", "if"), Entry("I", "IF"), Entry("w", "v4"), Entry("W", "v4"),
             Entry("y", "v4"), Entry("Y", "v4"), Entry("u", "v4"), Entry("z", "v6"), Entry("Z", "v6"),
             Entry("k", "v6"), Entry("K", "v6"), Entry("U", "v6"), Entry("t", "tcp"), Entry("T", "tcp"),
             Entry("O", "topc"), Entry("G", "topm"), Entry("D", "topd"), Entry("N", "topn") >>
pricnt == Len(pridef)

Never == 9999999   \* headers are not repeated

Init ==
    sar = [pc |-> "call", code |-> 0, rc |-> <<>>, args |-> <<>>, wanted |-> {}, numreports |-> 0, summarycnt |-> 1,
           repeathead |-> Never, allresources |-> FALSE, begintime |-> 0, saved |-> 0, endtime |-> 0, nsamples |-> 0,
           log |-> <<>>, midnight |-> 0, support |-> {}, prinow |-> 0, daylim |-> 0, pos |-> 0, lastcmd |-> TRUE,
           sampcnt |-> 0, sampsum |-> 0, totals |-> <<>>, curline |-> 0, headline |-> 0, top |-> 0, first |-> {},
           shown |-> <<>>, out |-> <<>>, pretime |-> 0, curtime |-> 0]

---------------------------------------------------------------------------
(* The flags. *)

\* The program is called, on a system that supports some statistics.
Call ==
    /\ sar.pc = "call"
    /\ \E rc \in Rcs, args \in Args, sup \in Supports :
        sar' = [sar EXCEPT !.pc = "rc", !.rc = rc, !.args = args, !.support = sup]

\* Mutant of Matching.
Matching_again(r, f) == {i \in 1 .. pricnt : pridef[i].flag = f}

Matching(r, f) == {i \in 1 .. pricnt : pridef[i].flag = f /\ i \notin r.wanted}

\* What a flag that both files of flags know changes.
WithFlag(r, f) ==
    CASE f = "H" -> [r EXCEPT !.repeathead = RepeatHead]
      [] f = "a" -> [r EXCEPT !.allresources = TRUE]
      [] f = "A" -> [r EXCEPT !.wanted = 1 .. pricnt, !.numreports = pricnt]
      [] OTHER -> IF Matching(r, f) = {} THEN r
                  ELSE [r EXCEPT !.wanted = @ \union {Min(Matching(r, f))}, !.numreports = @ + 1]

do_atopsarflags ==
    /\ sar.pc = "rc"
    /\ sar' = IF sar.rc = <<>> THEN [sar EXCEPT !.pc = "args"]
              ELSE [WithFlag(sar, Head(sar.rc)) EXCEPT !.rc = Tail(@)]

cleanstop(r, code) == [r EXCEPT !.pc = "done", !.code = code]
pratopsaruse(r) == cleanstop(r, 1)

\* A report selected twice, or a summary of no samples, is a usage error.
getopt ==
    /\ sar.pc = "args" /\ sar.args # <<>>
    /\ LET f == Head(sar.args)
           r == [sar EXCEPT !.args = Tail(@)]
       IN CASE f = "R" -> \E n \in Summaries :
                            sar' = IF n < 1 THEN pratopsaruse(r) ELSE [r EXCEPT !.summarycnt = n]
            [] f = "b" -> \E t \in Begins : sar' = [r EXCEPT !.begintime = t, !.saved = t]
            [] f = "e" -> \E t \in Ends : sar' = [r EXCEPT !.endtime = t]
            [] f \notin {"R", "b", "e", "H", "a", "A"} /\ Matching(sar, f) = {} -> sar' = pratopsaruse(r)
            [] OTHER -> sar' = WithFlag(r, f)

\* Without report flags the first report of the table is wanted.
Defaulted(r) == IF r.numreports = 0 THEN [r EXCEPT !.wanted = {1}, !.numreports = 1] ELSE r

Samples(n, boots, idle) ==
    [i \in 1 .. n |-> [time |-> i, boot |-> i \in boots, active |-> IF i \in idle THEN 0 ELSE 1]]

\* An interval, with an optional number of samples, asks for live
\* measurements; otherwise a log is read.  An interval with -r is an error.
Mode ==
    /\ sar.pc = "args" /\ sar.args = <<>>
    /\ \E n \in 1 .. MaxLog, boots \in SUBSET (1 .. MaxLog), idle \in Idles, mid \in Midnights :
        \/ sar' = [Defaulted(sar) EXCEPT !.pc = "raw", !.log = Samples(n, boots, idle), !.midnight = mid]
        \/ sar' = [Defaulted(sar) EXCEPT !.pc = "live", !.log = Samples(n, {}, idle), !.nsamples = n, !.midnight = mid]
        \/ sar' = pratopsaruse(sar)

---------------------------------------------------------------------------
(* The print functions: the rows printed, 0 for a report that is not there.  *)
(* tasks: task statistics are passed.  procs: the number of processes is.    *)

cpuline == IF NrCpu > 1 THEN NrCpu + 1 ELSE 1
\* The functions that always print one row.
procline == 1
memline == 1
swapline == 1
nfcline == 1
nfsline == 1
v4line == 1
v6line == 1
tcpline == 1
taskline(procs) == IF procs THEN 1 ELSE 0

\* A line for each unit, at the first call, and for each active unit later.
Shown(r, f, active) == IF f \notin r.first \/ r.allresources THEN Units ELSE active
AtLeastOne(n) == IF n = 0 THEN 1 ELSE n
gendskline(r, active) == AtLeastOne(Shown(r, "dsk", active))
nfmline(r, active) == AtLeastOne(Shown(r, "nfm", active))
ifline(r, active) == AtLeastOne(Shown(r, "if", active))
IFline(r, active) == AtLeastOne(Shown(r, "IF", active))

topcline(tasks) == IF tasks THEN 1 ELSE 0
topmline(tasks) == IF tasks THEN 1 ELSE 0
topdline(r, tasks) == IF tasks /\ "iostat" \in r.support THEN 1 ELSE 0
topnline(r, tasks) == IF tasks /\ "netatop" \in r.support THEN 1 ELSE 0

priline(r, i, active, tasks, procs) ==
    LET f == pridef[i].line
    IN CASE f = "cpu" -> cpuline
         [] f = "proc" -> procline
         [] f = "mem" -> memline
         [] f = "swap" -> swapline
         [] f = "nfc" -> nfcline
         [] f = "nfs" -> nfsline
         [] f = "v4" -> v4line
         [] f = "v6" -> v6line
         [] f = "tcp" -> tcpline
         [] f = "task" -> taskline(procs)
         [] f = "dsk" -> gendskline(r, active)
         [] f = "nfm" -> nfmline(r, active)
         [] f = "if" -> ifline(r, active)
         [] f = "IF" -> IFline(r, active)
         [] f = "topc" -> topcline(tasks)
         [] f = "topm" -> topmline(tasks)
         [] f = "topd" -> topdline(r, tasks)
         [] f = "topn" -> topnline(r, tasks)

\* The line of report i for the samples, its effect on the row count included.
Printed(r, i, samples, from, to, tasks, procs) ==
    LET active == Max({0} \union {samples[k].active : k \in DOMAIN samples})
        rv == priline(r, i, active, tasks, procs)
    IN [r EXCEPT !.out = Append(@, [report |-> i, samples |-> samples, rows |-> rv, from |-> from, to |-> to]),
                 !.curline = @ + AtLeastOne(rv), !.first = @ \union {pridef[i].line}]
Failed(r) == r.out[Len(r.out)].rows = 0

\* The report is not called again; atopsar stops when no report is left.
NotAgain(r, i) ==
    LET s == [r EXCEPT !.wanted = @ \ {i}, !.numreports = @ - 1]
    IN IF s.numreports = 0 THEN cleanstop(s, 1) ELSE s

DateLine(r, time) ==
    IF time <= r.daylim THEN r
    ELSE [r EXCEPT !.daylim = IF time <= r.midnight THEN r.midnight ELSE MaxLog + 1, !.curline = @ + 1]

HeaderLine(r) == [r EXCEPT !.headline = r.curline + r.repeathead, !.top = r.curline, !.curline = @ + 2]
\* Mutant of Header.
Header_reset(r) == IF r.curline > r.headline + 2 * r.repeathead THEN HeaderLine(r) ELSE r

Header(r) == IF r.curline >= r.headline THEN HeaderLine(r) ELSE r

---------------------------------------------------------------------------
(* The log. *)

\* The next report that is still wanted, from the first sample of the log.
NextReport ==
    /\ sar.pc = "raw"
    /\ LET later == {i \in sar.wanted : i > sar.prinow}
       IN sar' = IF later = {} THEN cleanstop(sar, 0)
                 ELSE [sar EXCEPT !.pc = "read", !.prinow = Min(later), !.daylim = 0, !.begintime = sar.saved,
                         !.pos = 0, !.lastcmd = TRUE, !.sampcnt = 0, !.shown = <<>>, !.out = <<>>, !.totals = <<>>]

\* The first sample of a report only starts it.
FirstSample(r) == [r EXCEPT !.curline = 1, !.headline = 0, !.top = 1, !.sampsum = r.summarycnt + 1, !.totals = <<>>]

\* Mutant of Restarted.
Restarted_late(r) == [r EXCEPT !.sampsum = r.summarycnt + r.sampcnt + 1, !.totals = <<>>]

\* The totals start again after a line or a restart of the log.
Restarted(r) == [r EXCEPT !.sampsum = r.summarycnt + r.sampcnt, !.totals = <<>>]

\* The line for the samples added up so far, when the log was restarted.
RestartLine(r) ==
    LET s == IF r.summarycnt > 1 /\ r.sampcnt <= r.sampsum /\ r.totals # <<>>
             THEN Printed(r, r.prinow, r.totals, 0, 0, FALSE, TRUE) ELSE r
        t == IF s # r /\ Failed(s) THEN NotAgain(s, r.prinow) ELSE s
    IN IF t.pc = "done" THEN t ELSE [Restarted(t) EXCEPT !.curline = @ + 1]

OneSample(r, s) == Printed(r, r.prinow, <<s>>, 0, 0, TRUE, TRUE)
AddSample(r, s) == [r EXCEPT !.totals = Append(@, s)]
\* Mutant of LineDue.
LineDue_late(r, last) == r.sampcnt > r.sampsum

LineDue(r, last) == r.sampcnt >= r.sampsum \/ last

\* A line that failed is counted twice: where it is printed, and at the end.
AfterLine(r, summed) ==
    LET s == IF Failed(r) THEN NotAgain(r, r.prinow) ELSE r
        t == IF s.pc # "done" /\ summed THEN Restarted(s) ELSE s
    IN IF Failed(r) /\ t.pc # "done" THEN NotAgain(t, r.prinow) ELSE t

reportraw(r0, s, last) ==
    LET r == DateLine(r0, s.time)
        h == Header(r)
        a == AddSample(h, s)
    IN CASE r0.prinow \notin r0.wanted -> r0
         [] r0.prinow \in r0.wanted /\ r0.sampcnt = 1 -> FirstSample(r)
         [] r0.prinow \in r0.wanted /\ r0.sampcnt # 1 ->
              IF s.boot THEN RestartLine(h)
              ELSE IF h.summarycnt = 1 THEN AfterLine(OneSample(h, s), FALSE)
              ELSE IF LineDue(h, last) THEN AfterLine(Printed(a, a.prinow, a.totals, 0, 0, FALSE, TRUE), TRUE)
              ELSE a

\* rawread (rawlog.c), with reportraw as its show function.
Read ==
    /\ sar.pc = "read" /\ sar.pos < Len(sar.log)
    /\ LET s == sar.log[sar.pos + 1]
           r == [sar EXCEPT !.pos = @ + 1]
       IN IF sar.begintime > s.time THEN sar' = r
          ELSE IF sar.endtime # 0 /\ sar.endtime < s.time THEN sar' = [sar EXCEPT !.pc = "raw"]
          ELSE sar' = reportraw([r EXCEPT !.begintime = 0, !.lastcmd = FALSE, !.sampcnt = @ + 1,
                                          !.shown = Append(@, s)], s, r.pos = Len(r.log))

\* Mutant of EndOfFile.
EndOfFile_keep ==
    /\ sar.pc = "read" /\ sar.pos = Len(sar.log)
    /\ sar' = IF sar.lastcmd THEN [sar EXCEPT !.pos = @ - 1] ELSE [sar EXCEPT !.pc = "raw"]

\* At the end of the file rawread returns, unless no sample was in the range
\* of -b: then it shows the last one.
EndOfFile ==
    /\ sar.pc = "read" /\ sar.pos = Len(sar.log)
    /\ sar' = IF sar.lastcmd THEN [sar EXCEPT !.begintime = 0, !.pos = @ - 1] ELSE [sar EXCEPT !.pc = "raw"]

---------------------------------------------------------------------------
(* Live measurements. *)

\* The line of the only report; the header follows when the screen is full.
Alone(r0, s) ==
    LET i == Min(r0.wanted)
        r == DateLine(r0, r0.curtime)
        p == Printed(r, i, <<s>>, r.pretime, r.curtime, FALSE, FALSE)
    IN IF r.sampcnt = 0 THEN [r EXCEPT !.top = r.curline, !.curline = @ + 2, !.headline = r.repeathead]
       ELSE IF Failed(p) THEN cleanstop(p, 1)
       ELSE Header(p)

LiveSample(r) == r.log[IF r.sampcnt = 0 THEN 1 ELSE r.sampcnt]
Sampled(r) == IF r.pc = "done" THEN r ELSE [r EXCEPT !.pc = "live", !.sampcnt = @ + 1]

\* Mutant of Clock.
Clock_once(r, d) == [r EXCEPT !.curtime = @ + d]

Clock(r, d) == [r EXCEPT !.pretime = r.curtime, !.curtime = @ + d]

\* A sample is taken after each pause; a signal that comes before the pause
\* is lost, so that the next one comes later.
engine ==
    /\ sar.pc = "live" /\ sar.sampcnt < sar.nsamples + 1
    /\ \E d \in {0, 2} :
        LET r == Clock(sar, d)
        IN sar' = IF r.numreports > 1
                  THEN IF r.sampcnt = 0 THEN Sampled(r) ELSE [r EXCEPT !.pc = "together", !.prinow = 0]
                  ELSE Sampled(Alone(r, LiveSample(r)))

\* The line of the next of several reports, under its header; the rows are
\* not counted.
Together ==
    /\ sar.pc = "together"
    /\ LET later == {i \in sar.wanted : i > sar.prinow}
           i == Min(later)
           p == [Printed(sar, i, <<LiveSample(sar)>>, sar.pretime, sar.curtime, FALSE, FALSE)
                    EXCEPT !.curline = sar.curline, !.prinow = i]
       IN sar' = IF later = {} THEN Sampled(sar) ELSE IF Failed(p) THEN NotAgain(p, i) ELSE p

EngineEnds ==
    /\ sar.pc = "live" /\ sar.sampcnt = sar.nsamples + 1
    /\ sar' = cleanstop(sar, 0)

Next == Call \/ do_atopsarflags \/ getopt \/ Mode \/ NextReport \/ Read \/ EndOfFile \/ engine \/ Together \/ EngineEnds

Spec == Init /\ [][Next]_sar /\ WF_sar(Next)

---------------------------------------------------------------------------
(* Properties. *)

\* The samples of each line, and behind them those added up for the next one.
Blocks == Append([k \in DOMAIN sar.out |-> sar.out[k].samples], sar.totals)
Places == UNION {{k} \X DOMAIN Blocks[k] : k \in DOMAIN Blocks}
At(p) == Blocks[p[1]][p[2]]

\* Every sample that rawread hands to a report, but the first one and the
\* restarts of the log, is in exactly one line of it, in the order of the
\* log, whatever -R, -b and the restarts; only -e may leave samples that were
\* added up and never printed.
EachSampleOnce ==
    sar.pc \in {"raw", "read"} /\ sar.prinow \in sar.wanted /\ sar.shown # <<>> =>
        /\ \A k \in DOMAIN sar.out : sar.out[k].report = sar.prinow
        /\ {At(p) : p \in Places} = {sar.shown[m] : m \in {l \in 2 .. Len(sar.shown) : ~sar.shown[l].boot}}
        /\ \A p, q \in Places :
              p[1] < q[1] \/ (p[1] = q[1] /\ p[2] < q[2]) => At(p).time < At(q).time
        /\ sar.pc = "raw" /\ sar.totals # <<>> => sar.endtime # 0

\* A line of -R never adds up samples from both sides of a restart of the
\* log, nor more samples than asked for.
RestartSeparates ==
    \A k \in DOMAIN sar.out :
        LET ss == sar.out[k].samples
        IN /\ Len(ss) <= sar.summarycnt
           /\ Len(ss) > 0 => \A t \in ss[1].time + 1 .. ss[Len(ss)].time : ~sar.log[t].boot

\* With -H a header is never further up than the screen is high, but for the
\* rows of one sample and the restart line; the header itself has two lines.
HeadersOnScreen ==
    sar.pc \in {"read", "live"} /\ sar.repeathead # Never =>
        sar.curline - sar.top <= Max({2, sar.repeathead - 1}) + Max({Units, cpuline}) + 1

\* The places of the lines of a report.
LinesOf(i) == {k \in DOMAIN sar.out : sar.out[k].report = i}

\* Live lines leave no gap: each line of a report starts where its previous
\* line ended, and each sample but the first one gives a line, even when
\* other reports fail and signals are lost.
LiveTiles ==
    sar.nsamples > 0 /\ sar.pc = "live" =>
        \A i \in sar.wanted :
            /\ Cardinality(LinesOf(i)) = Max({0, sar.sampcnt - 1})
            /\ \A k, m \in LinesOf(i) :
                  k < m /\ (\A l \in LinesOf(i) : l <= k \/ m <= l) => sar.out[m].from = sar.out[k].to

\* The number of reports that decides when atopsar gives up is the number of
\* reports wanted, while flags are read and in live measurements.
ReportsCounted == sar.pc \in {"rc", "args", "live"} => sar.numreports = Cardinality(sar.wanted)

\* A report covers the samples it was made from: in a log each of them once,
\* restarts apart, live without gaps, with its headers in sight and as long
\* as reports are left.
ReportsCover ==
    EachSampleOnce /\ RestartSeparates /\ HeadersOnScreen /\ LiveTiles /\ ReportsCounted

\* atopsar on a log comes to its end, also when -b is past the last sample.
Terminates == sar.pc = "raw" ~> sar.pc = "done"

=============================================================================
