---------------------------- MODULE ShowGeneric ----------------------------
(* The interactive display of atop (showgeneric.c, the build with curses; a  *)
(* build without it, or output that is no terminal, is screen = FALSE).  Each*)
(* call of generic_samp shows one sample and then obeys keys, redrawing the  *)
(* screen after each, until a key or the timer asks for the next sample.     *)
(*                                                                           *)
(* The tasks of a sample are the table Tall; a list of tasks is a sequence   *)
(* of places in that table.  Names and containers are numbers, container 0   *)
(* is the host; a regular expression is the set of names it matches.         *)
EXTENDS Integers, Sequences, FiniteSets, FiniteSetsExt, SequencesExt

CONSTANTS
    Tall,         \* devtstat->taskall: each process followed by its threads
    Screens, Raws, Intervals, Supports,  \* how and where atop runs
    Flags,        \* flags on the command line (sequences)
    RcFlags,      \* flags in ~/.atoprc (sequences)
    Autos,        \* resources that may be the busiest of a sample
    PageSizes,    \* numbers of lines left for processes
    UserSets, NameSets, Conts, PidLines, \* what is typed at the prompts
    MaxKeys       \* bound: keys and samples

\* A switch is on or off, and flags are words.
ASSUME ListAssumption ==
    /\ Screens \subseteq BOOLEAN /\ Raws \subseteq BOOLEAN /\ Intervals \subseteq Nat
    /\ Flags \subseteq Seq(STRING) /\ RcFlags \subseteq Seq(STRING)

VARIABLE ui

NoRegex == {}         \* no regular expression (prognamesz or argnamesz is 0)
NoCont == -1
Typed == {"enter", "bad", "good"}
NoList == << 0 >>      \* tsklist is NULL
TooSmall == -1         \* page when the system lines do not fit, even limited

Procs == {i \in DOMAIN Tall : Tall[i].isproc}
InOrder(S) == SetToSortSeq(S, <)
procall == InOrder(Procs)
procactive == InOrder({i \in Procs : Tall[i].active})
ntaskall == Len(Tall)
ntaskactive == Cardinality({i \in DOMAIN Tall : Tall[i].active})

Init ==
    ui = [pc |-> "start", screen |-> TRUE, raw |-> FALSE, interval |-> 0, support |-> {}, paused |-> FALSE,
          alarm |-> FALSE, showtype |-> "g", showorder |-> "C", deviatonly |-> TRUE, threadview |-> FALSE,
          suppressexit |-> FALSE, sel |-> [user |-> {}, prog |-> NoRegex, cont |-> NoCont, arg |-> NoRegex, pid |-> <<>>],
          firstproc |-> 0, page |-> 1, auto |-> "C", curorder |-> "C", all |-> <<>>, act |-> <<>>, tlast |-> "0",
          tsk |-> NoList, ntsk |-> 0, tdev |-> FALSE, zip |-> FALSE, list |-> <<>>, groups |-> <<>>, alistsz |-> 0,
          prevsup |-> {"?"}, prevthr |-> FALSE, genline |-> <<>>, published |-> 0, keys |-> 0]

---------------------------------------------------------------------------
(* Flags. *)

\* The flags that choose a process report, and the order that goes with it.
OrderOf(t) == CASE t \in {"g", "s"} -> "C" [] t = "m" -> "M" [] t = "d" -> "D" [] t = "n" -> "N"
Needs(k) == CASE k \in {"d", "D"} -> {"iostat"} [] k \in {"n", "N"} -> {"netatop"} [] k = "o" -> {"own"} [] OTHER -> {}
Cum == {"u", "p", "j"}

\* A flag sets the report and, unlike the key, its order in any case.
WithReport(r, f) ==
    IF f \in {"v", "c", "o"} \union Cum THEN [r EXCEPT !.showtype = f]
    ELSE [r EXCEPT !.showtype = f, !.showorder = OrderOf(f)]

\* The flags of the rc file are taken without a look at what is supported.
do_flags(r, f) ==
    CASE f \in {"A", "C", "M", "D", "N"} -> [r EXCEPT !.showorder = f]
      [] f = "a" -> [r EXCEPT !.deviatonly = FALSE]
      [] f = "y" -> [r EXCEPT !.threadview = TRUE]
      [] f = "G" -> [r EXCEPT !.suppressexit = TRUE]
      [] OTHER -> WithReport(r, f)

\* The flags of the command line: a switch is toggled, and a report without
\* its statistics is refused.
generic_init(r, f) ==
    CASE f \in {"A", "C", "M", "D", "N"} -> [r EXCEPT !.showorder = f]
      [] f = "y" -> [r EXCEPT !.threadview = ~@]
      [] f = "G" -> [r EXCEPT !.suppressexit = ~@]
      [] f \in {"d", "n"} /\ ~(Needs(f) \subseteq r.support) -> r
      [] OTHER -> WithReport(r, f)

\* External: the handler of SIGALRM restarts the timer.
getalarm(r) == [r EXCEPT !.alarm = r.interval > 0]

Start ==
    /\ ui.pc = "start"
    /\ \E screen \in Screens, raw \in Raws, interval \in Intervals, support \in Supports, rc \in RcFlags, flags \in Flags :
        LET r == [ui EXCEPT !.screen = screen, !.raw = raw, !.interval = IF raw THEN 0 ELSE interval, !.support = support, !.pc = "engine"]
        IN ui' = FoldLeft(generic_init, FoldLeft(do_flags, r, rc), flags)

\* A call of generic_samp: the lists of the new sample are in the order of
\* the table, and the input buffer of the pid prompt is not initialised.
generic_samp ==
    /\ ui.pc = "engine"
    /\ ui.keys < MaxKeys
    /\ \E auto \in Autos, genline \in PidLines, page \in PageSizes \ {0}, support \in {ui.support, ui.support \ {"netatop"}} :
        ui' = [(IF ui.raw THEN ui ELSE getalarm(ui)) EXCEPT
                  !.pc = "show", !.auto = auto, !.genline = genline, !.page = page, !.support = support, !.firstproc = 0,
                  !.all = procall, !.act = procactive, !.tlast = "0", !.tsk = NoList, !.zip = FALSE, !.keys = @ + 1]

---------------------------------------------------------------------------
(* Sorting: each comparison says that the first task comes first. *)

compmem(a, b) == a.mem > b.mem
compcpu(a, b) == a.cpu > b.cpu \/ (a.cpu = b.cpu /\ compmem(a, b))
compdsk(a, b) == a.dsk > b.dsk \/ (a.dsk = b.dsk /\ compcpu(a, b))
compnet(a, b) == a.net > b.net \/ (a.net = b.net /\ compcpu(a, b))
compusr(a, b) == a.uid < b.uid
compnam(a, b) == a.name < b.name
compcon(a, b) == a.cont < b.cont

procsort(order, a, b) ==
    CASE order = "C" -> compcpu(a, b) [] order = "M" -> compmem(a, b)
      [] order = "D" -> compdsk(a, b) [] order = "N" -> compnet(a, b)

\* qsort, with equal elements left in the order they had.
qsort(s, Before(_, _)) ==
    LET First(i, j) == Before(s[i], s[j]) \/ (~Before(s[j], s[i]) /\ i < j)
        place == SetToSortSeq(DOMAIN s, First)
    IN [k \in DOMAIN s |-> s[place[k]]]
SortTasks(s, order) == qsort(s, LAMBDA i, j : procsort(order, Tall[i], Tall[j]))

---------------------------------------------------------------------------
(* Which tasks are shown. *)

procsuppress(sel, t) ==
    \/ sel.user # {} /\ t.uid \notin sel.user
    \/ sel.pid # <<>> /\ t.pid \notin Range(sel.pid)
    \/ sel.prog # NoRegex /\ t.name \notin sel.prog
    \/ sel.arg # NoRegex /\ (IF t.args = 0 THEN t.name ELSE t.args) \notin sel.arg
    \/ sel.cont # NoCont /\ t.cont # sel.cont

Hidden(r, t) == procsuppress(r.sel, t) \/ (t.exited /\ r.suppressexit)

NoSelection(r) ==
    /\ r.sel.user = {} /\ r.sel.prog = NoRegex /\ r.sel.cont = NoCont /\ r.sel.arg = NoRegex /\ r.sel.pid = <<>>
    /\ ~r.suppressexit

\* Memory figures are also of interest for processes that did nothing.
ActiveOnly(r) == r.deviatonly /\ r.showtype # "m" /\ r.showorder # "M"

Key(type, t) == CASE type = "u" -> t.uid [] type = "p" -> t.name [] type = "j" -> t.cont

\* A process is added to a group; memory only of a process that still runs.
accumulate(g, t) ==
    [g EXCEPT !.n = @ + 1, !.cpu = @ + t.cpu, !.dsk = @ + t.dsk, !.net = @ + t.net,
              !.mem = IF t.exited THEN @ ELSE @ + t.mem,
              !.pmem = IF t.exited THEN @ ELSE IF @ = -1 \/ t.pmem = -1 THEN -1 ELSE @ + t.pmem]

\* The processes in the order of the list; a group ends where the key changes.
Grouped(r, list) ==
    LET empty(k) == [key |-> k, n |-> 0, cpu |-> 0, dsk |-> 0, net |-> 0, mem |-> 0, pmem |-> 0]
        Add(gs, i) ==
            LET k == Key(r.showtype, Tall[i])
            IN IF Hidden(r, Tall[i]) THEN gs
               ELSE IF gs # <<>> /\ Last(gs).key = k THEN [gs EXCEPT ![Len(gs)] = accumulate(@, Tall[i])]
               ELSE Append(gs, accumulate(empty(k), Tall[i]))
    IN FoldLeft(Add, <<>>, list)

cumusers(r, list) == qsort(list, LAMBDA i, j : compusr(Tall[i], Tall[j]))
cumprogs(r, list) == qsort(list, LAMBDA i, j : compnam(Tall[i], Tall[j]))
cumconts(r, list) == qsort(list, LAMBDA i, j : compcon(Tall[i], Tall[j]))

\* Mutant of CumOrder.
CumOrder_asis(r, list) == list

\* The list of processes is itself sorted, in the place where it is.
CumOrder(r, list) ==
    CASE r.showtype = "u" -> cumusers(r, list) [] r.showtype = "p" -> cumprogs(r, list)
      [] r.showtype = "j" -> cumconts(r, list)

ShowGroups(r, order) ==
    LET list == CumOrder(r, IF r.deviatonly THEN r.act ELSE r.all)
        gs == Grouped(r, list)
        sorted == gs # <<>> /\ (r.screen => r.page > 0)
    IN [r EXCEPT !.act = IF r.deviatonly THEN list ELSE @, !.all = IF r.deviatonly THEN @ ELSE list,
                 !.groups = IF sorted THEN qsort(gs, LAMBDA a, b : procsort(order, a, b)) ELSE gs,
                 !.zip = @ \/ sorted, !.list = <<>>, !.alistsz = Len(gs)]

\* Mutant of Selected.
Selected_keep(r, base) == [r EXCEPT !.list = SelectSeq(base, LAMBDA i : ~Hidden(r, Tall[i]))]

\* With a selection the list is a copy, and both lists are sorted anew.
Selected(r, base) == [r EXCEPT !.list = SelectSeq(base, LAMBDA i : ~Hidden(r, Tall[i])), !.tlast = "0"]

\* Each process with the threads that follow it in the table.
Zipped(r, list) ==
    LET threads(i) == {t \in DOMAIN Tall : t > i /\ Tall[t].tgid = Tall[i].tgid /\ (ActiveOnly(r) => Tall[t].active)}
    IN FoldLeft(LAMBDA acc, i : acc \o << i >> \o InOrder(threads(i)), <<>>, list)

ntotal(r) == IF ActiveOnly(r) THEN ntaskactive ELSE ntaskall

\* The zipped list of the previous redraw serves again if nothing was sorted
\* and its size and kind are right; its size is taken to be ntotal.
WithThreads(r) ==
    LET fresh == r.tsk = NoList \/ r.ntsk # ntotal(r) \/ r.tdev # r.deviatonly
        tsk == IF fresh \/ r.zip THEN Zipped(r, r.list) ELSE r.tsk
        j == IF fresh \/ r.zip THEN Len(tsk) ELSE ntotal(r)
    IN [r EXCEPT !.tsk = tsk, !.ntsk = ntotal(r), !.tdev = r.deviatonly, !.zip = FALSE,
                 !.list = [k \in 1 .. j |-> IF k \in DOMAIN tsk THEN tsk[k] ELSE 0]]

\* A copy is always sorted (slastorder was just reset), the list itself when
\* its order changes, and then in place.
Sorted(r, order) ==
    LET list == SortTasks(r.list, order)
        whole == NoSelection(r)
    IN IF whole /\ r.tlast = order THEN r
       ELSE [r EXCEPT !.list = list, !.zip = TRUE, !.tlast = IF whole THEN order ELSE @,
                      !.act = IF whole /\ ActiveOnly(r) THEN list ELSE @,
                      !.all = IF whole /\ ~ActiveOnly(r) THEN list ELSE @]

ShowTasks(r, order) ==
    LET base == IF ActiveOnly(r) THEN r.act ELSE r.all
        chosen == IF NoSelection(r) THEN [r EXCEPT !.list = base] ELSE Selected(r, base)
        plistsz == IF r.screen THEN r.page ELSE IF r.threadview THEN ntaskactive ELSE Len(chosen.list)
        shown == IF chosen.list = <<>> \/ plistsz = 0 THEN chosen
                 ELSE IF r.threadview THEN WithThreads(Sorted(chosen, order)) ELSE Sorted(chosen, order)
    IN [shown EXCEPT !.groups = <<>>, !.alistsz = Len(shown.list)]

\* The header of the list: a change of what is supported, or of the thread
\* view, is noticed here, and the network report is left if it has gone.
priphead(r) ==
    IF r.prevsup = r.support /\ r.prevthr = r.threadview THEN r
    ELSE LET gone == r.showtype = "n" /\ "netatop" \notin r.support
         IN [r EXCEPT !.prevsup = r.support, !.prevthr = r.threadview,
                      !.showtype = IF gone THEN "g" ELSE @, !.curorder = IF gone THEN "C" ELSE @]

\* Without a screen the tasks are copied to shared memory.
priproc(r) == [r EXCEPT !.published = @ + r.alistsz]

\* One pass of the loop.  When the system lines do not fit, not even with
\* limited numbers, atop stops; without a screen it asks for the next sample.
Show ==
    /\ ui.pc = "show"
    /\ LET order == IF ui.showorder = "A" THEN ui.auto ELSE ui.showorder
           r == [ui EXCEPT !.curorder = order]
           s == IF r.showtype \in Cum THEN ShowGroups(r, order) ELSE ShowTasks(r, order)
       IN ui' = IF ui.screen /\ ui.page = TooSmall THEN [ui EXCEPT !.pc = "stop"]
                ELSE IF ~ui.screen THEN [priproc(s) EXCEPT !.pc = "engine"]
                ELSE IF s.alistsz > 0 /\ ui.page > 0 THEN [priphead(s) EXCEPT !.pc = "key"]
                ELSE [s EXCEPT !.pc = "key"]

---------------------------------------------------------------------------
(* Keys. *)

Waiting == ui.pc = "key"
Pressed == Waiting /\ ui.keys < MaxKeys
Redraw(r) == ui' = [r EXCEPT !.pc = "show", !.keys = @ + 1]
Return(r) == ui' = [r EXCEPT !.pc = "engine"]
Top(r) == [r EXCEPT !.firstproc = 0]

TimerExpires == Waiting /\ ui.alarm /\ Return(getalarm(ui))
MQUIT == Waiting /\ ui' = [ui EXCEPT !.pc = "stop"]

\* Mutant of SampleAllowed.
SampleAllowed_always(r) == TRUE

SampleAllowed(r) == ~r.paused

MSAMPNEXT == Pressed /\ IF SampleAllowed(ui) THEN Return(getalarm(ui)) ELSE Redraw(ui)
MSAMPPREV == Pressed /\ IF ui.raw /\ SampleAllowed(ui) THEN Return(ui) ELSE Redraw(ui)
\* The time that is asked for may have a wrong format.
MSAMPBRANCH ==
    /\ Pressed
    /\ \E good \in BOOLEAN : IF ui.raw /\ SampleAllowed(ui) /\ good THEN Return(ui) ELSE Redraw(ui)

MSORT ==
    /\ Pressed
    /\ \E o \in {"A", "C", "M", "D", "N"} :
        IF Needs(o) \subseteq ui.support THEN Redraw([Top(ui) EXCEPT !.showorder = o]) ELSE Redraw(ui)

\* The key of a report changes the order too, unless it is automatic.
MPROC ==
    /\ Pressed
    /\ \E t \in {"g", "m", "d", "n", "v", "c", "o", "s"} :
        IF ~(Needs(t) \subseteq ui.support) THEN Redraw(ui)
        ELSE Redraw([Top(ui) EXCEPT !.showtype = t,
                       !.showorder = IF @ = "A" \/ t \in {"v", "c", "o"} THEN @ ELSE OrderOf(t)])

MCUM == Pressed /\ \E t \in Cum : Redraw([Top(ui) EXCEPT !.showtype = t])

\* Mutant of Prompted.
Prompted_paused(r) == [Top(r) EXCEPT !.alarm = r.interval > 0 /\ ~r.raw]

\* A prompt stops the clock and starts it again with a short timer.
Prompted(r) == [Top(r) EXCEPT !.alarm = r.interval > 0 /\ ~r.paused /\ ~r.raw]

MHELP == Pressed /\ Redraw(Prompted(ui))

\* A signal is sent; the timer is started whatever the interval is.
MKILLPROC == Pressed /\ Redraw(IF ui.raw THEN ui ELSE [Top(ui) EXCEPT !.alarm = ~ui.paused])

MINTERVAL ==
    /\ Pressed
    /\ \E n \in Intervals \union {ui.interval} :
        Redraw(IF ui.raw THEN ui ELSE Prompted([ui EXCEPT !.interval = n]))

\* A wrong expression leaves the selected users; one that matches no user,
\* like no input, selects all of them.
MSELUSER ==
    /\ Pressed
    /\ \E in \in Typed, users \in UserSets :
        Redraw(Prompted([ui EXCEPT !.sel.user = CASE in = "bad" -> @ [] in = "enter" -> {} [] in = "good" -> users]))

\* A wrong expression, like no input, removes the selection.
MSELPROC ==
    /\ Pressed
    /\ \E in \in Typed, names \in NameSets :
        Redraw(Prompted([ui EXCEPT !.sel.prog = IF in = "good" THEN names ELSE NoRegex]))
MSELARG ==
    /\ Pressed
    /\ \E in \in Typed, names \in NameSets :
        Redraw(Prompted([ui EXCEPT !.sel.arg = IF in = "good" THEN names ELSE NoRegex]))
MSELCONT ==
    /\ Pressed
    /\ \E in \in Typed, c \in Conts :
        Redraw(Prompted([ui EXCEPT !.sel.cont = IF in = "good" THEN c ELSE NoCont]))

\* Without input the buffer keeps what it had; the first call of strtok has
\* cut it after the first pid.
MSELPID ==
    /\ Pressed
    /\ \E in \in Typed, pids \in PidLines :
        LET line == IF in = "enter" THEN ui.genline ELSE pids
        IN Redraw(Prompted([ui EXCEPT !.sel.pid = IF in = "bad" THEN <<>> ELSE line,
                                      !.genline = IF line = <<>> THEN <<>> ELSE << Head(line) >>]))

\* Expressions for volumes, disks and interfaces, and the numbers of lines,
\* change the number of lines that is left for the list.
Resized(r) == \E page \in PageSizes \union {TooSmall} : Redraw([r EXCEPT !.page = page])
MSELSYS == Pressed /\ Resized(Prompted(ui))
MSYSLIMIT == Pressed /\ Resized(Prompted(ui))
MSYSFIXED == Pressed /\ Resized(Top(ui))
KEY_RESIZE == Pressed /\ Resized(ui)

MPAUSE ==
    /\ Pressed
    /\ Redraw(IF ui.paused THEN [ui EXCEPT !.paused = FALSE, !.alarm = IF ui.raw THEN @ ELSE TRUE]
              ELSE [ui EXCEPT !.paused = TRUE, !.alarm = FALSE])

MALLPROC == Pressed /\ Redraw([Top(ui) EXCEPT !.deviatonly = ~@, !.tlast = "0"])
MTHREAD == Pressed /\ Redraw([Top(ui) EXCEPT !.threadview = ~@])
MSUPEXITS == Pressed /\ Redraw([Top(ui) EXCEPT !.suppressexit = ~@])
MRESET == Pressed /\ Return([getalarm(ui) EXCEPT !.paused = FALSE])

\* Switches of the layout: some go back to the top of the list (colors, no
\* sorting of resources), the others (averages, PSS, version, redraw, arrows
\* for the command line, unknown keys) just redraw.
Layout == Pressed /\ (Redraw(Top(ui)) \/ Redraw(ui))

KEY_DOWN == Pressed /\ Redraw([ui EXCEPT !.firstproc = IF @ < ui.alistsz - 1 THEN @ + 1 ELSE @])
KEY_UP == Pressed /\ Redraw([ui EXCEPT !.firstproc = IF @ > 0 THEN @ - 1 ELSE @])

\* Mutant of NextPage.
NextPage_last(r) == IF r.alistsz - r.firstproc >= r.page THEN r.firstproc + r.page ELSE r.firstproc

NextPage(r) == IF r.alistsz - r.firstproc > r.page THEN r.firstproc + r.page ELSE r.firstproc
KEY_NPAGE == Pressed /\ Redraw([ui EXCEPT !.firstproc = NextPage(ui)])
KEY_PPAGE == Pressed /\ Redraw([ui EXCEPT !.firstproc = IF @ >= ui.page THEN @ - ui.page ELSE 0])

Next ==
    \/ Start \/ generic_samp \/ Show \/ TimerExpires \/ MQUIT \/ MSAMPNEXT \/ MSAMPPREV \/ MSAMPBRANCH
    \/ MSORT \/ MPROC \/ MCUM \/ MHELP \/ MKILLPROC \/ MINTERVAL \/ MSELUSER \/ MSELPROC \/ MSELARG \/ MSELCONT
    \/ MSELPID \/ MSELSYS \/ MSYSLIMIT \/ MSYSFIXED \/ KEY_RESIZE \/ MPAUSE \/ MALLPROC \/ MTHREAD \/ MSUPEXITS
    \/ MRESET \/ Layout \/ KEY_DOWN \/ KEY_UP \/ KEY_NPAGE \/ KEY_PPAGE

Spec == Init /\ [][Next]_ui

---------------------------------------------------------------------------
(* Properties. *)

\* While atop waits for a key in live mode with an interval, the timer runs
\* exactly when the display is not paused: no prompt forgets to restart it,
\* and none restarts it under a pause (alarm() in every key of generic_samp).
ClockRuns ==
    Waiting /\ ~ui.raw /\ ui.interval > 0 => ui.alarm = ~ui.paused

\* The list of tasks on the screen has each task that the switches and
\* selections ask for, once, and no other; in the thread view the threads of
\* a process stand behind it (tsklist is only used again while it is valid).
ShownOnce ==
    LET wanted == {i \in Procs : (ActiveOnly(ui) => Tall[i].active) /\ ~Hidden(ui, Tall[i])}
        threads == {i \in DOMAIN Tall \ Procs : /\ ActiveOnly(ui) => Tall[i].active
                                                /\ \E p \in wanted : Tall[p].tgid = Tall[i].tgid}
    IN Waiting /\ ui.page > 0 /\ ui.showtype \notin Cum =>
        /\ Range(ui.list) = wanted \union (IF ui.threadview THEN threads ELSE {})
        /\ Len(ui.list) = Cardinality(Range(ui.list))
        /\ \A k \in DOMAIN ui.list : ui.list[k] \notin Procs =>
               k > 1 /\ Tall[ui.list[k - 1]].tgid = Tall[ui.list[k]].tgid

\* An accumulated view has one group per user, program or container, and the
\* group has the sums of exactly the processes that are not hidden (cumusers,
\* cumprogs, cumconts rely on the sort, accumulate on zeroed groups).
GroupsAreSums ==
    LET of(k) == {i \in Procs : (ui.deviatonly => Tall[i].active) /\ ~Hidden(ui, Tall[i]) /\ Key(ui.showtype, Tall[i]) = k}
    IN Waiting /\ ui.showtype \in Cum =>
        /\ \A i \in Procs : of(Key(ui.showtype, Tall[i])) # {} =>
               Cardinality({k \in DOMAIN ui.groups : ui.groups[k].key = Key(ui.showtype, Tall[i])}) = 1
        /\ \A k \in DOMAIN ui.groups :
               LET g == ui.groups[k] IN
               /\ g.n = Cardinality(of(g.key)) /\ g.n > 0
               /\ g.cpu = MapThenSumSet(LAMBDA i : Tall[i].cpu, of(g.key))
               /\ g.mem = MapThenSumSet(LAMBDA i : Tall[i].mem, {i \in of(g.key) : ~Tall[i].exited})

\* The first line shown is a line of the list, also after the list became
\* shorter or the window changed: every key that changes the list goes back
\* to its top, and paging stops at the end.
FirstInList ==
    Waiting /\ ui.page > 0 => ui.firstproc = 0 \/ ui.firstproc < ui.alistsz

\* What is on the screen follows from the sample, the switches and the
\* selections: the timer that is set, the tasks once, the groups with their
\* sums, from a line that is in the list.
ScreenFollowsKeys == ClockRuns /\ ShownOnce /\ GroupsAreSums /\ FirstInList

\* A paused display stays at its sample: no key and no timer leads to another
\* sample unless it ends the pause (only 'r' does).
PausedHolds ==
    [][Waiting /\ ui.paused /\ ui'.pc = "engine" => ~ui'.paused]_ui

=============================================================================
