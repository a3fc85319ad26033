-------------------------- MODULE ShadowAccounting --------------------------
(* The daemon atopacctd (atopacctd.c) and the atops that read its shadow     *)
(* files (acctproc.c).  The kernel appends a record to the source file for   *)
(* each process that ends; the daemon copies the records to shadow files of  *)
(* exactly MaxShadowRec records, names the newest one in the file "current", *)
(* and removes the ones that no atop has locked.  An atop counts itself in a *)
(* semaphore, opens the newest shadow file, and in each sample counts the    *)
(* new records and reads them, from file to file.                            *)
(*                                                                           *)
(* Sizes are in records.  Descriptors are modelled because awaitprocterm     *)
(* gets sfd by value: the file it opens is only known to it by a number.     *)
EXTENDS Integers, Sequences, FiniteSets, FiniteSetsExt

CONSTANTS
    Clients,       \* the atops
    MaxShadowRec,  \* records of a shadow file
    MaxBatch,      \* records that fit in abuf
    MaxOrig,       \* MAXORIGSZ
    MaxExits,      \* MAXACCTPROCS, the records read in one sample
    MaxRec,        \* bound: processes that end
    MaxSeq,        \* bound: highest sequence number of a shadow file
    MaxIno         \* bound: shadow files ever created

\* abuf holds no more than a shadow file: one write fills at most one file.
BatchFits ==
    /\ MaxShadowRec \in Nat /\ MaxBatch \in 1 .. MaxShadowRec
    /\ MaxOrig \in Nat /\ MaxExits \in Nat \ {0}
    /\ MaxRec \in Nat /\ MaxSeq \in Nat /\ MaxIno \in Nat

VARIABLES
    born,     \* records made by the kernel so far, numbered in this order
    on,       \* the kernel writes to the source file
    source,   \* the source file
    dir,      \* the directory pacct_shadow.d exists
    entry,    \* its shadow files: inode of a sequence number, 0 if none
    content,  \* records of each inode
    current,  \* the file "current"
    d,        \* the daemon
    c,        \* the atops
    log       \* history: records passed to shadow files since the last reset

vars == <<born, on, source, dir, entry, content, current, d, c, log>>
kernel == <<born, on, source>>
files == <<dir, entry, content>>

NoFile == -2
Wiped == -1
NoEntry == [s \in 0 .. MaxSeq |-> 0]

Connected == {"on", "sample"}
Claimed == {a \in Clients : c[a].pc \notin {"off", "none"}}
Locked == {c[a].ino : a \in {b \in Clients : c[b].pc \in Connected}}

Daemon0 == [pc |-> "never", afd |-> 0, sfd |-> 0, open |-> [f \in 1 .. 2 |-> 0], cur |-> 0, old |-> 0,
            busy |-> FALSE, stot |-> 0, atot |-> 0, buf |-> <<>>]
Client0 == [pc |-> "off", seq |-> 0, ino |-> 0, off |-> 0, acctsize |-> 0, size |-> 0, n |-> 0,
            got |-> 0, stray |-> FALSE]

Init ==
    /\ born = 0 /\ on = FALSE /\ source = <<>>
    /\ dir = FALSE /\ entry = NoEntry /\ content = <<>> /\ current = NoFile
    /\ d = Daemon0 /\ c = [a \in Clients |-> Client0] /\ log = <<>>

---------------------------------------------------------------------------
(* The kernel. *)

Exit ==
    /\ born < MaxRec
    /\ born' = born + 1
    /\ source' = IF on THEN Append(source, born + 1) ELSE source
    /\ UNCHANGED <<on, files, current, d, c, log>>

---------------------------------------------------------------------------
(* The daemon. *)

Running == d.pc \notin {"never", "off", "stopped"}

Reopened_append(s) ==
    LET closed == [d.open EXCEPT ![d.sfd] = 0]
        ino    == IF entry[s] = 0 THEN Len(content) + 1 ELSE entry[s]
    IN  [fd |-> 1, ino |-> ino, open |-> [closed EXCEPT ![1] = ino],
         content |-> IF entry[s] = 0 THEN Append(content, <<>>) ELSE content]

Reopened_created(s) ==
    LET fd  == CHOOSE f \in 1 .. 2 : d.open[f] = 0
        ino == IF entry[s] = 0 THEN Len(content) + 1 ELSE entry[s]
    IN  [fd |-> fd, ino |-> ino, open |-> [d.open EXCEPT ![d.sfd] = 0, ![fd] = ino],
         content |-> IF entry[s] = 0 THEN Append(content, <<>>) ELSE [content EXCEPT ![ino] = <<>>]]

\* close(sfd) and creat: the lowest free descriptor, an existing file is wiped.
Reopened(s) ==
    LET closed == [d.open EXCEPT ![d.sfd] = 0]
        fd     == CHOOSE f \in 1 .. 2 : closed[f] = 0 /\ \A g \in 1 .. 2 : closed[g] = 0 => f <= g
        ino    == IF entry[s] = 0 THEN Len(content) + 1 ELSE entry[s]
    IN  [fd |-> fd, ino |-> ino, open |-> [closed EXCEPT ![fd] = ino],
         content |-> IF entry[s] = 0 THEN Append(content, <<>>) ELSE [content EXCEPT ![ino] = <<>>]]

\* createshadow, called by awaitprocterm: its own sfd is lost when it returns.
createshadow(s) ==
    LET r == Reopened(s) IN
    /\ entry' = [entry EXCEPT ![s] = r.ino]
    /\ content' = r.content
    /\ d' = [d EXCEPT !.cur = s, !.stot = 0, !.open = r.open, !.pc = "wipe"]

Removable_all(upto) == {s \in d.old .. upto - 1 : s \in DOMAIN entry /\ entry[s] \notin {0} \union Locked}

\* The files that gcshadows removes: up to the first that is missing or locked.
Removable(upto) ==
    {s \in d.old .. upto - 1 : \A t \in d.old .. s : t \in DOMAIN entry /\ entry[t] \notin {0} \union Locked}

gcshadows(upto) ==
    /\ entry' = [s \in DOMAIN entry |-> IF s \in Removable(upto) THEN 0 ELSE entry[s]]

\* main: a daemon does not start when the directory is there already; when the
\* netlink socket or process accounting fails, the directory is left behind.
Start ==
    /\ ~Running /\ Len(content) < MaxIno
    /\ IF dir
       THEN /\ d' = [d EXCEPT !.pc = "off"]
            /\ source' = <<>> /\ on' = FALSE
            /\ UNCHANGED <<files, current, c, log>>
       ELSE /\ source' = <<>> /\ dir' = TRUE
            /\ entry' = [NoEntry EXCEPT ![0] = Len(content) + 1]
            /\ content' = Append(content, <<>>)
            /\ current' = 0 /\ log' = <<>>
            /\ \E works \in BOOLEAN :
                  /\ on' = works
                  /\ d' = [Daemon0 EXCEPT !.pc = IF works THEN "loop" ELSE "off", !.sfd = 1,
                                          !.open = [f \in 1 .. 2 |-> IF f = 1 THEN Len(content) + 1 ELSE 0]]
            /\ c' = [a \in Clients |-> [c[a] EXCEPT !.stray = a \in Claimed]]
    /\ UNCHANGED <<born>>

\* The process is killed, or leaves by exit(5) or exit(7): nothing is removed.
Die ==
    /\ Running
    /\ d' = [d EXCEPT !.pc = "off"]
    /\ UNCHANGED <<kernel, files, current, c, log>>

\* The end of main, after a signal or an irrecoverable error.
Stop ==
    LET left == [s \in DOMAIN entry |-> IF s \in d.old .. d.cur THEN 0 ELSE entry[s]] IN
    /\ d.pc = "loop"
    /\ on' = FALSE /\ source' = <<>>
    /\ entry' = left
    /\ current' = NoFile
    /\ dir' = (left # NoEntry)
    /\ d' = [d EXCEPT !.pc = "stopped"]
    /\ c' = [a \in Clients |-> [c[a] EXCEPT !.stray = a \in Claimed]]
    /\ UNCHANGED <<born, content, log>>

ReadSource ==
    LET upto == Min({Len(source), d.afd + MaxBatch}) IN
    /\ d.pc = "loop" /\ d.afd < Len(source)
    /\ d' = [d EXCEPT !.buf = SubSeq(source, d.afd + 1, upto), !.afd = upto, !.pc = "got"]
    /\ UNCHANGED <<kernel, files, current, c, log>>

\* Accounting is tried with a child whose record swonpacct reads itself.
swonpacct ==
    \/ /\ on' = TRUE /\ born' = born + 1 /\ source' = <<born + 1>>
       /\ d' = [d EXCEPT !.afd = 1, !.atot = 1]
    \/ /\ on' = FALSE /\ born' = born /\ source' = <<>>
       /\ d' = [d EXCEPT !.afd = 0, !.atot = 0]

\* No record for an hour: the source file is wiped and accounting switched on.
Reactivate ==
    /\ d.pc = "loop" /\ d.afd = Len(source) /\ born < MaxRec
    /\ swonpacct
    /\ UNCHANGED <<files, current, c, log>>

\* The source file is wiped when it is large, with what came after the read.
TruncateSource ==
    LET wipe == d.atot + Len(d.buf) >= MaxOrig IN
    /\ d.pc = "got"
    /\ source' = IF wipe THEN <<>> ELSE source
    /\ d' = [d EXCEPT !.pc = "clients",
                      !.afd = IF wipe THEN 0 ELSE d.afd,
                      !.atot = IF wipe THEN 0 ELSE d.atot + Len(d.buf)]
    /\ UNCHANGED <<born, on, files, current, c, log>>

\* NUMCLIENTS: without an atop the records are dropped.
NumClients ==
    /\ d.pc = "clients"
    /\ d' = IF Claimed # {} THEN [d EXCEPT !.busy = TRUE, !.pc = "pass"]
            ELSE [d EXCEPT !.buf = <<>>, !.pc = IF d.busy THEN "reset" ELSE "loop"]
    /\ UNCHANGED <<kernel, files, current, c, log>>

\* The last atop disappeared: all shadow files are removed.
Reset ==
    /\ d.pc = "reset"
    /\ gcshadows(d.cur + 1)
    /\ d' = [d EXCEPT !.old = 0, !.pc = "recreate"]
    /\ UNCHANGED <<kernel, dir, content, current, c, log>>

Recreate ==
    /\ d.pc = "recreate" /\ Len(content) < MaxIno
    /\ LET r == Reopened(0) IN
       /\ entry' = [entry EXCEPT ![0] = r.ino]
       /\ content' = r.content
       /\ d' = [d EXCEPT !.cur = 0, !.stot = 0, !.open = r.open, !.busy = FALSE, !.pc = "wipe"]
    /\ log' = <<>>
    /\ c' = [a \in Clients |-> [c[a] EXCEPT !.stray = a \in Claimed]]
    /\ UNCHANGED <<kernel, dir, current>>

\* pass2shadow, skipped (nothing is written) when the file system is filled
\* for more than 95%.
pass2shadow(recs) ==
    /\ content' = [content EXCEPT ![d.open[d.sfd]] = @ \o recs]
    /\ log' = log \o recs

Part_over == Len(d.buf)

\* The records that fit are passed; the rest, if any, goes to the next file.
Part == Min({Len(d.buf), MaxShadowRec - d.stot})

Pass ==
    LET over == d.stot + Part >= MaxShadowRec IN
    /\ d.pc = "pass"
    /\ \/ /\ pass2shadow(SubSeq(d.buf, 1, Part))
          /\ d' = [d EXCEPT !.stot = @ + Part,
                            !.pc = IF over THEN "next" ELSE "loop",
                            !.buf = IF over THEN SubSeq(@, Part + 1, Len(@)) ELSE <<>>]
       \/ /\ d' = [d EXCEPT !.pc = "loop", !.buf = <<>>]
          /\ UNCHANGED <<content, log>>
    /\ UNCHANGED <<kernel, dir, entry, current, c>>

NextFile ==
    /\ d.pc = "next" /\ d.cur < MaxSeq /\ Len(content) < MaxIno
    /\ createshadow(d.cur + 1)
    /\ UNCHANGED <<kernel, dir, current, c, log>>

\* setcurrent, in two system calls.
WipeCurrent ==
    /\ d.pc = "wipe"
    /\ current' = Wiped
    /\ d' = [d EXCEPT !.pc = "write"]
    /\ UNCHANGED <<kernel, files, c, log>>

setcurrent ==
    /\ d.pc = "write"
    /\ current' = d.cur
    /\ d' = [d EXCEPT !.pc = IF d.buf = <<>> THEN "loop" ELSE "rest"]
    /\ UNCHANGED <<kernel, files, c, log>>

PassRest ==
    /\ d.pc = "rest"
    /\ \/ /\ pass2shadow(d.buf)
          /\ d' = [d EXCEPT !.stot = @ + Len(d.buf), !.buf = <<>>, !.pc = "loop"]
       \/ /\ d' = [d EXCEPT !.buf = <<>>, !.pc = "loop"]
          /\ UNCHANGED <<content, log>>
    /\ UNCHANGED <<kernel, dir, entry, current, c>>

\* The garbage collection of the main loop.
Collect ==
    /\ d.pc = "loop" /\ d.busy
    /\ gcshadows(d.cur)
    /\ d' = [d EXCEPT !.old = @ + Cardinality(Removable(d.cur))]
    /\ Removable(d.cur) # {}
    /\ UNCHANGED <<kernel, dir, content, current, c, log>>

awaitprocterm ==
    \/ ReadSource \/ Reactivate \/ TruncateSource \/ NumClients \/ Reset \/ Recreate
    \/ Pass \/ NextFile \/ WipeCurrent \/ setcurrent \/ PassRest

---------------------------------------------------------------------------
(* The atops. *)

Size(ino) == Len(content[ino])
There(s) == s \in DOMAIN entry /\ entry[s] # 0

acctprocnt_between(a) ==
    LET own == Size(a.ino) - a.acctsize IN
    IF Size(a.ino) < MaxShadowRec \/ current < 0 \/ current = a.seq THEN own
    ELSE own + (current - a.seq) * MaxShadowRec
             + (IF There(current) THEN Size(entry[current]) ELSE Size(a.ino))

\* acctprocnt with shadow files: the records of its own file, and when that is
\* full the ones of the files up to the current one.  Negative is the huge
\* number that the unsigned long would be.
acctprocnt(a) ==
    LET own == Size(a.ino) - a.acctsize IN
    IF Size(a.ino) < MaxShadowRec \/ current < 0 \/ current = a.seq THEN own
    ELSE own + (current - a.seq - 1) * MaxShadowRec
             + (IF There(current) THEN Size(entry[current]) ELSE Size(a.ino))

switchshadow_close(a, k) ==
    LET found == {s \in a.seq + 1 .. a.seq + k : There(s)} IN
    IF found = {} THEN [a EXCEPT !.seq = @ + k] ELSE [a EXCEPT !.seq = @ + k, !.ino = entry[Max(found)]]


\* switchshadow, k times: the sequence number moves on even when an open fails.
switchshadow(a, k) ==
    LET found == {s \in a.seq + 1 .. a.seq + k : There(s)} IN
    IF found = {} THEN [a EXCEPT !.seq = @ + k]
                  ELSE [a EXCEPT !.seq = @ + k, !.ino = entry[Max(found)], !.off = 0]

Become(a, r) == c' = [c EXCEPT ![a] = r]
AtopOnly == UNCHANGED <<kernel, files, current, d, log>>

\* The part of acctswon for shadow files.
Claim(a) ==
    /\ c[a].pc = "off" /\ d.pc # "never"
    /\ Become(a, [Client0 EXCEPT !.pc = "claimed"])
    /\ AtopOnly

ReadCurrent(a) ==
    /\ c[a].pc = "claimed"
    /\ Become(a, IF current < 0 THEN [Client0 EXCEPT !.pc = "none"]
                                ELSE [c[a] EXCEPT !.seq = current, !.pc = "open"])
    /\ AtopOnly

Open(a) ==
    /\ c[a].pc = "open"
    /\ Become(a, IF There(c[a].seq) THEN [c[a] EXCEPT !.ino = entry[c[a].seq], !.pc = "vers",
                                                             !.stray = @ \/ c[a].seq > d.cur]
                                    ELSE [Client0 EXCEPT !.pc = "none"])
    /\ AtopOnly

\* acctvers: skip what is there.  An empty file is tried 40 times.
acctvers(a) ==
    /\ c[a].pc = "vers"
    /\ \/ /\ Size(c[a].ino) > 0
          /\ LET n == acctprocnt(c[a]) IN
             Become(a, [c[a] EXCEPT !.acctsize = n, !.off = n, !.pc = IF n < 0 THEN "lost" ELSE "lock",
                                    !.got = IF n \in 1 .. Size(c[a].ino) THEN content[c[a].ino][n] ELSE 0])
       \/ /\ Size(c[a].ino) = 0
          /\ Become(a, [Client0 EXCEPT !.pc = "none"])
    /\ AtopOnly

\* The read lock.  stray is a history variable: the file was left behind by a
\* reset, or was passed by or removed before it was locked.
Lock(a) ==
    /\ c[a].pc = "lock"
    /\ Become(a, [c[a] EXCEPT !.pc = "on",
                  !.stray = @ \/ c[a].acctsize > MaxShadowRec \/ entry[c[a].seq] # c[a].ino])
    /\ AtopOnly

acctrepos_own(a, skip) ==
    LET virt == a.acctsize + skip IN
    [switchshadow(a, skip \div MaxShadowRec) EXCEPT !.acctsize = virt % MaxShadowRec, !.off = virt % MaxShadowRec]

\* Count the new records; skip the ones above the limit of a sample (acctrepos),
\* look at the size of the file, and start to read.  A count below zero is a
\* huge one: the atop is then at no sensible place any more.
acctrepos(a, skip) ==
    LET virt == a.acctsize + skip
        at   == virt % MaxShadowRec
    IN  [switchshadow(a, virt \div MaxShadowRec) EXCEPT !.acctsize = at, !.off = at]

Count(a) ==
    LET n == acctprocnt(c[a]) IN
    /\ c[a].pc = "on" /\ n # 0
    /\ Become(a, IF n < 0 THEN [c[a] EXCEPT !.pc = "lost"]
                 ELSE LET r == IF n > MaxExits THEN acctrepos(c[a], n - MaxExits) ELSE c[a] IN
                      [r EXCEPT !.n = Min({n, MaxExits}), !.size = Size(r.ino), !.pc = "sample"])
    /\ AtopOnly

\* One turn of the loop of acctphotoproc.
acctphotoproc(a) ==
    LET r == IF c[a].acctsize < c[a].size THEN c[a]
             ELSE LET s == switchshadow(c[a], 1) IN [s EXCEPT !.size = Size(s.ino), !.acctsize = 0]
        ok == r.off < Size(r.ino)
    IN  /\ c[a].pc = "sample"
        /\ Become(a, [r EXCEPT !.acctsize = @ + 1, !.n = @ - 1,
                               !.off = IF ok THEN @ + 1 ELSE @,
                               !.got = IF ok THEN content[r.ino][r.off + 1] ELSE @,
                               !.pc = IF r.n = 1 THEN "on" ELSE "sample"])
        /\ AtopOnly

\* The atop ends or is killed: SEM_UNDO and the lock go with the process.
Leave(a) ==
    /\ c[a].pc # "off"
    /\ Become(a, Client0)
    /\ AtopOnly

Atop(a) ==
    \/ Claim(a) \/ ReadCurrent(a) \/ Open(a) \/ acctvers(a) \/ Lock(a)
    \/ Count(a) \/ acctphotoproc(a) \/ Leave(a)

Next ==
    \/ Exit
    \/ Start \/ Die \/ Stop \/ awaitprocterm \/ Collect
    \/ \E a \in Clients : Atop(a)

Spec == Init /\ [][Next]_vars

---------------------------------------------------------------------------
(* Properties. *)

Regular == {a \in Clients : c[a].pc \in Connected /\ ~c[a].stray}
Place(a) == c[a].seq * MaxShadowRec + c[a].acctsize

\* Places and counts stay within the files there are.
TypeOK ==
    /\ born \in 0 .. MaxRec /\ d.sfd \in 0 .. 2 /\ d.cur \in 0 .. MaxSeq
    /\ d.stot \in 0 .. MaxShadowRec
    /\ \A s \in 0 .. MaxSeq : entry[s] \in 0 .. Len(content)
    /\ \A a \in Regular : c[a].acctsize \in 0 .. MaxShadowRec

\* The shadow files up to the current one are the passed records, cut in pieces
\* of MaxShadowRec (awaitprocterm: "fill a shadow file exactly to its maximum
\* and not more"), whatever was removed in between.
FilesAreTheLog ==
    d.pc \in {"loop", "got", "clients", "pass", "wipe", "write", "rest"} /\ (d.pc # "wipe" \/ d.cur > 0) =>
        \A s \in d.old .. d.cur : entry[s] # 0 =>
            content[entry[s]] = SubSeq(log, s * MaxShadowRec + 1, Min({Len(log), (s + 1) * MaxShadowRec}))

\* The descriptor that main keeps in sfd is the newest shadow file, although
\* awaitprocterm opens it in a copy of the variable.
SfdIsCurrent == d.pc \in {"loop", "pass", "rest"} /\ dir => d.open[d.sfd] = entry[d.cur]

\* Garbage collection never removes a file that an atop still has to read: from
\* the file it is in, all up to the current one are there.
NothingMissing == \A a \in Regular : d.pc = "loop" => \A s \in c[a].seq .. d.cur : entry[s] # 0

\* Whenever an atop counts, it counts no record that is not there, and all of
\* them when the daemon is not writing.
CountIsRight ==
    \A a \in Regular : c[a].pc = "on" =>
        /\ acctprocnt(c[a]) \in 0 .. Len(log) - Place(a)
        /\ d.pc = "loop" => acctprocnt(c[a]) = Len(log) - Place(a)

\* An atop that has read something is at the place of that record: it misses
\* none and sees none twice while it goes from file to file.
InStep == \A a \in Regular : c[a].got # 0 /\ c[a].pc = "on" => c[a].got = log[Place(a)]

\* No record is read twice, and none from before the atop started.
NeverTwice ==
    [][\A a \in Regular : c[a].pc = "sample" /\ c'[a].acctsize # c[a].acctsize =>
            c'[a].got > c[a].got \/ c'[a].pc = "off"]_vars

\* The daemon passes on the kernel's records whole: the shadow files are the
\* log of records, and it keeps writing to the newest of them.
ShadowIsWhole == TypeOK /\ FilesAreTheLog /\ SfdIsCurrent

\* An atop finds every record that was passed on since it connected: the files
\* are there, it counts what is in them, and it is where it thinks it is.
AtopFindsAll == NothingMissing /\ CountIsRight /\ InStep

=============================================================================
