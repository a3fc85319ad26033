------------------------------- MODULE RawLog -------------------------------
(* The raw log of atop (rawlog.c): rawwrite appends a sample in three writes *)
(* and rolls back when one of them fails; rawread shows the samples, forward *)
(* and backward, with a list of the offsets of the records it has seen.      *)
(*                                                                           *)
(* The file is a sequence of cells: the header, and of each sample the       *)
(* record, the system statistics and two cells of task statistics.  The time *)
(* of a sample is its number.  Cells that do not decompress end the reader.  *)
EXTENDS Integers, Sequences

CONSTANTS
    MaxSamples,  \* bound: samples written
    ShortWrites, \* the disk may fill up in the middle of a write
    EndTimes,    \* values of the flag -e, 0 if absent
    Commands     \* what the reader's show function may return

\* Assumed of the constants: the times of samples are numbers.
RawAssumption == MaxSamples \in Nat /\ EndTimes \subseteq Nat

VARIABLES
    file,      \* the raw log
    w,         \* the writer: next write, size before the sample, number of it
    torn,      \* history: a sample was left incomplete in the file
    rd,        \* the reader
    shown      \* samples shown so far: the last one, and how it was reached

vars == <<file, w, torn, rd, shown>>

Header == [kind |-> "header", of |-> 0]
Cell(k, n) == [kind |-> k, of |-> n]
Parts == <<"rec", "sstat", "tstat">>
Cells(part, n) == IF part = "tstat" THEN <<Cell("tstat", n), Cell("tend", n)>> ELSE <<Cell(part, n)>>
Whole(n) == <<Cell("rec", n), Cell("sstat", n), Cell("tstat", n), Cell("tend", n)>>

NoFile == <<>>

Init ==
    /\ file = NoFile /\ torn = FALSE
    /\ w = [pc |-> "closed", size |-> 0, n |-> 0]
    /\ rd = [pc |-> "off", pos |-> 0, offlist |-> <<>>, offcur |-> 0, lastcmd |-> "X", begintime |-> 0, endtime |-> 0,
             sec |-> 0]
    /\ shown = [n |-> 0, cmd |-> "start", last |-> FALSE]

---------------------------------------------------------------------------
(* The writer. *)

\* Create the file with its header, or seek to the end of the existing one.
rawwopen ==
    /\ w.pc = "closed"
    /\ file' = IF file = NoFile THEN <<Header>> ELSE file
    /\ w' = [w EXCEPT !.pc = "idle"]
    /\ UNCHANGED <<torn, rd, shown>>

\* A sample: the size of the file is kept for a roll back.
rawwrite ==
    /\ w.pc = "idle" /\ w.n < MaxSamples
    /\ w' = [pc |-> "rec", size |-> Len(file), n |-> w.n + 1]
    /\ UNCHANGED <<file, torn, rd, shown>>

After == [rec |-> "sstat", sstat |-> "tstat", tstat |-> "idle"]

Write ==
    /\ w.pc \in {"rec", "sstat", "tstat"}
    /\ file' = file \o Cells(w.pc, w.n)
    /\ w' = [w EXCEPT !.pc = After[w.pc]]
    /\ UNCHANGED <<torn, rd, shown>>

\* The disk is full: write returns what still went in, which is no failure.
WriteShort ==
    /\ ShortWrites /\ w.pc = "tstat"
    /\ file' = Append(file, Cell("tstat", w.n))
    /\ w' = [w EXCEPT !.pc = "idle"]
    /\ torn' = TRUE
    /\ UNCHANGED <<rd, shown>>

RolledBack_part == SubSeq(file, 1, Len(file) - 1)

\* A write fails: the file gets its old size and the program stops.
RolledBack == SubSeq(file, 1, w.size)

WriteFails ==
    /\ w.pc \in {"rec", "sstat", "tstat"}
    /\ file' = RolledBack
    /\ w' = [w EXCEPT !.pc = "closed"]
    /\ UNCHANGED <<torn, rd, shown>>

\* Killed between two writes.
WriterKilled ==
    /\ w.pc # "closed"
    /\ torn' = (torn \/ w.pc \in {"sstat", "tstat"})
    /\ w' = [w EXCEPT !.pc = "closed"]
    /\ UNCHANGED <<file, rd, shown>>

---------------------------------------------------------------------------
(* The reader.  Offsets are the number of cells before. *)

At(o, k) == Len(file) > o /\ file[o + 1].kind = k

\* Open the file, check its header, start the list of offsets.
rawread ==
    /\ rd.pc = "off" /\ file # NoFile
    /\ \E b \in 0 .. MaxSamples, e \in EndTimes :
          rd' = [pc |-> "scan", pos |-> 1, offlist |-> [i \in 0 .. 0 |-> 1], offcur |-> 1, lastcmd |-> "X",
                 begintime |-> b, endtime |-> e, sec |-> 0]
    /\ UNCHANGED <<file, w, torn, shown>>

Registered_next == [i \in DOMAIN rd.offlist \union {rd.offcur} |-> IF i = rd.offcur THEN rd.pos + 4 ELSE rd.offlist[i]]

\* Registered: the offset of the record just read, at the current place.
Registered == [i \in DOMAIN rd.offlist \union {rd.offcur} |-> IF i = rd.offcur THEN rd.pos ELSE rd.offlist[i]]

\* The number in the record, read at rd.pos; what is no record is garbage.
Rec == file[rd.pos + 1]

Skip_sstat ==
    /\ rd.pc = "scan" /\ At(rd.pos, "rec") /\ rd.begintime > Rec.of
    /\ rd' = [rd EXCEPT !.offlist = Registered, !.offcur = @ + 1, !.pos = @ + 2, !.lastcmd = "skip"]
    /\ UNCHANGED <<file, w, torn, shown>>

\* A sample before begintime is skipped.
Skip ==
    /\ rd.pc = "scan" /\ At(rd.pos, "rec") /\ rd.begintime > Rec.of
    /\ rd' = [rd EXCEPT !.offlist = Registered, !.offcur = @ + 1, !.pos = @ + 4, !.lastcmd = "skip"]
    /\ UNCHANGED <<file, w, torn, shown>>

\* The statistics are read and shown.  RRLAST tells that no record follows.
IsLast(o) == Len(file) - o <= 1

InRange == rd.begintime <= Rec.of /\ (rd.endtime = 0 \/ Rec.of <= rd.endtime)

Show ==
    /\ rd.pc = "scan" /\ At(rd.pos, "rec") /\ InRange
    /\ At(rd.pos + 1, "sstat") /\ At(rd.pos + 2, "tstat") /\ At(rd.pos + 3, "tend")
    /\ rd' = [rd EXCEPT !.offlist = Registered, !.offcur = @ + 1, !.pos = @ + 4, !.begintime = 0,
                        !.pc = "shown", !.sec = Rec.of]
    /\ shown' = [n |-> Rec.of, cmd |-> rd.lastcmd, last |-> IsLast(rd.pos + 4)]
    /\ UNCHANGED <<file, w, torn>>

\* A sample after endtime ends the reading.
PastEnd ==
    /\ rd.pc = "scan" /\ At(rd.pos, "rec") /\ rd.begintime <= Rec.of
    /\ rd.endtime # 0 /\ rd.endtime < Rec.of
    /\ rd' = [rd EXCEPT !.pc = "done"]
    /\ UNCHANGED <<file, w, torn, shown>>

\* Statistics are missing or do not decompress: cleanstop(7).
Fail ==
    /\ rd.pc = "scan" /\ rd.pos < Len(file)
    /\ InRange \/ Rec.kind # "rec"
    /\ ~(At(rd.pos, "rec") /\ At(rd.pos + 1, "sstat") /\ At(rd.pos + 2, "tstat") /\ At(rd.pos + 3, "tend"))
    /\ rd' = [rd EXCEPT !.pc = "failed"]
    /\ UNCHANGED <<file, w, torn, shown>>

PrevPlace_one == IF rd.offcur >= 1 THEN rd.offcur - 1 ELSE 0

\* The command that the show function returned.
PrevPlace == IF rd.offcur >= 2 THEN rd.offcur - 2 ELSE 0

Seek(i) == [rd EXCEPT !.offcur = i, !.pos = rd.offlist[i]]

Command(c) ==
    /\ rd.pc = "shown"
    /\ rd' = CASE c = "prev"  -> [Seek(PrevPlace) EXCEPT !.pc = "scan", !.lastcmd = c]
               [] c = "reset" -> [Seek(0) EXCEPT !.pc = "scan", !.lastcmd = c, !.offcur = 1]
               [] c = "quit"  -> [rd EXCEPT !.pc = "done"]
               [] OTHER       -> [rd EXCEPT !.pc = "scan", !.lastcmd = c]
    /\ UNCHANGED <<file, w, torn, shown>>

\* The user branches to a time, which is looked for from the start when it is
\* before the sample that is shown.
Branch(b) ==
    /\ rd.pc = "shown" /\ "branch" \in Commands
    /\ rd' = IF b < rd.sec THEN [Seek(0) EXCEPT !.pc = "scan", !.lastcmd = "branch", !.offcur = 1, !.begintime = b]
                           ELSE [rd EXCEPT !.pc = "scan", !.lastcmd = "branch", !.begintime = b]
    /\ UNCHANGED <<file, w, torn, shown>>

\* At the end of the file: the last record is shown again, unless the show
\* function wants no more (atopsar).
EndPlace == IF rd.offcur >= 1 THEN rd.offcur - 1 ELSE 0

EndOfFile_begin ==
    /\ rd.pc = "scan" /\ rd.pos >= Len(file)
    /\ rd' = IF rd.lastcmd = "none" THEN [rd EXCEPT !.pc = "done"] ELSE Seek(EndPlace)
    /\ UNCHANGED <<file, w, torn, shown>>

EndOfFile ==
    /\ rd.pc = "scan" /\ rd.pos >= Len(file)
    /\ rd' = IF rd.lastcmd = "none" THEN [rd EXCEPT !.pc = "done"]
             ELSE [Seek(EndPlace) EXCEPT !.begintime = 0]
    /\ UNCHANGED <<file, w, torn, shown>>

Reader ==
    \/ rawread \/ Skip \/ Show \/ PastEnd \/ Fail \/ EndOfFile
    \/ \E c \in Commands \ {"branch"} : Command(c)
    \/ \E b \in 1 .. MaxSamples : Branch(b)

Writer == rawwopen \/ rawwrite \/ Write \/ WriteShort \/ WriteFails \/ WriterKilled

Next == Writer \/ Reader

Spec == Init /\ [][Next]_vars /\ WF_vars(Reader)

---------------------------------------------------------------------------
(* Properties. *)

\* The samples in the file, as far as they are whole.
IsWhole(f) ==
    /\ (Len(f) - 1) % 4 = 0
    /\ \A i \in 0 .. (Len(f) - 1) \div 4 - 1 :
          SubSeq(f, 4 * i + 2, 4 * i + 5) = Whole(f[4 * i + 2].of)

\* When no write is busy the file consists of whole samples, also after a write
\* that failed (rawwrite: the size is kept "to roll back").
WholeSamples == w.pc \in {"idle", "closed"} /\ file # NoFile /\ ~torn => IsWhole(file)

\* The list of offsets: below the current place are the records up to the one
\* that is shown, each once (the first one may be there twice), so that every
\* earlier sample can be seen again.
OffsetsAreRecords ==
    ~torn /\ rd.pc = "shown" =>
        /\ rd.offlist[0] = 1 /\ rd.offlist[rd.offcur - 1] = rd.pos - 4
        /\ \A i \in 1 .. rd.offcur - 1 :
              rd.offlist[i] = rd.offlist[i - 1] + 4 \/ (i = 1 /\ rd.offlist[1] = 1)

\* The reader stops with an error only when a sample is incomplete: torn, or
\* being written at that moment.
FailsOnlyOnTorn ==
    [][rd.pc = "scan" /\ rd'.pc = "failed" => torn \/ w.pc \in {"sstat", "tstat"}]_vars

\* The log can be read in both directions: the file consists of whole samples
\* and the reader's list of offsets tells where they are.
LogIsReadable == WholeSamples /\ OffsetsAreRecords

\* What is shown next: after "previous" the sample before (or the first again),
\* after a forward command the one after it, or the same again at the end.
\* Samples that were rolled back leave no gap: places count, not numbers.
PlaceOf(n) == CHOOSE i \in 1 .. Len(file) : file[i] = Cell("rec", n)
Before(n) == {m \in 1 .. MaxSamples : \E i \in 1 .. PlaceOf(n) - 1 : file[i] = Cell("rec", m)}
Behind(n) == {m \in 1 .. MaxSamples : \E i \in PlaceOf(n) + 1 .. Len(file) : file[i] = Cell("rec", m)}
Navigates ==
    [][rd.pc = "scan" /\ rd'.pc = "shown" /\ ~torn =>
         CASE rd.lastcmd = "prev" ->
                IF Before(shown.n) = {} THEN shown'.n = shown.n
                ELSE shown'.n \in Before(shown.n) /\ \A m \in Before(shown.n) : m <= shown'.n
           [] rd.lastcmd = "next" ->
                \/ shown'.n \in Behind(shown.n) /\ \A m \in Behind(shown.n) : shown'.n <= m
                \/ shown'.n = shown.n
           [] rd.lastcmd = "reset" -> Before(shown'.n) = {}
           [] OTHER -> TRUE]_vars

\* The reader moves as the user asks: to the sample that the key means, and to
\* an error only where a sample is incomplete.
ReaderMoves == Navigates /\ FailsOnlyOnTorn

\* Once there was a sample to show, every command of the user leads to another
\* one, or to the end: the reader never keeps scanning.
ShowsAgain == (rd.pc = "scan" /\ shown.n > 0) ~> (rd.pc \in {"shown", "done", "failed"})
=============================================================================
