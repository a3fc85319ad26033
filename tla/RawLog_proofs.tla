--------------------------- MODULE RawLog_proofs ---------------------------
(* Proofs about the raw log (rawlog.c) for any number of samples, any number *)
(* of rolled back writes and any commands of the user, and, from the section *)
(* on its record on, about the reports of atopsar (atopsar.c) for any log,   *)
(* any flags and any numbers of units and processors.                        *)
EXTENDS MCReports, Vectors_proofs, SequenceTheorems, FiniteSetTheorems, TLAPS

---------------------------------------------------------------------------
(* The inductive invariant.                                                  *)

CellSet == [kind : {"header", "rec", "sstat", "tstat", "tend"}, of : 0 .. MaxSamples]
Busy == {"rec", "sstat", "tstat"}
OffLists == UNION {[D -> Nat] : D \in SUBSET Nat}

WriterTypes ==
  /\ file \in Seq(CellSet) /\ torn \in BOOLEAN
  /\ w \in [pc : Busy \cup {"closed", "idle"}, size : Nat, n : 0 .. MaxSamples]
  /\ w.pc \in Busy => w.size <= Len(file)

ReaderRecord ==
  [pc : {"off", "scan", "shown", "done", "failed"}, pos : Nat, offlist : OffLists, offcur : Nat,
   lastcmd : Commands \cup {"X", "skip", "branch"}, begintime : 0 .. MaxSamples, endtime : EndTimes \cup {0},
   sec : 0 .. MaxSamples]

ReaderTypes ==
  /\ rd \in ReaderRecord
  /\ shown \in [n : 0 .. MaxSamples, cmd : Commands \cup {"X", "skip", "branch", "start"}, last : BOOLEAN]

\* The cell that belongs to a place of the file.
RightCell(f, j) ==
  f[j] = IF j = 1 THEN Header
         ELSE IF j % 4 = 2 THEN Cell("rec", f[j].of)
         ELSE Cell(IF j % 4 = 3 THEN "sstat" ELSE IF j % 4 = 0 THEN "tstat" ELSE "tend", f[j - 1].of)

\* The header, then samples of four cells; the last one may be incomplete.
Shaped(f) == \A j \in 1 .. Len(f) : RightCell(f, j)

\* The numbers of the samples grow.
Ordered(f) ==
  \A i, j \in 1 .. Len(f) : i < j /\ i % 4 = 2 /\ j % 4 = 2 => f[i].of < f[j].of

\* What the writer has done of a sample, and what it has kept for a roll back.
FileInv ==
  ~torn =>
    /\ Shaped(file) /\ Ordered(file)
    /\ \A j \in 1 .. Len(file) : j % 4 = 2 => file[j].of \in 1 .. (IF w.pc = "rec" THEN w.n - 1 ELSE w.n)
    /\ w.pc = "closed" /\ file # NoFile => Len(file) % 4 = 1
    /\ w.pc = "idle" => Len(file) % 4 = 1
    /\ w.pc \in Busy => w.size % 4 = 1 /\ w.n > 0
    /\ w.pc = "rec" => Len(file) = w.size
    /\ w.pc = "sstat" => Len(file) = w.size + 1 /\ file[w.size + 1].of = w.n
    /\ w.pc = "tstat" => Len(file) = w.size + 2 /\ file[w.size + 1].of = w.n

\* The offsets below the current place, and where the next record is read.
ListInv ==
  rd.pc \in {"scan", "shown"} =>
    /\ 0 \in DOMAIN rd.offlist /\ rd.offlist[0] = 1
    /\ \A i \in 0 .. rd.offcur - 1 : i \in DOMAIN rd.offlist /\ rd.offlist[i] % 4 = 1
    /\ \A i \in 1 .. rd.offcur - 1 :
         rd.offlist[i] = rd.offlist[i - 1] + 4 \/ (i = 1 /\ rd.offlist[1] = 1)
    /\ rd.offcur = 0 => rd.pos = 1 /\ rd.pc = "scan"
    /\ rd.offcur > 0 => \/ rd.pos = rd.offlist[rd.offcur - 1] + 4
                        \/ rd.offcur = 1 /\ rd.pos = 1 /\ rd.pc = "scan"

\* The cells that a roll back leaves.
Kept == IF w.pc \in Busy THEN w.size ELSE Len(file)

\* The sample that was shown last is at this offset, and stays there.
ShownAt(o) == o % 4 = 1 /\ o + 4 <= Kept /\ file[o + 1].of = shown.n

\* Where the sample shown last is, and where the command leads from it.
PlaceInv ==
  /\ ~torn /\ rd.pc = "shown" => ShownAt(rd.offlist[rd.offcur - 1])
  /\ ~torn /\ rd.pc = "scan" /\ rd.lastcmd \in {"prev", "next", "reset"} =>
       \E o \in 1 .. Len(file) :
         /\ ShownAt(o)
         /\ rd.lastcmd = "prev" => rd.pos = o - 4 \/ (rd.pos = 1 /\ o = 1)
         /\ rd.lastcmd = "next" =>
              \/ rd.pos = o
              \/ rd.pos = o + 4 /\ rd.offcur > 0 /\ rd.offlist[rd.offcur - 1] = o
         /\ rd.lastcmd = "reset" => rd.pos = 1

RawInv == WriterTypes /\ ReaderTypes /\ FileInv /\ ListInv /\ PlaceInv

---------------------------------------------------------------------------
(* The cells of the file.                                                    *)

\* A file whose first cells are those of a well formed one, and whose others
\* are in their places, is well formed.
LEMMA ShapedGrows ==
  ASSUME NEW f \in Seq(CellSet), NEW g \in Seq(CellSet), NEW n \in 0 .. Len(f), Shaped(f),
         \A j \in 1 .. Len(g) : j <= n => g[j] = f[j],
         \A j \in 1 .. Len(g) : j > n => RightCell(g, j)
  PROVE  Shaped(g)
<1> SUFFICES ASSUME NEW j \in 1 .. Len(g) PROVE RightCell(g, j)
  BY DEF Shaped, RightCell
<1>1. CASE j <= n
  <2>1. RightCell(f, j)
    BY <1>1 DEF Shaped, RightCell
  <2>2. g[j] = f[j]
    BY <1>1
  <2>3. j # 1 => g[j - 1] = f[j - 1]
    BY <1>1
  <2> QED
    BY <2>1, <2>2, <2>3 DEF RightCell
<1>2. CASE j > n
  BY <1>2
<1> QED
  BY <1>1, <1>2

\* The places of a sample that begins behind the first s cells.
LEMMA SamplePlaces ==
  ASSUME NEW s \in Nat, s % 4 = 1
  PROVE  /\ s # 0 /\ (s + 1) % 4 = 2 /\ (s + 4) % 4 = 1
         /\ \A j \in Nat : j % 4 = 2 => j # s + 2 /\ j # s + 3 /\ j # s + 4
         /\ \A f : RightCell(f, s + 1) <=> f[s + 1] = Cell("rec", f[s + 1].of)
         /\ \A f : RightCell(f, s + 2) <=> f[s + 2] = Cell("sstat", f[s + 1].of)
         /\ \A f : RightCell(f, s + 3) <=> f[s + 3] = Cell("tstat", f[s + 2].of)
         /\ \A f : RightCell(f, s + 4) <=> f[s + 4] = Cell("tend", f[s + 3].of)
<1>1. s # 0 /\ (s + 1) % 4 = 2 /\ (s + 2) % 4 = 3 /\ (s + 3) % 4 = 0 /\ (s + 4) % 4 = 1
  OBVIOUS
<1>2. \A j \in Nat : j % 4 = 2 => j # s + 2 /\ j # s + 3 /\ j # s + 4
  BY <1>1
<1>3. /\ s + 1 # 1 /\ s + 2 # 1 /\ s + 3 # 1 /\ s + 4 # 1
      /\ s + 2 - 1 = s + 1 /\ s + 3 - 1 = s + 2 /\ s + 4 - 1 = s + 3
  BY <1>1
<1>4. \A f : RightCell(f, s + 1) <=> f[s + 1] = Cell("rec", f[s + 1].of)
  BY <1>1, <1>3 DEF RightCell
<1>5. \A f : RightCell(f, s + 2) <=> f[s + 2] = Cell("sstat", f[s + 1].of)
  BY <1>1, <1>3 DEF RightCell
<1>6. \A f : RightCell(f, s + 3) <=> f[s + 3] = Cell("tstat", f[s + 2].of)
  BY <1>1, <1>3 DEF RightCell
<1>7. \A f : RightCell(f, s + 4) <=> f[s + 4] = Cell("tend", f[s + 3].of)
  BY <1>1, <1>3 DEF RightCell
<1> QED
  BY <1>1, <1>2, <1>4, <1>5, <1>6, <1>7

\* What a write adds to the file.
LEMMA CellsAdded ==
  ASSUME NEW f \in Seq(CellSet), NEW n \in 0 .. MaxSamples, NEW piece \in Busy
  PROVE  /\ f \o Cells(piece, n) \in Seq(CellSet)
         /\ Len(f \o Cells(piece, n)) = Len(f) + (IF piece = "tstat" THEN 2 ELSE 1)
         /\ \A j \in 1 .. Len(f) : (f \o Cells(piece, n))[j] = f[j]
         /\ (f \o Cells(piece, n))[Len(f) + 1] = Cell(piece, n)
         /\ piece = "tstat" => (f \o Cells(piece, n))[Len(f) + 2] = Cell("tend", n)
<1>1. Cell(piece, n) \in CellSet /\ Cell("tend", n) \in CellSet
  BY DEF Cell, CellSet, Busy
<1>2. CASE piece = "tstat"
  <2>1. Cells(piece, n) = <<Cell(piece, n), Cell("tend", n)>>
    BY <1>2 DEF Cells
  <2>2. Cells(piece, n) \in Seq(CellSet) /\ Len(Cells(piece, n)) = 2
    BY <1>1, <2>1
  <2>3. Cells(piece, n)[1] = Cell(piece, n) /\ Cells(piece, n)[2] = Cell("tend", n)
    BY <2>1
  <2>4. PICK t \in Seq(CellSet) : t = Cells(piece, n) /\ Len(t) = 2
    BY <2>2
  <2>5. /\ f \o t \in Seq(CellSet) /\ Len(f \o t) = Len(f) + 2
        /\ \A j \in 1 .. Len(f) + 2 : (f \o t)[j] = IF j <= Len(f) THEN f[j] ELSE t[j - Len(f)]
    <3>1. /\ f \o t \in Seq(CellSet) /\ Len(f \o t) = Len(f) + Len(t)
          /\ \A j \in 1 .. Len(f) + Len(t) : (f \o t)[j] = IF j <= Len(f) THEN f[j] ELSE t[j - Len(f)]
      BY ConcatProperties
    <3> QED
      BY <2>4, <3>1
  <2>6. PICK l \in Nat : l = Len(f)
    OBVIOUS
  <2>7. /\ \A j \in 1 .. l : (f \o t)[j] = f[j]
        /\ (f \o t)[l + 1] = t[1] /\ (f \o t)[l + 2] = t[2]
    BY <2>5, <2>6
  <2> QED
    BY <1>2, <2>3, <2>4, <2>5, <2>6, <2>7
<1>3. CASE piece # "tstat"
  <2>1. Cells(piece, n) = <<Cell(piece, n)>>
    BY <1>3 DEF Cells
  <2>2. Cells(piece, n) \in Seq(CellSet) /\ Len(Cells(piece, n)) = 1
    BY <1>1, <2>1
  <2>3. Cells(piece, n)[1] = Cell(piece, n)
    BY <2>1
  <2>4. PICK t \in Seq(CellSet) : t = Cells(piece, n) /\ Len(t) = 1
    BY <2>2
  <2>5. /\ f \o t \in Seq(CellSet) /\ Len(f \o t) = Len(f) + 1
        /\ \A j \in 1 .. Len(f) + 1 : (f \o t)[j] = IF j <= Len(f) THEN f[j] ELSE t[j - Len(f)]
    <3>1. /\ f \o t \in Seq(CellSet) /\ Len(f \o t) = Len(f) + Len(t)
          /\ \A j \in 1 .. Len(f) + Len(t) : (f \o t)[j] = IF j <= Len(f) THEN f[j] ELSE t[j - Len(f)]
      BY ConcatProperties
    <3> QED
      BY <2>4, <3>1
  <2>6. PICK l \in Nat : l = Len(f)
    OBVIOUS
  <2>7. (\A j \in 1 .. l : (f \o t)[j] = f[j]) /\ (f \o t)[l + 1] = t[1]
    BY <2>5, <2>6
  <2> QED
    BY <1>3, <2>3, <2>4, <2>5, <2>6, <2>7
<1> QED
  BY <1>2, <1>3

\* The samples of a well formed file without an incomplete one are whole.
LEMMA ShapedIsWhole ==
  ASSUME NEW f \in Seq(CellSet), Shaped(f), Len(f) % 4 = 1
  PROVE  IsWhole(f)
<1>0. Len(f) \in Nat
  OBVIOUS
<1>1. (Len(f) - 1) % 4 = 0
  BY <1>0
<1>2. ASSUME NEW i \in 0 .. (Len(f) - 1) \div 4 - 1
      PROVE  SubSeq(f, 4 * i + 2, 4 * i + 5) = Whole(f[4 * i + 2].of)
  <2> DEFINE g == SubSeq(f, 4 * i + 2, 4 * i + 5)
  <2>0. i \in Nat /\ 4 * i + 5 <= Len(f)
    BY <1>0, <1>1
  <2>1. \A k \in 4 * i + 2 .. 4 * i + 5 : f[k] \in CellSet
    BY <1>0, <2>0
  <2>2. g \in Seq(CellSet) /\ Len(g) = 4 /\ \A k \in 1 .. 4 : g[k] = f[4 * i + 1 + k]
    <3> DEFINE a == 4 * i + 2
               b == 4 * i + 5
    <3>1. a \in Int /\ b \in Int /\ b = a + 3 /\ \A k \in a .. b : f[k] \in CellSet
      BY <2>0, <2>1
    <3> HIDE DEF a, b
    <3>2. /\ SubSeq(f, a, b) \in Seq(CellSet)
          /\ Len(SubSeq(f, a, b)) = IF a <= b THEN b - a + 1 ELSE 0
          /\ \A k \in 1 .. b - a + 1 : SubSeq(f, a, b)[k] = f[a + k - 1]
      BY <3>1, SubSeqProperties
    <3>3. b - a + 1 = 4 /\ a <= b /\ \A k \in 1 .. 4 : a + k - 1 = 4 * i + 1 + k
      BY <2>0, <3>1 DEF a
    <3> QED
      BY <3>2, <3>3 DEF a, b
  <2>3. g[1] = f[4 * i + 2] /\ g[2] = f[4 * i + 3] /\ g[3] = f[4 * i + 4] /\ g[4] = f[4 * i + 5]
    BY <2>0, <2>2
  <2> HIDE DEF g
  <2>4. g = <<g[1], g[2], g[3], g[4]>>
    BY <2>2
  <2>5. RightCell(f, 4 * i + 2) /\ RightCell(f, 4 * i + 3) /\ RightCell(f, 4 * i + 4) /\ RightCell(f, 4 * i + 5)
    <3>1. {4 * i + 2, 4 * i + 3, 4 * i + 4, 4 * i + 5} \subseteq 1 .. Len(f)
      BY <1>0, <2>0
    <3> QED
      BY <3>1 DEF Shaped
  <2>6. f[4 * i + 2] = Cell("rec", f[4 * i + 2].of)
    BY <2>0, <2>5 DEF RightCell
  <2>7. f[4 * i + 3] = Cell("sstat", f[4 * i + 2].of)
    BY <2>0, <2>5 DEF RightCell
  <2>8. f[4 * i + 4] = Cell("tstat", f[4 * i + 2].of)
    BY <2>0, <2>5, <2>7 DEF RightCell, Cell
  <2>9. f[4 * i + 5] = Cell("tend", f[4 * i + 2].of)
    BY <2>0, <2>5, <2>8 DEF RightCell, Cell
  <2> QED
    BY <2>3, <2>4, <2>6, <2>7, <2>8, <2>9 DEF Whole, g
<1> QED
  BY <1>1, <1>2 DEF IsWhole

---------------------------------------------------------------------------
(* The writer.                                                               *)

\* What a roll back leaves is in the file.
LEMMA KeptBound ==
  ASSUME WriterTypes, FileInv, ~torn
  PROVE  Kept \in 0 .. Len(file)
<1>1. w.pc \in Busy \cup {"closed", "idle"} /\ w.size \in Nat /\ Len(file) \in Nat
  BY DEF WriterTypes
<1> QED
  BY <1>1 DEF Kept, FileInv, Busy

\* The sample that was shown stays where it is as long as the writer keeps
\* what a roll back leaves.
LEMMA PlaceStays ==
  ASSUME WriterTypes, FileInv, WriterTypes', FileInv', ReaderTypes, ListInv, PlaceInv, UNCHANGED <<rd, shown>>,
         ~torn' => ~torn /\ Kept <= Kept' /\ \A j \in 1 .. Kept : file'[j] = file[j]
  PROVE  PlaceInv'
<1> SUFFICES ASSUME ~torn' PROVE PlaceInv'
  BY DEF PlaceInv
<1>1. Kept \in 0 .. Len(file) /\ Kept' \in 0 .. Len(file') /\ Len(file) \in Nat /\ Len(file') \in Nat
  <2>1. Len(file) \in Nat /\ Len(file') \in Nat
    BY DEF WriterTypes
  <2>2. Kept' \in 0 .. Len(file')
    <3>1. w'.pc \in Busy \cup {"closed", "idle"} /\ w'.size \in Nat
      BY DEF WriterTypes
    <3> QED
      BY <2>1, <3>1 DEF Kept, FileInv, Busy
  <2> QED
    BY <2>1, <2>2, KeptBound
<1>2. ASSUME NEW o \in Nat, ShownAt(o) PROVE ShownAt(o)'
  <2>1. o + 1 \in 1 .. Kept
    BY <1>1, <1>2 DEF ShownAt
  <2>2. file'[o + 1] = file[o + 1]
    BY <2>1
  <2> QED
    BY <1>1, <1>2, <2>2 DEF ShownAt
<1>3. ASSUME rd.pc = "shown" PROVE ShownAt(rd.offlist[rd.offcur - 1])'
  <2>1. rd.offlist[rd.offcur - 1] \in Nat
    <3>1. rd.offcur \in Nat /\ rd.offcur # 0
      BY <1>3 DEF ReaderTypes, ReaderRecord, ListInv
    <3>2. rd.offcur - 1 \in DOMAIN rd.offlist
      BY <1>3, <3>1 DEF ListInv
    <3>3. PICK D \in SUBSET Nat : rd.offlist \in [D -> Nat]
      BY DEF ReaderTypes, ReaderRecord, OffLists
    <3> QED
      BY <3>2, <3>3
  <2>2. PICK o \in Nat : o = rd.offlist[rd.offcur - 1]
    BY <2>1
  <2>3. ShownAt(o)'
    BY <1>2, <1>3, <2>2 DEF PlaceInv
  <2> QED
    BY <2>2, <2>3
<1>4. ASSUME rd.pc = "scan", rd.lastcmd \in {"prev", "next", "reset"}
      PROVE  \E o \in 1 .. Len(file') :
               /\ ShownAt(o)'
               /\ rd.lastcmd = "prev" => rd.pos = o - 4 \/ (rd.pos = 1 /\ o = 1)
               /\ rd.lastcmd = "next" =>
                    \/ rd.pos = o
                    \/ rd.pos = o + 4 /\ rd.offcur > 0 /\ rd.offlist[rd.offcur - 1] = o
               /\ rd.lastcmd = "reset" => rd.pos = 1
  <2>1. PICK o \in 1 .. Len(file) :
               /\ ShownAt(o)
               /\ rd.lastcmd = "prev" => rd.pos = o - 4 \/ (rd.pos = 1 /\ o = 1)
               /\ rd.lastcmd = "next" =>
                    \/ rd.pos = o
                    \/ rd.pos = o + 4 /\ rd.offcur > 0 /\ rd.offlist[rd.offcur - 1] = o
               /\ rd.lastcmd = "reset" => rd.pos = 1
    BY <1>4 DEF PlaceInv
  <2>2. o \in Nat /\ o \in 1 .. Len(file')
    BY <1>1, <2>1 DEF ShownAt
  <2>3. ShownAt(o)'
    BY <1>2, <2>1, <2>2
  <2> QED
    BY <2>1, <2>2, <2>3
<1> QED
  BY <1>3, <1>4 DEF PlaceInv

\* The file is created with its header, or left as it is.
LEMMA OpenStep ==
  ASSUME RawAssumption, RawInv, rawwopen
  PROVE  RawInv'
<1>0. w.pc = "closed" /\ w \in [pc : Busy \cup {"closed", "idle"}, size : Nat, n : 0 .. MaxSamples]
  BY DEF rawwopen, RawInv, WriterTypes
<1>1. w' = [w EXCEPT !.pc = "idle"] /\ w'.pc = "idle" /\ w'.n = w.n /\ w'.size = w.size /\ UNCHANGED <<torn, rd, shown>>
  BY <1>0 DEF rawwopen
<1>a. w' \in [pc : Busy \cup {"closed", "idle"}, size : Nat, n : 0 .. MaxSamples]
  BY <1>0, <1>1
<1>2. CASE file = NoFile
  <2>1. file' = <<Header>> /\ Header \in CellSet
    BY <1>2 DEF rawwopen, Header, CellSet, RawAssumption
  <2>2. file' \in Seq(CellSet) /\ Len(file') = 1 /\ file'[1] = Header
    BY <2>1
  <2>3. WriterTypes'
    BY <1>1, <1>a, <2>2 DEF RawInv, WriterTypes, Busy
  <2>4. FileInv'
    BY <1>1, <2>2 DEF FileInv, Shaped, RightCell, Ordered, Busy
  <2>5. Kept = 0 /\ Kept' = 1
    BY <1>0, <1>1, <1>2, <2>2 DEF Kept, Busy, NoFile
  <2>6. PlaceInv'
    BY <1>1, <2>3, <2>4, <2>5, PlaceStays DEF RawInv
  <2> QED
    BY <1>1, <2>3, <2>4, <2>6 DEF RawInv, ReaderTypes, ListInv
<1>3. CASE file # NoFile
  <2>1. file' = file
    BY <1>3 DEF rawwopen
  <2>2. WriterTypes'
    BY <1>1, <1>a, <2>1 DEF RawInv, WriterTypes, Busy
  <2>3. FileInv'
    BY <1>0, <1>1, <1>3, <2>1 DEF RawInv, FileInv, Busy
  <2>4. Kept' = Kept /\ Kept = Len(file) /\ Len(file) \in Nat
    BY <1>0, <1>1, <2>1 DEF Kept, Busy, RawInv, WriterTypes
  <2>5. PlaceInv'
    BY <1>1, <2>1, <2>2, <2>3, <2>4, PlaceStays DEF RawInv
  <2> QED
    BY <1>1, <2>2, <2>3, <2>5 DEF RawInv, ReaderTypes, ListInv
<1> QED
  BY <1>2, <1>3

\* A sample begins: the size of the file is kept.
LEMMA BeginStep ==
  ASSUME RawAssumption, RawInv, rawwrite
  PROVE  RawInv'
<1>0. w.pc = "idle" /\ w.n \in 0 .. MaxSamples /\ w.n < MaxSamples
  BY DEF rawwrite, RawInv, WriterTypes
<1>1. /\ w' = [pc |-> "rec", size |-> Len(file), n |-> w.n + 1] /\ UNCHANGED <<file, torn, rd, shown>>
      /\ w'.pc = "rec" /\ w'.size = Len(file) /\ w'.n = w.n + 1
  BY DEF rawwrite
<1>a. Len(file) \in Nat
  BY DEF RawInv, WriterTypes
<1>2. WriterTypes'
  BY <1>0, <1>1, <1>a DEF RawInv, WriterTypes, Busy, RawAssumption
<1>3. FileInv'
  BY <1>0, <1>1, <1>a DEF RawInv, FileInv, Busy
<1>4. Kept' = Kept /\ Kept = Len(file)
  BY <1>0, <1>1 DEF Kept, Busy
<1>5. PlaceInv'
  BY <1>1, <1>2, <1>3, <1>4, <1>a, PlaceStays DEF RawInv
<1> QED
  BY <1>1, <1>2, <1>3, <1>5 DEF RawInv, ReaderTypes, ListInv

\* One of the three writes of a sample.
LEMMA WriteStep ==
  ASSUME RawAssumption, RawInv, Write
  PROVE  RawInv'
<1>0. /\ w.pc \in Busy /\ w.size \in Nat /\ w.n \in 0 .. MaxSamples /\ file \in Seq(CellSet) /\ Len(file) \in Nat
      /\ w \in [pc : Busy \cup {"closed", "idle"}, size : Nat, n : 0 .. MaxSamples]
  BY DEF Write, RawInv, WriterTypes, Busy
<1>1. file' = file \o Cells(w.pc, w.n) /\ w' = [w EXCEPT !.pc = After[w.pc]] /\ UNCHANGED <<torn, rd, shown>>
  BY DEF Write
<1>2. w'.size = w.size /\ w'.n = w.n /\ w'.pc = After[w.pc]
  BY <1>0, <1>1
<1>3. /\ w.pc = "rec" => w'.pc = "sstat"
      /\ w.pc = "sstat" => w'.pc = "tstat"
      /\ w.pc = "tstat" => w'.pc = "idle"
  BY <1>2 DEF After
<1>a. w'.pc \in Busy \cup {"closed", "idle"}
  BY <1>0, <1>3 DEF Busy
<1>4. /\ file' \in Seq(CellSet)
      /\ Len(file') = Len(file) + (IF w.pc = "tstat" THEN 2 ELSE 1)
      /\ \A j \in 1 .. Len(file) : file'[j] = file[j]
      /\ file'[Len(file) + 1] = Cell(w.pc, w.n)
      /\ w.pc = "tstat" => file'[Len(file) + 2] = Cell("tend", w.n)
  BY <1>0, <1>1, CellsAdded
<1>5. WriterTypes'
  <2>1. w' \in [pc : Busy \cup {"closed", "idle"}, size : Nat, n : 0 .. MaxSamples]
    BY <1>0, <1>1, <1>2, <1>a
  <2>2. w'.pc \in Busy => w'.size <= Len(file')
    BY <1>0, <1>2, <1>4 DEF RawInv, WriterTypes
  <2> QED
    BY <1>1, <1>4, <2>1, <2>2 DEF RawInv, WriterTypes
<1>6. ASSUME ~torn
      PROVE  /\ Shaped(file') /\ Ordered(file')
             /\ \A j \in 1 .. Len(file') : j % 4 = 2 => file'[j].of \in 1 .. w.n
             /\ w.size % 4 = 1 /\ w.n > 0
             /\ w.pc = "rec" => Len(file') = w.size + 1 /\ file'[w.size + 1].of = w.n
             /\ w.pc = "sstat" => Len(file') = w.size + 2 /\ file'[w.size + 1].of = w.n
             /\ w.pc = "tstat" => Len(file') = w.size + 4
             /\ w.size <= Len(file)
  <2>0. /\ Shaped(file) /\ Ordered(file) /\ w.size % 4 = 1 /\ w.n > 0
        /\ \A j \in 1 .. Len(file) : j % 4 = 2 => file[j].of \in 1 .. (IF w.pc = "rec" THEN w.n - 1 ELSE w.n)
    BY <1>0, <1>6 DEF RawInv, FileInv
  <2>a. /\ w.size # 0 /\ (w.size + 4) % 4 = 1
        /\ \A j \in Nat : j % 4 = 2 => j # w.size + 2 /\ j # w.size + 3 /\ j # w.size + 4
        /\ \A f : RightCell(f, w.size + 1) <=> f[w.size + 1] = Cell("rec", f[w.size + 1].of)
        /\ \A f : RightCell(f, w.size + 2) <=> f[w.size + 2] = Cell("sstat", f[w.size + 1].of)
        /\ \A f : RightCell(f, w.size + 3) <=> f[w.size + 3] = Cell("tstat", f[w.size + 2].of)
        /\ \A f : RightCell(f, w.size + 4) <=> f[w.size + 4] = Cell("tend", f[w.size + 3].of)
    BY <1>0, <2>0, SamplePlaces
  <2>1. CASE w.pc = "rec"
    <3>1. Len(file) = w.size /\ Len(file') = w.size + 1
      BY <1>0, <1>4, <1>6, <2>1 DEF RawInv, FileInv
    <3>2. file'[w.size + 1] = Cell("rec", w.n) /\ file'[w.size + 1].of = w.n
      BY <1>4, <2>1, <3>1 DEF Cell
    <3>3. RightCell(file', w.size + 1)
      BY <2>a, <3>2
    <3>4. Shaped(file')
      BY <1>0, <1>4, <2>0, <3>1, <3>3, ShapedGrows
    <3>5. \A j \in 1 .. Len(file') : j % 4 = 2 => file'[j].of \in 1 .. w.n
      BY <1>0, <1>4, <2>0, <2>1, <3>1, <3>2
    <3>6. Ordered(file')
      <4> SUFFICES ASSUME NEW i \in 1 .. Len(file'), NEW j \in 1 .. Len(file'), i < j, i % 4 = 2, j % 4 = 2
                   PROVE  file'[i].of < file'[j].of
        BY DEF Ordered
      <4>0. i \in 1 .. Len(file)
        BY <1>0, <3>1
      <4>1. i \in 1 .. Len(file) /\ file'[i] = file[i] /\ file[i].of \in 1 .. w.n - 1
        BY <1>4, <2>0, <2>1, <4>0
      <4>2. CASE j = w.size + 1
        <5>1. file'[j].of = w.n /\ w.n \in Nat /\ file'[i].of \in 1 .. w.n - 1
          BY <1>0, <3>2, <4>1, <4>2
        <5> QED
          BY <5>1
      <4>3. CASE j # w.size + 1
        <5>1. j \in 1 .. Len(file) /\ file'[j] = file[j]
          BY <1>0, <1>4, <3>1, <4>3
        <5> QED
          BY <2>0, <4>1, <5>1 DEF Ordered
      <4> QED
        BY <4>2, <4>3
    <3> QED
      BY <1>0, <2>0, <2>1, <3>1, <3>2, <3>4, <3>5, <3>6
  <2>2. CASE w.pc = "sstat"
    <3>1. Len(file) = w.size + 1 /\ Len(file') = w.size + 2 /\ file[w.size + 1].of = w.n
      BY <1>0, <1>4, <1>6, <2>2 DEF RawInv, FileInv
    <3>2. file'[w.size + 2] = Cell("sstat", w.n) /\ file'[w.size + 1].of = w.n
      BY <1>0, <1>4, <2>2, <3>1
    <3>3. RightCell(file', w.size + 2)
      BY <2>a, <3>2
    <3>4. Shaped(file')
      <4>1. \A j \in 1 .. Len(file') : j > Len(file) => j = w.size + 2
        BY <1>0, <3>1
      <4>2. \A j \in 1 .. Len(file') : j > Len(file) => RightCell(file', j)
        BY <3>3, <4>1
      <4>3. Len(file) \in 0 .. Len(file) /\ file \in Seq(CellSet) /\ file' \in Seq(CellSet)
        BY <1>0, <1>4, <3>1
      <4>4. \A j \in 1 .. Len(file') : j <= Len(file) => file'[j] = file[j]
        BY <1>0, <1>4
      <4> QED
        BY <2>0, <4>2, <4>3, <4>4, ShapedGrows
    <3>a. \A j \in 1 .. Len(file') : j % 4 = 2 => j \in 1 .. Len(file) /\ file'[j] = file[j]
      <4> SUFFICES ASSUME NEW j \in 1 .. Len(file'), j % 4 = 2
                   PROVE  j \in 1 .. Len(file) /\ file'[j] = file[j]
        OBVIOUS
      <4>1. j \in Nat /\ j # w.size + 2
        BY <1>0, <2>a, <3>1
      <4>2. j \in 1 .. Len(file)
        <5>1. PICK s \in Nat : s = w.size
          BY <1>0
        <5> QED
          BY <3>1, <4>1, <5>1
      <4> QED
        BY <1>4, <4>2
    <3>5. \A j \in 1 .. Len(file') : j % 4 = 2 => file'[j].of \in 1 .. w.n
      BY <2>0, <2>2, <3>a
    <3>6. Ordered(file')
      BY <2>0, <3>a DEF Ordered
    <3> QED
      BY <1>0, <2>0, <2>2, <3>1, <3>2, <3>4, <3>5, <3>6
  <2>3. CASE w.pc = "tstat"
    <3>1. Len(file) = w.size + 2 /\ Len(file') = w.size + 4 /\ file[w.size + 1].of = w.n
      BY <1>0, <1>4, <1>6, <2>3 DEF RawInv, FileInv
    <3>2. file'[w.size + 3] = Cell("tstat", w.n) /\ file'[w.size + 4] = Cell("tend", w.n)
      BY <1>0, <1>4, <2>3, <3>1
    <3>3. file'[w.size + 3].of = w.n /\ file'[w.size + 2].of = w.n
      <4>1. RightCell(file, w.size + 2)
        BY <1>0, <2>0, <3>1 DEF Shaped
      <4>2. file[w.size + 2].of = w.n
        <5>1. file[w.size + 2] = Cell("sstat", file[w.size + 1].of)
          BY <2>a, <4>1
        <5> QED
          BY <3>1, <5>1 DEF Cell
      <4> QED
        BY <1>0, <1>4, <3>1, <3>2, <4>2 DEF Cell
    <3>4. RightCell(file', w.size + 3) /\ RightCell(file', w.size + 4)
      BY <2>a, <3>2, <3>3
    <3>5. Shaped(file')
      <4>1. \A j \in 1 .. Len(file') : j > Len(file) => j = w.size + 3 \/ j = w.size + 4
        BY <1>0, <3>1
      <4>2. \A j \in 1 .. Len(file') : j > Len(file) => RightCell(file', j)
        BY <3>4, <4>1
      <4> QED
        BY <1>0, <1>4, <2>0, <4>2, ShapedGrows
    <3>a. ASSUME NEW j \in 1 .. Len(file'), j % 4 = 2 PROVE j \in 1 .. Len(file) /\ file'[j] = file[j]
      <4>1. j # w.size + 3 /\ j # w.size + 4
        BY <1>0, <2>a, <3>a
      <4>2. j \in 1 .. Len(file)
        BY <1>0, <3>1, <4>1
      <4> QED
        BY <1>4, <4>2
    <3>6. \A j \in 1 .. Len(file') : j % 4 = 2 => file'[j].of \in 1 .. w.n
      BY <2>0, <2>3, <3>a
    <3>7. Ordered(file')
      BY <2>0, <3>a DEF Ordered
    <3> QED
      BY <1>0, <2>0, <2>3, <3>1, <3>5, <3>6, <3>7
  <2> QED
    BY <1>0, <2>1, <2>2, <2>3 DEF Busy
<1>7. FileInv'
  <2> SUFFICES ASSUME ~torn PROVE FileInv'
    BY <1>1 DEF FileInv
  <2>1. (w.size + 4) % 4 = 1
    BY <1>0, <1>6
  <2>2. CASE w.pc = "rec"
    BY <1>0, <1>1, <1>2, <1>3, <1>6, <2>2 DEF FileInv, Busy
  <2>3. CASE w.pc = "sstat"
    BY <1>0, <1>1, <1>2, <1>3, <1>6, <2>3 DEF FileInv, Busy
  <2>4. CASE w.pc = "tstat"
    BY <1>0, <1>1, <1>2, <1>3, <1>6, <2>1, <2>4 DEF FileInv, Busy
  <2> QED
    BY <1>0, <2>2, <2>3, <2>4 DEF Busy
<1>8. ~torn' => ~torn /\ Kept <= Kept' /\ \A j \in 1 .. Kept : file'[j] = file[j]
  BY <1>0, <1>1, <1>2, <1>3, <1>4, <1>6 DEF Kept, Busy
<1>9. PlaceInv'
  BY <1>1, <1>5, <1>7, <1>8, PlaceStays DEF RawInv
<1> QED
  BY <1>1, <1>5, <1>7, <1>9 DEF RawInv, ReaderTypes, ListInv

\* A short write, or the end of the writer between two writes: the sample may
\* be incomplete, which torn remembers.
LEMMA BrokenStep ==
  ASSUME RawAssumption, RawInv, WriteShort \/ WriterKilled
  PROVE  RawInv'
<1>0. /\ file \in Seq(CellSet) /\ Len(file) \in Nat /\ torn \in BOOLEAN /\ w.n \in 0 .. MaxSamples
      /\ w.pc \in Busy \cup {"closed", "idle"} /\ w.size \in Nat
      /\ w \in [pc : Busy \cup {"closed", "idle"}, size : Nat, n : 0 .. MaxSamples]
  BY DEF RawInv, WriterTypes
<1>1. UNCHANGED <<rd, shown>>
  BY DEF WriteShort, WriterKilled
<1>2. CASE WriteShort
  <2>1. Cell("tstat", w.n) \in CellSet
    BY <1>0 DEF Cell, CellSet
  <2>2. torn' = TRUE /\ file' \in Seq(CellSet)
    BY <1>0, <1>2, <2>1 DEF WriteShort
  <2>3. w' \in [pc : Busy \cup {"closed", "idle"}, size : Nat, n : 0 .. MaxSamples]
    BY <1>0, <1>2 DEF WriteShort
  <2>4. w'.pc = "idle"
    BY <1>0, <1>2 DEF WriteShort
  <2> QED
    BY <1>1, <2>2, <2>3, <2>4 DEF RawInv, WriterTypes, FileInv, PlaceInv, ReaderTypes, ListInv, Busy
<1>3. CASE WriterKilled
  <2>1. /\ w.pc # "closed" /\ torn' = (torn \/ w.pc \in {"sstat", "tstat"})
        /\ w' = [w EXCEPT !.pc = "closed"] /\ file' = file
    BY <1>3 DEF WriterKilled
  <2>2. w'.pc = "closed" /\ w'.n = w.n
    BY <1>0, <2>1
  <2>3. WriterTypes'
    BY <1>0, <2>1, <2>2 DEF WriterTypes, Busy
  <2>4. ~torn' => ~torn /\ w.pc \in {"idle", "rec"}
    BY <1>0, <2>1 DEF Busy
  <2>5. ~torn' => /\ Shaped(file) /\ Ordered(file) /\ Len(file) % 4 = 1 /\ Kept = Len(file)
                  /\ \A j \in 1 .. Len(file) : j % 4 = 2 => file[j].of \in 1 .. w.n
    BY <1>0, <2>4 DEF RawInv, FileInv, Busy, Kept
  <2>6. FileInv'
    BY <2>1, <2>2, <2>5 DEF FileInv, Busy
  <2>7. ~torn' => Kept' = Len(file)
    BY <2>1, <2>2 DEF Kept, Busy
  <2>8. PlaceInv'
    BY <1>0, <1>1, <2>1, <2>3, <2>4, <2>5, <2>6, <2>7, PlaceStays DEF RawInv
  <2> QED
    BY <1>1, <2>3, <2>6, <2>8 DEF RawInv, ReaderTypes, ListInv
<1> QED
  BY <1>2, <1>3

\* A write fails: the roll back takes away what the sample had written.
LEMMA RollBackStep ==
  ASSUME RawAssumption, RawInv, WriteFails
  PROVE  RawInv'
<1>0. /\ file \in Seq(CellSet) /\ Len(file) \in Nat /\ w.n \in 0 .. MaxSamples /\ w.pc \in Busy /\ w.size \in Nat
      /\ w \in [pc : Busy \cup {"closed", "idle"}, size : Nat, n : 0 .. MaxSamples]
  BY DEF WriteFails, RawInv, WriterTypes, Busy
<1>1. /\ file' = SubSeq(file, 1, w.size) /\ w' = [w EXCEPT !.pc = "closed"] /\ UNCHANGED <<torn, rd, shown>>
  BY DEF WriteFails, RolledBack
<1>2. w'.pc = "closed" /\ w'.n = w.n
  BY <1>0, <1>1
<1>3. ASSUME w.size <= Len(file)
      PROVE  file' \in Seq(CellSet) /\ Len(file') = w.size /\ \A j \in 1 .. w.size : file'[j] = file[j]
  <2>1. \A j \in 1 .. w.size : file[j] \in CellSet
    BY <1>0, <1>3
  <2> QED
    BY <1>0, <1>1, <2>1, SubSeqProperties
<1>4. file' \in Seq(CellSet) /\ Len(file') = w.size /\ \A j \in 1 .. w.size : file'[j] = file[j]
  BY <1>0, <1>3 DEF RawInv, WriterTypes
<1>5. WriterTypes'
  BY <1>0, <1>1, <1>4 DEF RawInv, WriterTypes, Busy
<1>6. ASSUME ~torn
      PROVE  /\ w.size % 4 = 1 /\ w.size <= Len(file) /\ Shaped(file) /\ Ordered(file)
             /\ \A j \in 1 .. Len(file) : j % 4 = 2 => file[j].of \in 1 .. w.n
  BY <1>0, <1>6 DEF RawInv, WriterTypes, FileInv
<1>7. ASSUME ~torn
      PROVE  /\ Shaped(file') /\ Ordered(file')
             /\ \A j \in 1 .. Len(file') : j % 4 = 2 => file'[j].of \in 1 .. w.n
  <2>1. Shaped(file')
    BY <1>0, <1>4, <1>6, <1>7, ShapedGrows
  <2>2. \A j \in 1 .. Len(file') : j \in 1 .. Len(file) /\ file'[j] = file[j]
    BY <1>0, <1>4, <1>6, <1>7
  <2> QED
    BY <1>6, <1>7, <2>1, <2>2 DEF Ordered
<1>8. FileInv'
  BY <1>1, <1>2, <1>4, <1>6, <1>7 DEF FileInv, Busy
<1>9. ~torn' => ~torn /\ Kept <= Kept' /\ \A j \in 1 .. Kept : file'[j] = file[j]
  BY <1>0, <1>1, <1>2, <1>4 DEF Kept, Busy
<1>10. PlaceInv'
  BY <1>1, <1>5, <1>8, <1>9, PlaceStays DEF RawInv
<1> QED
  BY <1>1, <1>5, <1>8, <1>10 DEF RawInv, ReaderTypes, ListInv

---------------------------------------------------------------------------
(* The reader.                                                               *)

\* Every offset that is read is the one of a record.
LEMMA PosIsPlace ==
  ASSUME ReaderTypes, ListInv, rd.pc \in {"scan", "shown"}
  PROVE  /\ rd.pos \in Nat /\ rd.pos % 4 = 1 /\ rd.offcur \in Nat
         /\ \A i \in 0 .. rd.offcur - 1 : rd.offlist[i] \in Nat
<1>0. rd.pos \in Nat /\ rd.offcur \in Nat /\ rd.offlist \in OffLists
  BY DEF ReaderTypes, ReaderRecord
<1>1. PICK D \in SUBSET Nat : rd.offlist \in [D -> Nat]
  BY <1>0 DEF OffLists
<1>2. \A i \in 0 .. rd.offcur - 1 : rd.offlist[i] \in Nat
  BY <1>1 DEF ListInv
<1>3. CASE rd.pos = 1
  BY <1>0, <1>2, <1>3
<1>4. CASE rd.pos # 1
  <2>1. PICK n \in Nat : n = rd.offlist[rd.offcur - 1] /\ n % 4 = 1
    BY <1>0, <1>2, <1>4 DEF ListInv
  <2>2. rd.pos = n + 4
    BY <1>0, <1>4, <2>1 DEF ListInv
  <2>3. (n + 4) % 4 = 1
    BY <2>1
  <2> QED
    BY <1>0, <1>2, <2>2, <2>3
<1> QED
  BY <1>3, <1>4

\* The list with the offset of the record that was read.
LEMMA RegisteredList ==
  ASSUME ReaderTypes
  PROVE  /\ Registered \in OffLists /\ DOMAIN Registered = DOMAIN rd.offlist \cup {rd.offcur}
         /\ Registered[rd.offcur] = rd.pos
         /\ \A i \in DOMAIN rd.offlist : i # rd.offcur => Registered[i] = rd.offlist[i]
<1>0. rd.pos \in Nat /\ rd.offcur \in Nat /\ rd.offlist \in OffLists
  BY DEF ReaderTypes, ReaderRecord
<1>1. PICK D \in SUBSET Nat : rd.offlist \in [D -> Nat]
  BY <1>0 DEF OffLists
<1>2. DOMAIN rd.offlist = D
  BY <1>1
<1>3. Registered = [i \in D \cup {rd.offcur} |-> IF i = rd.offcur THEN rd.pos ELSE rd.offlist[i]]
  BY <1>2 DEF Registered
<1>4. Registered \in [D \cup {rd.offcur} -> Nat]
  BY <1>0, <1>1, <1>3
<1>5. Registered \in OffLists
  BY <1>0, <1>4 DEF OffLists
<1> QED
  BY <1>2, <1>3, <1>5

\* A record was read: its offset is in the list, and the next one is behind
\* its four cells.
LEMMA ListGrows ==
  ASSUME ReaderTypes, ListInv, rd.pc = "scan", rd'.offlist = Registered, rd'.offcur = rd.offcur + 1,
         rd'.pos = rd.pos + 4
  PROVE  ListInv'
<1>0. /\ rd.pos \in Nat /\ rd.pos % 4 = 1 /\ rd.offcur \in Nat
      /\ \A i \in 0 .. rd.offcur - 1 : rd.offlist[i] \in Nat
  BY PosIsPlace
<1>1. /\ DOMAIN rd'.offlist = DOMAIN rd.offlist \cup {rd.offcur}
      /\ rd'.offlist[rd.offcur] = rd.pos
      /\ \A i \in DOMAIN rd.offlist : i # rd.offcur => rd'.offlist[i] = rd.offlist[i]
  BY RegisteredList
<1>2. /\ 0 \in DOMAIN rd.offlist /\ rd.offlist[0] = 1
      /\ \A i \in 0 .. rd.offcur - 1 : i \in DOMAIN rd.offlist /\ rd.offlist[i] % 4 = 1
      /\ \A i \in 1 .. rd.offcur - 1 :
           rd.offlist[i] = rd.offlist[i - 1] + 4 \/ (i = 1 /\ rd.offlist[1] = 1)
      /\ rd.offcur = 0 => rd.pos = 1
      /\ rd.offcur > 0 => \/ rd.pos = rd.offlist[rd.offcur - 1] + 4
                          \/ rd.offcur = 1 /\ rd.pos = 1
  BY DEF ListInv
<1>3. 0 \in DOMAIN rd'.offlist /\ rd'.offlist[0] = 1
  BY <1>1, <1>2
<1>4. ASSUME NEW i \in 0 .. rd.offcur PROVE i \in DOMAIN rd'.offlist /\ rd'.offlist[i] % 4 = 1
  <2>1. CASE i = rd.offcur
    BY <1>0, <1>1, <2>1
  <2>2. CASE i # rd.offcur
    <3>1. i \in 0 .. rd.offcur - 1
      BY <1>0, <2>2
    <3>2. i \in DOMAIN rd.offlist /\ rd.offlist[i] % 4 = 1
      BY <1>2, <3>1
    <3>3. rd'.offlist[i] = rd.offlist[i]
      BY <1>1, <2>2, <3>2
    <3> QED
      BY <1>1, <3>2, <3>3
  <2> QED
    BY <2>1, <2>2
<1>5. ASSUME NEW i \in 1 .. rd.offcur
      PROVE  rd'.offlist[i] = rd'.offlist[i - 1] + 4 \/ (i = 1 /\ rd'.offlist[1] = 1)
  <2>0. i - 1 \in 0 .. rd.offcur - 1 /\ rd'.offlist[i - 1] = rd.offlist[i - 1]
    <3>1. i - 1 \in 0 .. rd.offcur - 1 /\ i - 1 # rd.offcur
      BY <1>0
    <3> QED
      BY <1>1, <1>2, <3>1
  <2>1. CASE i = rd.offcur
    BY <1>0, <1>1, <1>2, <2>0, <2>1
  <2>2. CASE i # rd.offcur
    <3>1. i \in 1 .. rd.offcur - 1 /\ i \in 0 .. rd.offcur - 1
      BY <1>0, <2>2
    <3>2. rd'.offlist[i] = rd.offlist[i]
      BY <1>1, <1>2, <2>2, <3>1
    <3> QED
      BY <1>2, <2>0, <3>1, <3>2
  <2> QED
    BY <2>1, <2>2
<1>6. rd'.offcur - 1 = rd.offcur /\ rd'.offcur > 0 /\ rd'.offcur # 0
  BY <1>0
<1>7. rd'.pos = rd'.offlist[rd'.offcur - 1] + 4
  BY <1>1, <1>6
<1> QED
  BY <1>3, <1>4, <1>5, <1>6, <1>7 DEF ListInv

\* The reader goes back to a place of the list.
LEMMA ListSeeks ==
  ASSUME ReaderTypes, ListInv, rd.pc \in {"scan", "shown"}, NEW k \in Nat, k < rd.offcur \/ k = 0,
         rd'.pc = "scan", rd'.offlist = rd.offlist, rd'.offcur = k, rd'.pos = rd.offlist[k]
  PROVE  ListInv'
<1>0. rd.offcur \in Nat
  BY PosIsPlace
<1>1. /\ 0 \in DOMAIN rd.offlist /\ rd.offlist[0] = 1
      /\ \A i \in 0 .. rd.offcur - 1 : i \in DOMAIN rd.offlist /\ rd.offlist[i] % 4 = 1
      /\ \A i \in 1 .. rd.offcur - 1 :
           rd.offlist[i] = rd.offlist[i - 1] + 4 \/ (i = 1 /\ rd.offlist[1] = 1)
  BY DEF ListInv
<1>2. \A i \in 0 .. k - 1 : i \in 0 .. rd.offcur - 1
  BY <1>0
<1>3. \A i \in 1 .. k - 1 : i \in 1 .. rd.offcur - 1
  BY <1>0
<1>4. k > 0 => rd'.pos = rd'.offlist[k - 1] + 4 \/ (k = 1 /\ rd'.pos = 1)
  <2>1. k > 0 => k \in 1 .. rd.offcur - 1
    BY <1>0
  <2> QED
    BY <1>1, <2>1
<1> QED
  BY <1>1, <1>2, <1>3, <1>4 DEF ListInv

\* The reader starts again with the first record.
LEMMA ListResets ==
  ASSUME ReaderTypes, ListInv, rd.pc \in {"scan", "shown"},
         rd'.pc = "scan", rd'.offlist = rd.offlist, rd'.offcur = 1, rd'.pos = rd.offlist[0]
  PROVE  ListInv'
<1>1. 0 \in DOMAIN rd.offlist /\ rd.offlist[0] = 1 /\ 1 % 4 = 1
  BY DEF ListInv
<1> QED
  BY <1>1 DEF ListInv

\* The reader goes on, or ends.
LEMMA ListRests ==
  ASSUME ReaderTypes, ListInv, rd.pc = "shown" \/ rd'.pc \notin {"scan", "shown"},
         rd'.pc # "shown", rd'.offlist = rd.offlist, rd'.offcur = rd.offcur, rd'.pos = rd.pos
  PROVE  ListInv'
  BY DEF ListInv

\* A sample that can be shown will not be rolled back.
LEMMA ShownIsKept ==
  ASSUME WriterTypes, FileInv, ~torn, NEW o \in Nat, o % 4 = 1, o + 4 <= Len(file)
  PROVE  o + 4 <= Kept
<1>0. Len(file) \in Nat /\ w.size \in Nat /\ w.pc \in Busy \cup {"closed", "idle"}
  BY DEF WriterTypes
<1>1. CASE w.pc \in Busy
  <2>1. PICK s \in Nat : s = w.size /\ s % 4 = 1 /\ Len(file) <= s + 2
    BY <1>0, <1>1 DEF FileInv, Busy
  <2>2. o + 4 <= s
    BY <1>0, <2>1
  <2> QED
    BY <1>1, <2>1, <2>2 DEF Kept
<1>2. CASE w.pc \notin Busy
  BY <1>2 DEF Kept
<1> QED
  BY <1>1, <1>2

\* The readers of the file leave it as it is.
LEMMA ReaderFrame ==
  ASSUME RawInv, UNCHANGED <<file, w, torn>>
  PROVE  WriterTypes' /\ FileInv' /\ Kept' = Kept
  BY DEF RawInv, WriterTypes, FileInv, Kept

\* The fields of the reader.
LEMMA ReaderFields ==
  ASSUME RawInv
  PROVE  /\ rd.pc \in {"off", "scan", "shown", "done", "failed"} /\ rd.pos \in Nat /\ rd.offlist \in OffLists
         /\ rd.offcur \in Nat /\ rd.lastcmd \in Commands \cup {"X", "skip", "branch"}
         /\ rd.begintime \in 0 .. MaxSamples /\ rd.endtime \in EndTimes \cup {0} /\ rd.sec \in 0 .. MaxSamples
         /\ Len(file) \in Nat /\ \A j \in 1 .. Len(file) : file[j] \in CellSet /\ file[j].of \in 0 .. MaxSamples
<1>1. rd \in ReaderRecord
  BY DEF RawInv, ReaderTypes
<1>2. file \in Seq(CellSet)
  BY DEF RawInv, WriterTypes
<1>3. Len(file) \in Nat /\ \A j \in 1 .. Len(file) : file[j] \in CellSet
  BY <1>2
<1>4. \A c \in CellSet : c.of \in 0 .. MaxSamples
  BY DEF CellSet
<1>5. rd.begintime \in 0 .. MaxSamples /\ rd.sec \in 0 .. MaxSamples /\ rd.endtime \in EndTimes \cup {0}
  BY <1>1 DEF ReaderRecord
<1>6. /\ rd.pc \in {"off", "scan", "shown", "done", "failed"} /\ rd.pos \in Nat /\ rd.offlist \in OffLists
      /\ rd.offcur \in Nat /\ rd.lastcmd \in Commands \cup {"X", "skip", "branch"}
  BY <1>1 DEF ReaderRecord
<1> QED
  BY <1>3, <1>4, <1>5, <1>6

\* The reader opens the file.
LEMMA ReadOpens ==
  ASSUME RawAssumption, RawInv, rawread
  PROVE  RawInv'
<1>0. UNCHANGED <<file, w, torn, shown>>
  BY DEF rawread
<1>1. PICK b \in 0 .. MaxSamples, e \in EndTimes :
        rd' = [pc |-> "scan", pos |-> 1, offlist |-> [i \in 0 .. 0 |-> 1], offcur |-> 1, lastcmd |-> "X",
               begintime |-> b, endtime |-> e, sec |-> 0]
  BY DEF rawread
<1>2. /\ rd'.pc = "scan" /\ rd'.pos = 1 /\ rd'.offcur = 1 /\ rd'.lastcmd = "X"
      /\ rd'.offlist = [i \in 0 .. 0 |-> 1]
  BY <1>1
<1>3. rd'.offlist \in OffLists /\ DOMAIN rd'.offlist = {0} /\ rd'.offlist[0] = 1
  <2>1. rd'.offlist \in [{0} -> Nat]
    BY <1>2
  <2>2. {0} \in SUBSET Nat
    OBVIOUS
  <2> QED
    BY <1>2, <2>1, <2>2 DEF OffLists
<1>4. ReaderTypes'
  <2>1. rd'.offlist \in OffLists /\ 0 \in 0 .. MaxSamples
    BY <1>3 DEF RawAssumption
  <2> HIDE DEF OffLists
  <2>2. rd' \in ReaderRecord
    BY <1>1, <1>2, <2>1 DEF ReaderRecord
  <2> QED
    BY <1>0, <2>2 DEF RawInv, ReaderTypes
<1>5. ListInv'
  BY <1>2, <1>3 DEF ListInv
<1>6. PlaceInv'
  BY <1>2 DEF PlaceInv
<1> QED
  BY <1>0, <1>4, <1>5, <1>6, ReaderFrame DEF RawInv

\* A sample before the begin time is skipped, or one is shown.
LEMMA ReadSkips ==
  ASSUME RawAssumption, RawInv, Skip
  PROVE  RawInv'
<1>0. rd.pc = "scan" /\ UNCHANGED <<file, w, torn, shown>>
  BY DEF Skip
<1>1. rd' = [rd EXCEPT !.offlist = Registered, !.offcur = @ + 1, !.pos = @ + 4, !.lastcmd = "skip"]
  BY DEF Skip
<1>a. rd \in ReaderRecord
  BY DEF RawInv, ReaderTypes
<1>2. /\ rd'.pc = "scan" /\ rd'.lastcmd = "skip" /\ rd'.offlist = Registered /\ rd'.offcur = rd.offcur + 1
      /\ rd'.pos = rd.pos + 4
  BY <1>0, <1>1, <1>a DEF ReaderRecord
<1>3. ReaderTypes'
  <2>1. Registered \in OffLists
    BY RegisteredList DEF RawInv
  <2>a. rd.offcur + 1 \in Nat /\ rd.pos + 4 \in Nat
    BY ReaderFields
  <2>2. rd' \in ReaderRecord
    BY <1>1, <1>a, <2>1, <2>a DEF ReaderRecord
  <2> QED
    BY <1>0, <2>2 DEF RawInv, ReaderTypes
<1>4. ListInv'
  BY <1>0, <1>2, ListGrows DEF RawInv
<1>5. PlaceInv'
  BY <1>2 DEF PlaceInv
<1> QED
  BY <1>0, <1>3, <1>4, <1>5, ReaderFrame DEF RawInv

\* A sample is shown: it is whole, so that it stays in the file.
LEMMA ReadShows ==
  ASSUME RawAssumption, RawInv, Show
  PROVE  RawInv'
<1>0. rd.pc = "scan" /\ UNCHANGED <<file, w, torn>> /\ rd.pos + 4 <= Len(file)
  <2>1. At(rd.pos + 3, "tend") /\ rd.pos \in Nat /\ Len(file) \in Nat
    BY ReaderFields DEF Show
  <2> QED
    BY <2>1 DEF At, Show
<1>1. rd' = [rd EXCEPT !.offlist = Registered, !.offcur = @ + 1, !.pos = @ + 4, !.begintime = 0,
                       !.pc = "shown", !.sec = Rec.of]
  BY DEF Show
<1>2. shown' = [n |-> Rec.of, cmd |-> rd.lastcmd, last |-> IsLast(rd.pos + 4)]
  BY DEF Show
<1>a. rd \in ReaderRecord
  BY DEF RawInv, ReaderTypes
<1>b. Rec.of \in 0 .. MaxSamples
  <2>1. rd.pos + 1 \in 1 .. Len(file)
    BY <1>0, ReaderFields
  <2> QED
    BY <2>1, ReaderFields DEF Rec
<1>3. /\ rd'.pc = "shown" /\ rd'.offlist = Registered /\ rd'.offcur = rd.offcur + 1
      /\ rd'.pos = rd.pos + 4
  BY <1>0, <1>1, <1>a DEF ReaderRecord
<1>4. ReaderTypes'
  <2>1. Registered \in OffLists
    BY RegisteredList DEF RawInv
  <2>2. rd.offcur + 1 \in Nat /\ rd.pos + 4 \in Nat /\ 0 \in 0 .. MaxSamples
    BY ReaderFields DEF RawAssumption
  <2>3. rd' \in ReaderRecord
    BY <1>1, <1>a, <1>b, <2>1, <2>2 DEF ReaderRecord
  <2>4. IsLast(rd.pos + 4) \in BOOLEAN
    BY DEF IsLast
  <2>5. rd.lastcmd \in Commands \cup {"X", "skip", "branch", "start"}
    BY ReaderFields
  <2> HIDE DEF IsLast
  <2>6. shown' \in [n : 0 .. MaxSamples, cmd : Commands \cup {"X", "skip", "branch", "start"}, last : BOOLEAN]
    BY <1>2, <1>b, <2>4, <2>5
  <2> QED
    BY <2>3, <2>6 DEF ReaderTypes
<1>5. ListInv'
  BY <1>0, <1>3, ListGrows DEF RawInv
<1>6. PlaceInv'
  <2> SUFFICES ASSUME ~torn PROVE ShownAt(rd.offlist[rd.offcur - 1])'
    BY <1>0, <1>3 DEF PlaceInv
  <2>1. PICK o \in Nat : o = rd.pos /\ o % 4 = 1
    BY <1>0, PosIsPlace DEF RawInv
  <2>2. rd'.offcur - 1 = rd.offcur
    BY <1>3, ReaderFields
  <2>3. rd'.offlist[rd'.offcur - 1] = o
    BY <1>3, <2>1, <2>2, RegisteredList DEF RawInv
  <2>4. o + 4 <= Kept
    BY <1>0, <2>1, ShownIsKept DEF RawInv
  <2>5. file'[o + 1].of = shown'.n
    BY <1>0, <1>2, <2>1 DEF Rec
  <2>6. ShownAt(o)'
    BY <1>0, <2>1, <2>4, <2>5, ReaderFrame DEF ShownAt
  <2> QED
    BY <2>3, <2>6 DEF ShownAt
<1> QED
  BY <1>0, <1>4, <1>5, <1>6, ReaderFrame DEF RawInv

\* The reader ends, at a sample after the end time or at one it cannot read.
LEMMA ReadEnds ==
  ASSUME RawAssumption, RawInv, PastEnd \/ Fail
  PROVE  RawInv'
<1>0. UNCHANGED <<file, w, torn, shown>>
  BY DEF PastEnd, Fail
<1>a. rd \in ReaderRecord
  BY DEF RawInv, ReaderTypes
<1>1. PICK l \in {"done", "failed"} : rd' = [rd EXCEPT !.pc = l]
  BY DEF PastEnd, Fail
<1>2. rd'.pc \in {"done", "failed"} /\ rd'.offlist = rd.offlist /\ rd'.offcur = rd.offcur /\ rd'.pos = rd.pos
  BY <1>1, <1>a DEF ReaderRecord
<1>3. ReaderTypes'
  BY <1>0, <1>1, <1>a DEF RawInv, ReaderTypes, ReaderRecord
<1>4. ListInv' /\ PlaceInv'
  BY <1>2 DEF ListInv, PlaceInv
<1> QED
  BY <1>0, <1>3, <1>4, ReaderFrame DEF RawInv

\* What a seek does to the fields of the reader.
LEMMA SeekFields ==
  ASSUME RawInv, rd.pc \in {"scan", "shown"}, NEW k \in Nat, k < rd.offcur \/ k = 0
  PROVE  /\ Seek(k) \in ReaderRecord /\ Seek(k).offlist = rd.offlist /\ Seek(k).offcur = k
         /\ Seek(k).pos = rd.offlist[k] /\ Seek(k).pc = rd.pc /\ Seek(k).lastcmd = rd.lastcmd
         /\ rd.offlist[k] \in Nat /\ rd.offlist[0] = 1
<1>a. rd \in ReaderRecord
  BY DEF RawInv, ReaderTypes
<1>1. rd.offlist[0] = 1
  BY DEF RawInv, ListInv
<1>2. rd.offlist[k] \in Nat
  <2>1. CASE k = 0
    BY <1>1, <2>1
  <2>2. CASE k # 0
    BY <2>2, PosIsPlace DEF RawInv
  <2> QED
    BY <2>1, <2>2
<1> QED
  BY <1>a, <1>1, <1>2 DEF Seek, ReaderRecord

\* The offset of the sample that is shown.
LEMMA LastShown ==
  ASSUME RawInv, rd.pc = "shown"
  PROVE  \E o \in Nat : /\ o = rd.offlist[rd.offcur - 1] /\ rd.pos = o + 4 /\ o % 4 = 1 /\ rd.offcur > 0
                        /\ ~torn => ShownAt(o) /\ o \in 1 .. Len(file)
<1>1. rd.offcur \in Nat /\ rd.offcur > 0
  BY ReaderFields DEF RawInv, ListInv
<1>2. rd.offcur - 1 \in 0 .. rd.offcur - 1
  BY <1>1
<1>3. PICK o \in Nat : o = rd.offlist[rd.offcur - 1] /\ o % 4 = 1
  BY <1>2, PosIsPlace DEF RawInv, ListInv
<1>4. rd.pos = o + 4
  BY <1>1, <1>3 DEF RawInv, ListInv
<1>5. ASSUME ~torn PROVE ShownAt(o) /\ o \in 1 .. Len(file)
  <2>1. ShownAt(o)
    BY <1>3, <1>5 DEF RawInv, PlaceInv
  <2>2. Kept \in 0 .. Len(file) /\ Len(file) \in Nat
    BY <1>5, KeptBound, ReaderFields DEF RawInv
  <2>3. o + 4 <= Kept
    BY <2>1 DEF ShownAt
  <2>4. o # 0
    BY <1>3
  <2> QED
    BY <2>1, <2>2, <2>3, <2>4
<1> QED
  BY <1>1, <1>3, <1>4, <1>5

\* The command to go back one sample.
LEMMA CommandPrev ==
  ASSUME RawAssumption, RawInv, rd.pc = "shown", UNCHANGED <<file, w, torn, shown>>, "prev" \in Commands,
         rd' = [Seek(PrevPlace) EXCEPT !.pc = "scan", !.lastcmd = "prev"]
  PROVE  RawInv'
<1>1. PICK o \in Nat : /\ o = rd.offlist[rd.offcur - 1] /\ rd.pos = o + 4 /\ o % 4 = 1 /\ rd.offcur > 0
                       /\ ~torn => ShownAt(o) /\ o \in 1 .. Len(file)
  BY LastShown
<1>2. PICK k \in Nat : k = PrevPlace /\ k < rd.offcur /\ (rd.offcur >= 2 => k = rd.offcur - 2) /\ (rd.offcur < 2 => k = 0)
  BY <1>1, ReaderFields DEF PrevPlace
<1>3. /\ Seek(k) \in ReaderRecord /\ Seek(k).offlist = rd.offlist /\ Seek(k).offcur = k
      /\ Seek(k).pos = rd.offlist[k] /\ rd.offlist[k] \in Nat /\ rd.offlist[0] = 1
  BY <1>2, SeekFields
<1>4. /\ rd' \in ReaderRecord /\ rd'.pc = "scan" /\ rd'.lastcmd = "prev" /\ rd'.offlist = rd.offlist
      /\ rd'.offcur = k /\ rd'.pos = rd.offlist[k]
  BY <1>2, <1>3 DEF ReaderRecord
<1>5. ReaderTypes'
  BY <1>4 DEF RawInv, ReaderTypes
<1>6. ListInv'
  BY <1>2, <1>4, ListSeeks DEF RawInv
<1>7. rd'.pos = o - 4 \/ (rd'.pos = 1 /\ o = 1)
  <2>0. rd.offcur \in Nat
    BY ReaderFields
  <2>1. CASE rd.offcur = 1
    BY <1>1, <1>2, <1>3, <1>4, <2>1
  <2>2. CASE rd.offcur > 1
    <3>0. rd.offcur - 1 \in 1 .. rd.offcur - 1 /\ rd.offcur - 1 - 1 = k
      BY <1>2, <2>0, <2>2
    <3>1. PICK i \in 1 .. rd.offcur - 1 : i = rd.offcur - 1 /\ i - 1 = k
      BY <3>0
    <3>2. rd.offlist[i] = rd.offlist[i - 1] + 4 \/ (i = 1 /\ rd.offlist[1] = 1)
      BY DEF RawInv, ListInv
    <3> QED
      BY <1>1, <1>3, <1>4, <3>1, <3>2
  <2> QED
    BY <1>1, <2>0, <2>1, <2>2
<1>8. PlaceInv'
  <2> SUFFICES ASSUME ~torn
               PROVE  \E q \in 1 .. Len(file) : ShownAt(q)' /\ (rd'.pos = q - 4 \/ (rd'.pos = 1 /\ q = 1))
    BY <1>4 DEF PlaceInv
  <2>1. ShownAt(o)'
    BY <1>1 DEF ShownAt, Kept
  <2> QED
    BY <1>1, <1>7, <2>1
<1> QED
  BY <1>5, <1>6, <1>8, ReaderFrame DEF RawInv

\* The command to start again, or to go to a time before the sample shown.
LEMMA CommandReset ==
  ASSUME RawAssumption, RawInv, rd.pc = "shown", UNCHANGED <<file, w, torn, shown>>,
         NEW c \in Commands \cup {"branch"}, c \in {"reset", "branch"}, NEW b \in 0 .. MaxSamples,
         rd' = [Seek(0) EXCEPT !.pc = "scan", !.lastcmd = c, !.offcur = 1, !.begintime = b]
  PROVE  RawInv'
<1>1. PICK o \in Nat : ~torn => ShownAt(o) /\ o \in 1 .. Len(file)
  BY LastShown
<1>2. /\ Seek(0) \in ReaderRecord /\ Seek(0).offlist = rd.offlist
      /\ Seek(0).pos = rd.offlist[0] /\ rd.offlist[0] = 1
  BY SeekFields
<1>3. /\ rd' \in ReaderRecord /\ rd'.pc = "scan" /\ rd'.lastcmd = c /\ rd'.offlist = rd.offlist
      /\ rd'.offcur = 1 /\ rd'.pos = rd.offlist[0]
  BY <1>2 DEF ReaderRecord
<1>4. ReaderTypes'
  BY <1>3 DEF RawInv, ReaderTypes
<1>5. ListInv'
  BY <1>3, ListResets DEF RawInv
<1>6. PlaceInv'
  <2> SUFFICES ASSUME ~torn PROVE \E q \in 1 .. Len(file) : ShownAt(q)'
    BY <1>2, <1>3 DEF PlaceInv
  <2>1. ShownAt(o)'
    BY <1>1 DEF ShownAt, Kept
  <2> QED
    BY <1>1, <2>1
<1> QED
  BY <1>4, <1>5, <1>6, ReaderFrame DEF RawInv

\* The reader goes on behind the sample shown, or ends.
LEMMA CommandOn ==
  ASSUME RawAssumption, RawInv, rd.pc = "shown", UNCHANGED <<file, w, torn, shown>>,
         NEW c \in Commands \cup {"branch"}, c \notin {"prev", "reset"}, NEW b \in 0 .. MaxSamples,
         \/ rd' = [rd EXCEPT !.pc = "scan", !.lastcmd = c, !.begintime = b]
         \/ rd' = [rd EXCEPT !.pc = "done"]
  PROVE  RawInv'
<1>a. rd \in ReaderRecord
  BY DEF RawInv, ReaderTypes
<1>1. PICK o \in Nat : /\ o = rd.offlist[rd.offcur - 1] /\ rd.pos = o + 4 /\ rd.offcur > 0
                       /\ ~torn => ShownAt(o) /\ o \in 1 .. Len(file)
  BY LastShown
<1>2. /\ rd' \in ReaderRecord /\ rd'.pc \in {"scan", "done"} /\ (rd'.pc = "scan" => rd'.lastcmd = c)
      /\ rd'.offlist = rd.offlist /\ rd'.offcur = rd.offcur /\ rd'.pos = rd.pos
  BY <1>a DEF ReaderRecord
<1>3. ReaderTypes'
  BY <1>2 DEF RawInv, ReaderTypes
<1>4. ListInv'
  BY <1>2, ListRests DEF RawInv
<1>5. PlaceInv'
  <2> SUFFICES ASSUME ~torn
               PROVE  \E q \in 1 .. Len(file) :
                        ShownAt(q)' /\ rd'.pos = q + 4 /\ rd'.offcur > 0 /\ rd'.offlist[rd'.offcur - 1] = q
    BY <1>2 DEF PlaceInv
  <2>1. ShownAt(o)'
    BY <1>1 DEF ShownAt, Kept
  <2> QED
    BY <1>1, <1>2, <2>1
<1> QED
  BY <1>3, <1>4, <1>5, ReaderFrame DEF RawInv

\* Whatever the show function returns.
LEMMA CommandStep ==
  ASSUME RawAssumption, RawInv, NEW c \in Commands \ {"branch"}, Command(c)
  PROVE  RawInv'
<1>0. rd.pc = "shown" /\ UNCHANGED <<file, w, torn, shown>>
  BY DEF Command
<1>a. rd.begintime \in 0 .. MaxSamples /\ rd \in ReaderRecord
  BY ReaderFields DEF RawInv, ReaderTypes
<1>1. CASE c = "prev"
  BY <1>0, <1>1, CommandPrev DEF Command
<1>2. CASE c = "reset"
  <2>1. rd' = [Seek(0) EXCEPT !.pc = "scan", !.lastcmd = c, !.offcur = 1]
    BY <1>2 DEF Command
  <2>2. Seek(0) \in ReaderRecord /\ Seek(0).begintime = rd.begintime
    BY <1>0, <1>a, SeekFields DEF Seek, ReaderRecord
  <2>3. rd' = [Seek(0) EXCEPT !.pc = "scan", !.lastcmd = c, !.offcur = 1, !.begintime = rd.begintime]
    BY <2>1, <2>2 DEF ReaderRecord
  <2> QED
    BY <1>0, <1>2, <1>a, <2>3, CommandReset
<1>3. CASE c = "quit"
  BY <1>0, <1>3, <1>a, CommandOn DEF Command
<1>4. CASE c \notin {"prev", "reset", "quit"}
  <2>1. rd' = [rd EXCEPT !.pc = "scan", !.lastcmd = c]
    BY <1>4 DEF Command
  <2>2. rd' = [rd EXCEPT !.pc = "scan", !.lastcmd = c, !.begintime = rd.begintime]
    BY <1>a, <2>1 DEF ReaderRecord
  <2> QED
    BY <1>0, <1>4, <1>a, <2>2, CommandOn
<1> QED
  BY <1>1, <1>2, <1>3, <1>4

\* The user branches to a time.
LEMMA BranchStep ==
  ASSUME RawAssumption, RawInv, NEW b \in 1 .. MaxSamples, Branch(b)
  PROVE  RawInv'
<1>0. rd.pc = "shown" /\ UNCHANGED <<file, w, torn, shown>> /\ b \in 0 .. MaxSamples
  BY DEF Branch, RawAssumption
<1>1. CASE b < rd.sec
  BY <1>0, <1>1, CommandReset DEF Branch
<1>2. CASE ~(b < rd.sec)
  BY <1>0, <1>2, CommandOn DEF Branch
<1> QED
  BY <1>1, <1>2

\* At the end of the file the reader goes back to the record before: after
\* "next" that is the sample shown last.
LEMMA EndOfFileStep ==
  ASSUME RawAssumption, RawInv, EndOfFile
  PROVE  RawInv'
<1>0. rd.pc = "scan" /\ UNCHANGED <<file, w, torn, shown>> /\ rd.pos >= Len(file)
  BY DEF EndOfFile
<1>a. rd \in ReaderRecord
  BY DEF RawInv, ReaderTypes
<1>1. CASE rd.lastcmd = "none"
  <2>1. rd' = [rd EXCEPT !.pc = "done"]
    BY <1>1 DEF EndOfFile
  <2>2. rd' \in ReaderRecord /\ rd'.pc = "done"
    BY <1>a, <2>1 DEF ReaderRecord
  <2>3. ReaderTypes' /\ ListInv' /\ PlaceInv'
    BY <1>0, <2>2 DEF RawInv, ReaderTypes, ListInv, PlaceInv
  <2> QED
    BY <1>0, <2>3, ReaderFrame DEF RawInv
<1>2. CASE rd.lastcmd # "none"
  <2>0. rd' = [Seek(EndPlace) EXCEPT !.begintime = 0]
    BY <1>2 DEF EndOfFile
  <2>1. PICK k \in Nat : k = EndPlace /\ (k < rd.offcur \/ k = 0) /\ (rd.offcur > 0 => k = rd.offcur - 1)
    BY ReaderFields DEF EndPlace
  <2>2. /\ Seek(k) \in ReaderRecord /\ Seek(k).offlist = rd.offlist /\ Seek(k).offcur = k
        /\ Seek(k).pos = rd.offlist[k] /\ Seek(k).pc = rd.pc /\ Seek(k).lastcmd = rd.lastcmd
    BY <1>0, <2>1, SeekFields
  <2>3. 0 \in 0 .. MaxSamples
    BY DEF RawAssumption
  <2>4. /\ rd' \in ReaderRecord /\ rd'.pc = "scan" /\ rd'.lastcmd = rd.lastcmd /\ rd'.offlist = rd.offlist
        /\ rd'.offcur = k /\ rd'.pos = rd.offlist[k]
    BY <1>0, <2>0, <2>1, <2>2, <2>3 DEF ReaderRecord
  <2>5. ReaderTypes'
    BY <1>0, <2>4 DEF RawInv, ReaderTypes
  <2>6. ListInv'
    BY <1>0, <2>1, <2>4, ListSeeks DEF RawInv
  <2>7. PlaceInv'
    <3> SUFFICES ASSUME ~torn, rd.lastcmd \in {"prev", "next", "reset"}
                 PROVE  \E q \in 1 .. Len(file) : ShownAt(q)' /\ rd.lastcmd = "next" /\ rd'.pos = q
      BY <1>0, <2>4 DEF PlaceInv
    <3>1. PICK o \in 1 .. Len(file) :
            /\ ShownAt(o)
            /\ rd.lastcmd = "prev" => rd.pos = o - 4 \/ (rd.pos = 1 /\ o = 1)
            /\ rd.lastcmd = "next" =>
                 \/ rd.pos = o
                 \/ rd.pos = o + 4 /\ rd.offcur > 0 /\ rd.offlist[rd.offcur - 1] = o
            /\ rd.lastcmd = "reset" => rd.pos = 1
      BY <1>0 DEF RawInv, PlaceInv
    <3>2. Kept \in 0 .. Len(file) /\ Len(file) \in Nat /\ rd.pos \in Nat
      BY KeptBound, ReaderFields DEF RawInv
    <3>3. o + 4 <= Len(file)
      BY <3>1, <3>2 DEF ShownAt
    <3>4. rd.lastcmd = "next" /\ rd.offcur > 0 /\ rd.offlist[rd.offcur - 1] = o
      BY <1>0, <3>1, <3>2, <3>3
    <3>5. rd'.pos = o
      BY <2>1, <2>4, <3>4
    <3>6. ShownAt(o)'
      BY <1>0, <3>1 DEF ShownAt, Kept
    <3> QED
      BY <3>1, <3>4, <3>5, <3>6
  <2> QED
    BY <1>0, <2>5, <2>6, <2>7, ReaderFrame DEF RawInv
<1> QED
  BY <1>1, <1>2

\* Every step of the writer and of the reader keeps the invariant.
LEMMA RawStep ==
  ASSUME RawAssumption, RawInv, [Next]_vars
  PROVE  RawInv'
<1>1. CASE Writer
  BY <1>1, OpenStep, BeginStep, WriteStep, BrokenStep, RollBackStep DEF Writer
<1>2. CASE Reader
  BY <1>2, ReadOpens, ReadSkips, ReadShows, ReadEnds, EndOfFileStep, CommandStep, BranchStep DEF Reader
<1>3. CASE UNCHANGED vars
  <2>1. UNCHANGED <<file, w, torn, rd, shown>>
    BY <1>3 DEF vars
  <2>2. ReaderTypes' /\ ListInv'
    BY <2>1 DEF RawInv, ReaderTypes, ListInv
  <2>3. PlaceInv'
    BY <2>1 DEF RawInv, PlaceInv, ShownAt, Kept
  <2> QED
    BY <2>1, <2>2, <2>3, ReaderFrame DEF RawInv
<1> QED
  BY <1>1, <1>2, <1>3 DEF Next

\* Before the log exists.
LEMMA RawStart ==
  ASSUME RawAssumption, Init
  PROVE  RawInv
<1>0. 0 \in 0 .. MaxSamples
  BY DEF RawAssumption
<1>1. /\ file = <<>> /\ Len(file) = 0 /\ torn = FALSE /\ w = [pc |-> "closed", size |-> 0, n |-> 0]
      /\ w.pc = "closed"
  BY DEF Init, NoFile
<1>2. WriterTypes
  <2>1. file \in Seq(CellSet)
    BY <1>1
  <2>2. w \in [pc : Busy \cup {"closed", "idle"}, size : Nat, n : 0 .. MaxSamples]
    BY <1>0, <1>1
  <2> QED
    BY <1>1, <2>1, <2>2 DEF WriterTypes, Busy
<1>3. FileInv
  BY <1>1 DEF FileInv, Shaped, Ordered, Busy, NoFile
<1>4. <<>> \in OffLists
  <2>1. <<>> \in [{} -> Nat] /\ {} \in SUBSET Nat
    OBVIOUS
  <2> QED
    BY <2>1 DEF OffLists
<1>5. rd.pc = "off" /\ rd \in ReaderRecord
  <2> HIDE DEF OffLists
  <2> QED
    BY <1>0, <1>4 DEF Init, ReaderRecord
<1>6. shown \in [n : 0 .. MaxSamples, cmd : Commands \cup {"X", "skip", "branch", "start"}, last : BOOLEAN]
  BY <1>0 DEF Init
<1> QED
  BY <1>2, <1>3, <1>5, <1>6 DEF RawInv, ReaderTypes, ListInv, PlaceInv

---------------------------------------------------------------------------
(* Where the records are.                                                    *)

\* A record is only found where one belongs.
LEMMA RecordPlaces ==
  ASSUME NEW f \in Seq(CellSet), Shaped(f), NEW i \in 1 .. Len(f), f[i].kind = "rec"
  PROVE  i % 4 = 2
<1>1. RightCell(f, i)
  BY DEF Shaped
<1>2. i # 1
  BY <1>1 DEF RightCell, Header
<1>3. i % 4 # 2 => f[i].kind \in {"sstat", "tstat", "tend"}
  BY <1>1, <1>2 DEF RightCell, Cell
<1> QED
  BY <1>3

\* The four cells of a sample.
LEMMA FourCells ==
  ASSUME NEW f \in Seq(CellSet), Shaped(f), NEW o \in Nat, o % 4 = 1, o + 4 <= Len(f)
  PROVE  /\ f[o + 1] = Cell("rec", f[o + 1].of) /\ f[o + 2].kind = "sstat"
         /\ f[o + 3].kind = "tstat" /\ f[o + 4].kind = "tend"
<1>1. RightCell(f, o + 1) /\ RightCell(f, o + 2) /\ RightCell(f, o + 3) /\ RightCell(f, o + 4)
  BY DEF Shaped
<1>2. /\ f[o + 1] = Cell("rec", f[o + 1].of) /\ f[o + 2] = Cell("sstat", f[o + 1].of)
      /\ f[o + 3] = Cell("tstat", f[o + 2].of) /\ f[o + 4] = Cell("tend", f[o + 3].of)
  <2> HIDE DEF Shaped
  <2>1. f[o + 1] = Cell("rec", f[o + 1].of)
    BY <1>1, SamplePlaces
  <2>2. f[o + 2] = Cell("sstat", f[o + 1].of)
    BY <1>1, SamplePlaces
  <2>3. f[o + 3] = Cell("tstat", f[o + 2].of)
    BY <1>1, SamplePlaces
  <2>4. f[o + 4] = Cell("tend", f[o + 3].of)
    BY <1>1, SamplePlaces
  <2> QED
    BY <2>1, <2>2, <2>3, <2>4
<1>3. f[o + 2].kind = "sstat" /\ f[o + 3].kind = "tstat" /\ f[o + 4].kind = "tend"
  BY <1>2 DEF Cell
<1> QED
  BY <1>2, <1>3

\* A record is found by its number.
LEMMA PlaceOfRecord ==
  ASSUME file \in Seq(CellSet), Shaped(file), Ordered(file), NEW o \in Nat, o % 4 = 1, o + 4 <= Len(file)
  PROVE  PlaceOf(file[o + 1].of) = o + 1
<1> DEFINE n == file[o + 1].of
<1>0. Len(file) \in Nat /\ o + 1 \in 1 .. Len(file) /\ (o + 1) % 4 = 2
  BY SamplePlaces
<1>1. file[o + 1] = Cell("rec", n)
  BY FourCells
<1>2. ASSUME NEW i \in 1 .. Len(file), file[i] = Cell("rec", n) PROVE i = o + 1
  <2>1. file[i].kind = "rec" /\ file[i].of = n
    BY <1>2 DEF Cell
  <2>2. i % 4 = 2
    BY <2>1, RecordPlaces
  <2>3. n \in Nat
    <3>1. file[o + 1] \in CellSet
      BY <1>0
    <3> QED
      BY <3>1 DEF CellSet
  <2>4. ~(i < o + 1) /\ ~(o + 1 < i)
    BY <1>0, <2>1, <2>2, <2>3 DEF Ordered
  <2> QED
    BY <1>0, <2>4
<1> HIDE DEF n
<1>3. PlaceOf(n) = CHOOSE i \in 1 .. Len(file) : file[i] = Cell("rec", n)
  BY DEF PlaceOf
<1>4. PlaceOf(n) \in 1 .. Len(file) /\ file[PlaceOf(n)] = Cell("rec", n)
  BY <1>0, <1>1, <1>3
<1> QED
  BY <1>2, <1>4 DEF n

---------------------------------------------------------------------------
(* The results.                                                              *)

\* The log can be read in both directions, for any number of samples and
\* however often a write fails (rawwrite, rawread): without a torn sample the
\* file consists of whole samples when no write is busy, and the reader's list
\* holds the offsets of the records up to the one that is shown.
THEOREM RawLogIsReadable ==
  ASSUME RawAssumption
  PROVE  Spec => []LogIsReadable
<1>1. RawInv => LogIsReadable
  <2> SUFFICES ASSUME RawInv PROVE LogIsReadable
    OBVIOUS
  <2>1. WholeSamples
    <3> SUFFICES ASSUME w.pc \in {"idle", "closed"}, file # NoFile, ~torn PROVE IsWhole(file)
      BY DEF WholeSamples
    <3>1. file \in Seq(CellSet) /\ Shaped(file) /\ Len(file) % 4 = 1
      BY DEF RawInv, WriterTypes, FileInv
    <3> QED
      BY <3>1, ShapedIsWhole
  <2>2. OffsetsAreRecords
    <3> SUFFICES ASSUME rd.pc = "shown"
                 PROVE  /\ rd.offlist[0] = 1 /\ rd.offlist[rd.offcur - 1] = rd.pos - 4
                        /\ \A i \in 1 .. rd.offcur - 1 :
                             rd.offlist[i] = rd.offlist[i - 1] + 4 \/ (i = 1 /\ rd.offlist[1] = 1)
      BY DEF OffsetsAreRecords
    <3>1. PICK o \in Nat : o = rd.offlist[rd.offcur - 1] /\ rd.pos = o + 4
      BY LastShown
    <3>2. rd.pos - 4 = o
      BY <3>1
    <3> QED
      BY <3>1, <3>2 DEF RawInv, ListInv
  <2> QED
    BY <2>1, <2>2 DEF LogIsReadable
<1>2. Init => RawInv
  BY RawStart
<1>3. RawInv /\ [Next]_vars => RawInv'
  BY RawStep
<1> QED
  BY <1>1, <1>2, <1>3, PTL DEF Spec

\* The reader fails only at a sample that is incomplete.
LEMMA FailStep ==
  ASSUME RawInv, Fail
  PROVE  torn \/ w.pc \in {"sstat", "tstat"}
<1> SUFFICES ASSUME ~torn, w.pc \notin {"sstat", "tstat"} PROVE FALSE
  OBVIOUS
<1>0. rd.pc = "scan" /\ rd.pos < Len(file)
  BY DEF Fail
<1>1. file \in Seq(CellSet) /\ Shaped(file) /\ Len(file) \in Nat
  BY DEF RawInv, WriterTypes, FileInv
<1>2. Len(file) % 4 = 1
  <2>1. w.pc \in Busy \cup {"closed", "idle"}
    BY DEF RawInv, WriterTypes
  <2>2. file # NoFile
    BY <1>0, <1>1, ReaderFields DEF NoFile
  <2> QED
    BY <2>1, <2>2 DEF RawInv, FileInv, Busy
<1>3. PICK o \in Nat : o = rd.pos /\ o % 4 = 1
  BY <1>0, PosIsPlace DEF RawInv
<1>4. PICK n \in Nat : n = Len(file) /\ n % 4 = 1
  BY <1>1, <1>2
<1>5. o + 4 <= n
  BY <1>0, <1>3, <1>4
<1>6. /\ file[o + 1] = Cell("rec", file[o + 1].of) /\ file[o + 2].kind = "sstat"
      /\ file[o + 3].kind = "tstat" /\ file[o + 4].kind = "tend"
  BY <1>1, <1>3, <1>4, <1>5, FourCells
<1>7. file[o + 1].kind = "rec"
  BY <1>6 DEF Cell
<1>8. o + 1 + 1 = o + 2 /\ o + 2 + 1 = o + 3 /\ o + 3 + 1 = o + 4
  OBVIOUS
<1>9. At(o, "rec") /\ At(o + 1, "sstat") /\ At(o + 2, "tstat") /\ At(o + 3, "tend")
  BY <1>4, <1>5, <1>6, <1>7, <1>8 DEF At
<1> QED
  BY <1>3, <1>9 DEF Fail

\* The records before and behind a sample, by their places.
LEMMA Neighbours ==
  ASSUME file \in Seq(CellSet), Shaped(file), Ordered(file), MaxSamples \in Nat,
         \A j \in 1 .. Len(file) : j % 4 = 2 => file[j].of \in 1 .. MaxSamples,
         NEW o \in Nat, o % 4 = 1, o + 4 <= Len(file)
  PROVE  /\ \A m \in Before(file[o + 1].of) : \E i \in 1 .. o : i % 4 = 2 /\ file[i].of = m
         /\ \A i \in 1 .. o : i % 4 = 2 => file[i].of \in Before(file[o + 1].of)
         /\ \A m \in Behind(file[o + 1].of) : \E i \in o + 2 .. Len(file) : i % 4 = 2 /\ file[i].of = m
         /\ \A i \in o + 2 .. Len(file) : i % 4 = 2 => file[i].of \in Behind(file[o + 1].of)
<1> DEFINE n == file[o + 1].of
<1>0. Len(file) \in Nat
  OBVIOUS
<1>1. PlaceOf(n) = o + 1
  BY PlaceOfRecord
<1> HIDE DEF n
<1>2. PlaceOf(n) - 1 = o /\ PlaceOf(n) + 1 = o + 2
  BY <1>1
<1>3. /\ Before(n) = {m \in 1 .. MaxSamples : \E i \in 1 .. o : file[i] = Cell("rec", m)}
      /\ Behind(n) = {m \in 1 .. MaxSamples : \E i \in o + 2 .. Len(file) : file[i] = Cell("rec", m)}
  <2> HIDE DEF PlaceOf
  <2>1. Before(n) = {m \in 1 .. MaxSamples : \E i \in 1 .. o : file[i] = Cell("rec", m)}
    BY <1>2 DEF Before
  <2>2. Behind(n) = {m \in 1 .. MaxSamples : \E i \in o + 2 .. Len(file) : file[i] = Cell("rec", m)}
    BY <1>2 DEF Behind
  <2> QED
    BY <2>1, <2>2
<1>4. ASSUME NEW i \in 1 .. Len(file), NEW m, file[i] = Cell("rec", m)
      PROVE  i % 4 = 2 /\ file[i].of = m
  <2>1. file[i].kind = "rec" /\ file[i].of = m
    BY <1>4 DEF Cell
  <2> QED
    BY <2>1, RecordPlaces
<1>5. ASSUME NEW i \in 1 .. Len(file), i % 4 = 2
      PROVE  file[i] = Cell("rec", file[i].of) /\ file[i].of \in 1 .. MaxSamples
  <2>1. RightCell(file, i)
    BY DEF Shaped
  <2>2. i # 1
    BY <1>5
  <2> QED
    BY <1>5, <2>1, <2>2 DEF RightCell
<1>6. ASSUME NEW m \in Before(n) PROVE \E i \in 1 .. o : i % 4 = 2 /\ file[i].of = m
  <2>1. PICK i \in 1 .. o : file[i] = Cell("rec", m)
    BY <1>3, <1>6
  <2>2. i \in 1 .. Len(file)
    BY <1>0
  <2> QED
    BY <1>4, <2>1, <2>2
<1>7. ASSUME NEW m \in Behind(n) PROVE \E i \in o + 2 .. Len(file) : i % 4 = 2 /\ file[i].of = m
  <2>1. PICK i \in o + 2 .. Len(file) : file[i] = Cell("rec", m)
    BY <1>3, <1>7
  <2>2. i \in 1 .. Len(file)
    BY <1>0
  <2> QED
    BY <1>4, <2>1, <2>2
<1>8. ASSUME NEW i \in 1 .. o, i % 4 = 2 PROVE file[i].of \in Before(n)
  <2>1. i \in 1 .. Len(file)
    BY <1>0
  <2> QED
    BY <1>3, <1>5, <1>8, <2>1
<1>9. ASSUME NEW i \in o + 2 .. Len(file), i % 4 = 2 PROVE file[i].of \in Behind(n)
  <2>1. i \in 1 .. Len(file)
    BY <1>0
  <2> QED
    BY <1>3, <1>5, <1>9, <2>1
<1> QED
  BY <1>6, <1>7, <1>8, <1>9 DEF n

\* Four cells lie between two records.
LEMMA RecordsApart ==
  ASSUME NEW o \in Nat, o % 4 = 1, NEW i \in Nat, i % 4 = 2
  PROVE  /\ i <= o => i <= o - 3
         /\ i >= o + 2 => i >= o + 5
         /\ o >= 4 => (o - 3) % 4 = 2
         /\ (o + 5) % 4 = 2
  OBVIOUS

\* The sample that is shown next is the one the command means.
LEMMA ShowStep ==
  ASSUME RawAssumption, RawInv, Show, ~torn
  PROVE  CASE rd.lastcmd = "prev" ->
                IF Before(shown.n) = {} THEN shown'.n = shown.n
                ELSE shown'.n \in Before(shown.n) /\ \A m \in Before(shown.n) : m <= shown'.n
           [] rd.lastcmd = "next" ->
                \/ shown'.n \in Behind(shown.n) /\ \A m \in Behind(shown.n) : shown'.n <= m
                \/ shown'.n = shown.n
           [] rd.lastcmd = "reset" -> Before(shown'.n) = {}
           [] OTHER -> TRUE
<1> SUFFICES ASSUME rd.lastcmd \in {"prev", "next", "reset"}
             PROVE  /\ rd.lastcmd = "prev" =>
                         IF Before(shown.n) = {} THEN shown'.n = shown.n
                         ELSE shown'.n \in Before(shown.n) /\ \A m \in Before(shown.n) : m <= shown'.n
                    /\ rd.lastcmd = "next" =>
                         \/ shown'.n \in Behind(shown.n) /\ \A m \in Behind(shown.n) : shown'.n <= m
                         \/ shown'.n = shown.n
                    /\ rd.lastcmd = "reset" => Before(shown'.n) = {}
  OBVIOUS
<1>0. file \in Seq(CellSet) /\ Len(file) \in Nat /\ Shaped(file) /\ Ordered(file) /\ MaxSamples \in Nat
  BY DEF RawInv, WriterTypes, FileInv, RawAssumption
<1>1. \A j \in 1 .. Len(file) : j % 4 = 2 => file[j].of \in 1 .. MaxSamples
  <2>1. w.n \in 0 .. MaxSamples
    BY DEF RawInv, WriterTypes
  <2>2. \A j \in 1 .. Len(file) : j % 4 = 2 => file[j].of \in 1 .. (IF w.pc = "rec" THEN w.n - 1 ELSE w.n)
    BY DEF RawInv, FileInv
  <2> QED
    BY <1>0, <2>1, <2>2
<1>2. rd.pc = "scan" /\ shown'.n = file[rd.pos + 1].of /\ At(rd.pos + 3, "tend")
  BY DEF Show, Rec
<1>3. PICK p \in Nat : p = rd.pos /\ p % 4 = 1
  BY <1>2, PosIsPlace DEF RawInv
<1>4. p + 4 <= Len(file) /\ shown'.n = file[p + 1].of
  BY <1>0, <1>2, <1>3 DEF At
<1>5. PICK o \in 1 .. Len(file) :
         /\ ShownAt(o)
         /\ rd.lastcmd = "prev" => rd.pos = o - 4 \/ (rd.pos = 1 /\ o = 1)
         /\ rd.lastcmd = "next" => rd.pos = o \/ rd.pos = o + 4
         /\ rd.lastcmd = "reset" => rd.pos = 1
  BY <1>2 DEF RawInv, PlaceInv
<1>6. o \in Nat /\ o % 4 = 1 /\ o + 4 <= Len(file) /\ shown.n = file[o + 1].of
  <2>1. Kept \in Nat /\ Kept <= Len(file)
    BY KeptBound DEF RawInv
  <2> QED
    BY <1>0, <1>5, <2>1 DEF ShownAt
<1>a. /\ \A m \in Before(shown.n) : \E i \in 1 .. o : i % 4 = 2 /\ file[i].of = m
      /\ \A i \in 1 .. o : i % 4 = 2 => file[i].of \in Before(shown.n)
      /\ \A m \in Behind(shown.n) : \E i \in o + 2 .. Len(file) : i % 4 = 2 /\ file[i].of = m
      /\ \A i \in o + 2 .. Len(file) : i % 4 = 2 => file[i].of \in Behind(shown.n)
  <2>1. /\ \A m \in Before(file[o + 1].of) : \E i \in 1 .. o : i % 4 = 2 /\ file[i].of = m
        /\ \A i \in 1 .. o : i % 4 = 2 => file[i].of \in Before(file[o + 1].of)
        /\ \A m \in Behind(file[o + 1].of) : \E i \in o + 2 .. Len(file) : i % 4 = 2 /\ file[i].of = m
        /\ \A i \in o + 2 .. Len(file) : i % 4 = 2 => file[i].of \in Behind(file[o + 1].of)
    BY <1>0, <1>1, <1>6, Neighbours
  <2> QED
    BY <1>6, <2>1
<1>b. \A m \in Before(shown'.n) : \E i \in 1 .. p : i % 4 = 2 /\ file[i].of = m
  <2>1. \A m \in Before(file[p + 1].of) : \E i \in 1 .. p : i % 4 = 2 /\ file[i].of = m
    BY <1>0, <1>1, <1>3, <1>4, Neighbours
  <2> QED
    BY <1>4, <2>1
<1>7. ASSUME NEW i \in 1 .. Len(file), NEW j \in 1 .. Len(file), i % 4 = 2, j % 4 = 2, i <= j
      PROVE  file[i].of <= file[j].of
  <2>1. file[i].of \in Nat /\ file[j].of \in Nat
    BY <1>0, <1>1, <1>7
  <2>2. i < j => file[i].of < file[j].of
    BY <1>7, <1>0 DEF Ordered
  <2> QED
    BY <1>7, <2>1, <2>2
<1>8. ASSUME rd.lastcmd = "prev"
      PROVE  IF Before(shown.n) = {} THEN shown'.n = shown.n
             ELSE shown'.n \in Before(shown.n) /\ \A m \in Before(shown.n) : m <= shown'.n
  <2>1. CASE p = o - 4
    <3>1. p + 1 \in 1 .. o /\ p + 1 = o - 3 /\ (p + 1) % 4 = 2 /\ p + 1 \in 1 .. Len(file)
      BY <1>0, <1>3, <1>6, <2>1, SamplePlaces
    <3>2. shown'.n \in Before(shown.n)
      BY <1>a, <1>4, <3>1
    <3>3. ASSUME NEW m \in Before(shown.n) PROVE m <= shown'.n
      <4>1. PICK i \in 1 .. o : i % 4 = 2 /\ file[i].of = m
        BY <1>a, <3>3
      <4>2. i \in Nat /\ i \in 1 .. Len(file) /\ i <= p + 1
        BY <1>0, <1>6, <3>1, <4>1, RecordsApart
      <4> QED
        BY <1>4, <1>7, <3>1, <4>1, <4>2
    <3> QED
      BY <3>2, <3>3
  <2>2. CASE p = 1 /\ o = 1
    <3>1. Before(shown.n) = {}
      <4>1. ASSUME NEW m \in Before(shown.n) PROVE FALSE
        <5>1. PICK i \in 1 .. o : i % 4 = 2 /\ file[i].of = m
          BY <1>a, <4>1
        <5> QED
          BY <2>2, <5>1
      <4> QED
        BY <4>1
    <3> QED
      BY <1>4, <1>6, <2>2, <3>1
  <2> QED
    BY <1>3, <1>5, <1>8, <2>1, <2>2
<1>9. ASSUME rd.lastcmd = "next"
      PROVE  \/ shown'.n \in Behind(shown.n) /\ \A m \in Behind(shown.n) : shown'.n <= m
             \/ shown'.n = shown.n
  <2>1. CASE p = o
    BY <1>4, <1>6, <2>1
  <2>2. CASE p = o + 4
    <3>1. p + 1 \in o + 2 .. Len(file) /\ p + 1 = o + 5 /\ (p + 1) % 4 = 2 /\ p + 1 \in 1 .. Len(file)
      BY <1>0, <1>3, <1>4, <1>6, <2>2, SamplePlaces
    <3>2. shown'.n \in Behind(shown.n)
      BY <1>a, <1>4, <3>1
    <3>3. ASSUME NEW m \in Behind(shown.n) PROVE shown'.n <= m
      <4>1. PICK i \in o + 2 .. Len(file) : i % 4 = 2 /\ file[i].of = m
        BY <1>a, <3>3
      <4>2. i \in Nat /\ i \in 1 .. Len(file) /\ p + 1 <= i
        <5>1. i \in Nat /\ i \in 1 .. Len(file) /\ i >= o + 2
          BY <1>0, <1>6, <4>1
        <5>2. i >= o + 5
          BY <1>6, <4>1, <5>1, RecordsApart
        <5> QED
          BY <3>1, <5>1, <5>2
      <4> QED
        BY <1>4, <1>7, <3>1, <4>1, <4>2
    <3> QED
      BY <3>2, <3>3
  <2> QED
    BY <1>3, <1>5, <1>9, <2>1, <2>2
<1>10. ASSUME rd.lastcmd = "reset" PROVE Before(shown'.n) = {}
  <2>1. p = 1
    BY <1>3, <1>5, <1>10
  <2>2. ASSUME NEW m \in Before(shown'.n) PROVE FALSE
    <3>1. PICK i \in 1 .. p : i % 4 = 2 /\ file[i].of = m
      BY <1>b, <2>2
    <3> QED
      BY <2>1, <3>1
  <2> QED
    BY <2>2
<1> QED
  BY <1>8, <1>9, <1>10

\* Only the end of a scan shows a sample, and only Fail ends in an error.
LEMMA ScanEnds ==
  ASSUME RawInv, [Next]_vars, rd.pc = "scan"
  PROVE  /\ rd'.pc = "shown" => Show
         /\ rd'.pc = "failed" => Fail
<1>0. rd \in ReaderRecord
  BY DEF RawInv, ReaderTypes
<1>1. CASE Writer
  <2>1. rd' = rd
    BY <1>1 DEF Writer, rawwopen, rawwrite, Write, WriteShort, WriteFails, WriterKilled
  <2> QED
    BY <2>1
<1>2. CASE UNCHANGED vars
  BY <1>2 DEF vars
<1>3. CASE Reader
  <2>1. CASE Show
    <3>1. rd'.pc = "shown"
      BY <1>0, <2>1 DEF Show, ReaderRecord
    <3> QED
      BY <2>1, <3>1
  <2>2. CASE Fail
    <3>1. rd'.pc = "failed"
      BY <1>0, <2>2 DEF Fail, ReaderRecord
    <3> QED
      BY <2>2, <3>1
  <2>3. CASE rawread \/ (\E c \in Commands \ {"branch"} : Command(c)) \/ \E b \in 1 .. MaxSamples : Branch(b)
    BY <2>3 DEF rawread, Command, Branch
  <2>4. CASE Skip
    <3>1. rd'.pc = "scan"
      BY <1>0, <2>4 DEF Skip, ReaderRecord
    <3> QED
      BY <3>1
  <2>5. CASE PastEnd
    <3>1. rd'.pc = "done"
      BY <1>0, <2>5 DEF PastEnd, ReaderRecord
    <3> QED
      BY <3>1
  <2>6. CASE EndOfFile
    <3>1. rd'.pc \in {"scan", "done"}
      BY <1>0, <2>6 DEF EndOfFile, Seek, ReaderRecord
    <3> QED
      BY <3>1
  <2> QED
    BY <1>3, <2>1, <2>2, <2>3, <2>4, <2>5, <2>6 DEF Reader
<1> QED
  BY <1>1, <1>2, <1>3 DEF Next

\* The reader moves as the user asks, for any number of samples and commands
\* (rawread): in a log without a torn sample "previous" shows the record before
\* the one shown, a forward command the one after it or the same again, "reset"
\* the first one, and the reader gives up only at an incomplete sample.
THEOREM RawReaderMoves ==
  ASSUME RawAssumption
  PROVE  Spec => ReaderMoves
<1>1. Init => RawInv
  BY RawStart
<1>2. RawInv /\ [Next]_vars => RawInv'
  BY RawStep
<1> DEFINE Moves ==
      rd.pc = "scan" /\ rd'.pc = "shown" /\ ~torn =>
         CASE rd.lastcmd = "prev" ->
                IF Before(shown.n) = {} THEN shown'.n = shown.n
                ELSE shown'.n \in Before(shown.n) /\ \A m \in Before(shown.n) : m <= shown'.n
           [] rd.lastcmd = "next" ->
                \/ shown'.n \in Behind(shown.n) /\ \A m \in Behind(shown.n) : shown'.n <= m
                \/ shown'.n = shown.n
           [] rd.lastcmd = "reset" -> Before(shown'.n) = {}
           [] OTHER -> TRUE
<1> DEFINE Fails == rd.pc = "scan" /\ rd'.pc = "failed" => torn \/ w.pc \in {"sstat", "tstat"}
<1>3. RawInv /\ [Next]_vars => [Moves]_vars
  <2> SUFFICES ASSUME RawInv, [Next]_vars, rd.pc = "scan", rd'.pc = "shown", ~torn PROVE Moves
    BY DEF Moves
  <2>1. Show
    BY ScanEnds
  <2> QED
    BY <2>1, ShowStep
<1>4. RawInv /\ [Next]_vars => [Fails]_vars
  BY ScanEnds, FailStep
<1>5. Navigates <=> [][Moves]_vars
  BY DEF Navigates
<1>6. FailsOnlyOnTorn <=> [][Fails]_vars
  BY DEF FailsOnlyOnTorn
<1> QED
  <2> HIDE DEF Moves, Fails
  <2> QED
    BY <1>1, <1>2, <1>3, <1>4, <1>5, <1>6, PTL DEF Spec, ReaderMoves

---------------------------------------------------------------------------
(* atopsar: its record.                                                      *)

Fields == {"pc", "code", "rc", "args", "wanted", "numreports", "summarycnt", "repeathead", "allresources",
           "begintime", "saved", "endtime", "nsamples", "log", "midnight", "support", "prinow", "daylim", "pos",
           "lastcmd", "sampcnt", "sampsum", "totals", "curline", "headline", "top", "first", "shown", "out",
           "pretime", "curtime"}
IsSar(r) == r = [f \in Fields |-> r[f]]
Same(p, r, F) == \A f \in Fields \ F : p[f] = r[f]

Reports == 1 .. 29
SampleSet == [time : Nat, boot : BOOLEAN, active : 0 .. 1]
LineSet == [report : Reports, samples : Seq(SampleSet), rows : Nat, from : Int, to : Int]
\* The most rows that a report prints for one sample.
MaxRows == Sar!Max({Units, Sar!cpuline})

LEMMA MaxOfTwo ==
  ASSUME NEW a \in Int, NEW b \in Int
  PROVE  Sar!Max({a, b}) = IF a >= b THEN a ELSE b
<1> DEFINE m == IF a >= b THEN a ELSE b
<1>1. m \in {a, b} /\ \A y \in {a, b} : m >= y
  OBVIOUS
<1>2. \A x \in {a, b} : (\A y \in {a, b} : x >= y) => x = m
  OBVIOUS
<1> QED
  BY <1>1, <1>2 DEF Sar!Max

LEMMA MinOfSome ==
  ASSUME NEW S \in SUBSET Nat, S # {}
  PROVE  Sar!Min(S) \in S /\ \A y \in S : Sar!Min(S) <= y
<1>1. \E x \in S : \A y \in S : x <= y
  BY SmallestElement
<1> QED
  BY <1>1 DEF Sar!Min

LEMMA ActiveOf ==
  ASSUME NEW samples \in Seq(SampleSet)
  PROVE  Sar!Max({0} \union {samples[k].active : k \in DOMAIN samples}) \in 0 .. 1
<1> DEFINE S == {0} \union {samples[k].active : k \in DOMAIN samples}
<1>a. \A k \in DOMAIN samples : samples[k] \in SampleSet
  OBVIOUS
<1>b. \A k \in DOMAIN samples : samples[k].active \in 0 .. 1
  BY <1>a DEF SampleSet
<1>1. S \subseteq 0 .. 1 /\ 0 \in S
  BY <1>b
<1> HIDE DEF S
<1>2. \E x \in S : \A y \in S : x >= y
  BY <1>1
<1>3. Sar!Max(S) \in S
  BY <1>2 DEF Sar!Max
<1> QED
  BY <1>1, <1>3 DEF S

LEMMA PriCount ==
  /\ Sar!pricnt = 29
  /\ \A i \in Reports : Sar!pridef[i].line \in
       {"cpu", "proc", "task", "mem", "swap", "dsk", "nfm", "nfc", "nfs", "if", "IF", "v4", "v6", "tcp",
        "topc", "topm", "topd", "topn"}
BY DEF Sar!pricnt, Sar!pridef, Sar!Entry, Reports

\* The rows of one report for one sample.
LEMMA RowsOf ==
  ASSUME Sar!SarAssumption, NEW r, NEW i \in Reports, NEW active \in 0 .. 1, NEW tasks \in BOOLEAN, NEW procs \in BOOLEAN
  PROVE  LET n == Sar!priline(r, i, active, tasks, procs)
         IN n \in Nat /\ n <= MaxRows /\ MaxRows \in Nat /\ Sar!AtLeastOne(n) <= MaxRows /\ Sar!AtLeastOne(n) \in Nat \ {0}
<1>1. Units \in Nat /\ Sar!cpuline \in Nat /\ Sar!cpuline >= 1
  BY DEF Sar!SarAssumption, Sar!cpuline
<1>2. MaxRows \in Nat /\ Units <= MaxRows /\ Sar!cpuline <= MaxRows /\ 1 <= MaxRows
  BY <1>1, MaxOfTwo DEF MaxRows
<1>3. \A f : Sar!Shown(r, f, active) \in {Units, active}
  BY DEF Sar!Shown
<1>4. \A f : Sar!AtLeastOne(Sar!Shown(r, f, active)) \in Nat /\ Sar!AtLeastOne(Sar!Shown(r, f, active)) <= MaxRows
  BY <1>1, <1>2, <1>3 DEF Sar!AtLeastOne
<1> DEFINE n == Sar!priline(r, i, active, tasks, procs)
<1>a. /\ Sar!taskline(procs) \in 0 .. 1 /\ Sar!topcline(tasks) \in 0 .. 1 /\ Sar!topmline(tasks) \in 0 .. 1
      /\ Sar!topdline(r, tasks) \in 0 .. 1 /\ Sar!topnline(r, tasks) \in 0 .. 1
  BY DEF Sar!taskline, Sar!topcline, Sar!topmline, Sar!topdline, Sar!topnline
<1>b. Sar!pridef[i].line \in
       {"cpu", "proc", "task", "mem", "swap", "dsk", "nfm", "nfc", "nfs", "if", "IF", "v4", "v6", "tcp",
        "topc", "topm", "topd", "topn"}
  BY PriCount
<1>c. n \in {Sar!cpuline, 1} \cup 0 .. 1 \cup
           {Sar!AtLeastOne(Sar!Shown(r, f, active)) : f \in {"dsk", "nfm", "if", "IF"}}
  BY <1>a, <1>b DEF Sar!priline, Sar!procline, Sar!memline, Sar!swapline, Sar!nfcline, Sar!nfsline,
     Sar!v4line, Sar!v6line, Sar!tcpline, Sar!gendskline, Sar!nfmline, Sar!ifline, Sar!IFline
<1>5. n \in Nat /\ n <= MaxRows
  <2> HIDE DEF n
  <2> QED
    BY <1>1, <1>2, <1>4, <1>c
<1> HIDE DEF n
<1>6. Sar!AtLeastOne(n) <= MaxRows /\ Sar!AtLeastOne(n) \in Nat \ {0}
  BY <1>2, <1>5 DEF Sar!AtLeastOne
<1> QED
  BY <1>2, <1>5, <1>6 DEF n

\* A line is printed.
LEMMA PrintedFacts ==
  ASSUME Sar!SarAssumption, NEW r, IsSar(r), r.out \in Seq(LineSet), r.curline \in Nat, NEW i \in Reports,
         NEW samples \in Seq(SampleSet), NEW from \in Int, NEW to \in Int, NEW tasks \in BOOLEAN, NEW procs \in BOOLEAN
  PROVE  LET p == Sar!Printed(r, i, samples, from, to, tasks, procs) IN
         /\ IsSar(p) /\ Same(p, r, {"out", "curline", "first"})
         /\ \E rows \in Nat :
              p.out = Append(r.out, [report |-> i, samples |-> samples, rows |-> rows, from |-> from, to |-> to])
         /\ p.out \in Seq(LineSet) /\ Len(p.out) = Len(r.out) + 1
         /\ p.curline \in Nat /\ p.curline > r.curline /\ p.curline <= r.curline + MaxRows
<1> DEFINE active == Sar!Max({0} \union {samples[k].active : k \in DOMAIN samples})
           rv == Sar!priline(r, i, active, tasks, procs)
           line == [report |-> i, samples |-> samples, rows |-> rv, from |-> from, to |-> to]
           p == Sar!Printed(r, i, samples, from, to, tasks, procs)
<1>1. active \in 0 .. 1
  BY ActiveOf
<1>2. rv \in Nat /\ MaxRows \in Nat /\ Sar!AtLeastOne(rv) <= MaxRows /\ Sar!AtLeastOne(rv) \in Nat \ {0}
  <2> HIDE DEF active
  <2> QED
    BY <1>1, RowsOf
<1>3. p = [r EXCEPT !.out = Append(@, line), !.curline = @ + Sar!AtLeastOne(rv),
                    !.first = @ \union {Sar!pridef[i].line}]
  BY DEF Sar!Printed
<1> HIDE DEF rv, p
<1>4. IsSar(p) /\ Same(p, r, {"out", "curline", "first"}) /\ p.out = Append(r.out, line)
      /\ p.curline = r.curline + Sar!AtLeastOne(rv)
  <2> HIDE DEF line
  <2> QED
    BY <1>3 DEF IsSar, Same, Fields
<1>5. line \in LineSet
  BY <1>2 DEF LineSet
<1>6. p.out \in Seq(LineSet) /\ Len(p.out) = Len(r.out) + 1
  <2> HIDE DEF line
  <2> QED
    BY <1>4, <1>5
<1>7. \E rows \in Nat :
        p.out = Append(r.out, [report |-> i, samples |-> samples, rows |-> rows, from |-> from, to |-> to])
  BY <1>2, <1>4
<1>8. p.curline \in Nat /\ p.curline > r.curline /\ p.curline <= r.curline + MaxRows
  BY <1>2, <1>4
<1> QED
  BY <1>4, <1>6, <1>7, <1>8 DEF p

---------------------------------------------------------------------------
(* atopsar: the inductive invariant.                                         *)

SarLabels == {"call", "rc", "args", "raw", "read", "live", "together", "done"}

SarTypes(r) ==
  /\ IsSar(r) /\ r.pc \in SarLabels
  /\ r.wanted \in SUBSET Reports /\ r.numreports \in Int
  /\ r.summarycnt \in Nat \ {0} /\ r.repeathead \in Nat /\ r.nsamples \in Nat
  /\ r.log \in Seq(SampleSet) /\ \A k \in 1 .. Len(r.log) : r.log[k].time = k
  /\ r.pos \in Nat /\ r.sampcnt \in Nat /\ r.sampsum \in Int
  /\ r.totals \in Seq(SampleSet) /\ r.shown \in Seq(SampleSet) /\ r.out \in Seq(LineSet)
  /\ r.curline \in Nat /\ r.headline \in Nat /\ r.top \in Nat
  /\ r.pretime \in Int /\ r.curtime \in Int

\* Headers: the next one is due when the screen is full.
HeadBound(r) == Sar!Max({2, r.repeathead - 1})
HeadOK(r) ==
  /\ r.headline <= r.top + r.repeathead
  /\ r.curline - r.top <= HeadBound(r) + MaxRows + 1

\* The samples of a line: not too many, and no restart between them.
Within(ss, r) ==
  /\ Len(ss) <= r.summarycnt
  /\ Len(ss) > 0 => \A t \in ss[1].time + 1 .. ss[Len(ss)].time : ~r.log[t].boot
LinesOK(r) == \A k \in 1 .. Len(r.out) : Within(r.out[k].samples, r)

\* Nothing is read or printed before the flags are known.
Fresh(r) ==
  /\ r.out = << >> /\ r.totals = << >> /\ r.shown = << >>
  /\ r.sampcnt = 0 /\ r.nsamples = 0 /\ r.prinow = 0 /\ r.pos = 0
  /\ r.curline = 0 /\ r.headline = 0 /\ r.top = 0

\* What the lines of a report o, and the samples t added up for the next one,
\* are of the samples sh that were handed to it.
Counts(sh, j) == j \in 2 .. Len(sh) /\ ~sh[j].boot
Told(o, t, sh) ==
  /\ \A k \in 1 .. Len(o) : \A m \in 1 .. Len(o[k].samples) :
       \E j \in 2 .. Len(sh) : Counts(sh, j) /\ o[k].samples[m] = sh[j]
  /\ \A m \in 1 .. Len(t) : \E j \in 2 .. Len(sh) : Counts(sh, j) /\ t[m] = sh[j]
  /\ \A j \in 2 .. Len(sh) : Counts(sh, j) =>
       \/ \E m \in 1 .. Len(t) : t[m] = sh[j]
       \/ \E k \in 1 .. Len(o) : \E m \in 1 .. Len(o[k].samples) : o[k].samples[m] = sh[j]
Sorted(o, t) ==
  /\ \A k, l \in 1 .. Len(o) : \A m \in 1 .. Len(o[k].samples), n \in 1 .. Len(o[l].samples) :
       k < l \/ (k = l /\ m < n) => o[k].samples[m].time < o[l].samples[n].time
  /\ \A k \in 1 .. Len(o) : \A m \in 1 .. Len(o[k].samples), n \in 1 .. Len(t) :
       o[k].samples[m].time < t[n].time
  /\ \A m, n \in 1 .. Len(t) : m < n => t[m].time < t[n].time

\* A report that was given samples and is still wanted.
Active(r) == r.prinow \in r.wanted /\ r.shown # << >>
CoverOK(r) ==
  /\ r.shown = << >> => r.out = << >> /\ r.totals = << >>
  /\ Active(r) => /\ \A k \in 1 .. Len(r.out) : r.out[k].report = r.prinow
                  /\ Told(r.out, r.totals, r.shown) /\ Sorted(r.out, r.totals)

\* The samples handed over are those up to the place in the log, and the
\* totals are the last of them.
ReadOK(r) ==
  /\ Len(r.log) > 0 /\ r.pos <= Len(r.log) /\ r.sampcnt = Len(r.shown) /\ r.sampcnt <= r.pos
  /\ r.lastcmd <=> r.shown = << >>
  /\ r.shown # << >> => r.begintime = 0
  /\ \A k \in 1 .. Len(r.shown) : r.shown[k] = r.log[r.pos - Len(r.shown) + k]
  /\ r.prinow \in Reports
TotalsOK(r) ==
  /\ Len(r.totals) < r.summarycnt /\ Len(r.totals) < Len(r.shown)
  /\ r.summarycnt > 1 => r.sampsum - r.sampcnt = r.summarycnt - Len(r.totals)
  /\ \A m \in 1 .. Len(r.totals) :
       LET j == r.pos - Len(r.totals) + m IN r.totals[m] = r.log[j] /\ ~r.log[j].boot
  /\ r.pos = Len(r.log) => r.totals = << >>

RawOK(r) ==
  /\ Len(r.log) > 0 /\ CoverOK(r)
  /\ r.pc = "raw" /\ Active(r) /\ r.totals # << >> => r.endtime # 0
  /\ r.pc = "read" => ReadOK(r)
  /\ r.pc = "read" /\ Active(r) => TotalsOK(r)

\* The lines of report i in o: n of them, without gaps, up to time e.
Lines(o, i) == {k \in 1 .. Len(o) : o[k].report = i}
Tiled(o, i, n, e) ==
  /\ Cardinality(Lines(o, i)) = n
  /\ \A k, m \in Lines(o, i) :
       k < m /\ (\A l \in Lines(o, i) : l <= k \/ m <= l) => o[m].from = o[k].to
  /\ \A k \in Lines(o, i) : (\A l \in Lines(o, i) : l <= k) => o[k].to = e

LiveOK(r) ==
  /\ r.nsamples = Len(r.log) /\ r.nsamples > 0 /\ r.sampcnt <= r.nsamples + 1
  /\ r.pc = "live" =>
       \A i \in r.wanted : Tiled(r.out, i, IF r.sampcnt = 0 THEN 0 ELSE r.sampcnt - 1, r.curtime)
  /\ r.pc = "together" =>
       /\ r.sampcnt \in 1 .. r.nsamples /\ r.prinow \in Nat
       /\ \A i \in r.wanted : IF i <= r.prinow THEN Tiled(r.out, i, r.sampcnt, r.curtime)
                              ELSE Tiled(r.out, i, r.sampcnt - 1, r.pretime)

CountOK(r) == r.numreports = Cardinality(r.wanted)

SarInv(r) ==
  /\ SarTypes(r) /\ LinesOK(r)
  /\ r.pc # "done" => HeadOK(r)
  /\ r.pc \in {"call", "rc", "args"} => Fresh(r) /\ CountOK(r)
  /\ r.pc \in {"raw", "read"} => RawOK(r)
  /\ r.pc \in {"live", "together"} => CountOK(r) /\ r.numreports > 0 /\ LiveOK(r)

---------------------------------------------------------------------------
(* atopsar: what the helpers change.                                         *)

LEMMA DateLineFacts ==
  ASSUME NEW r, IsSar(r), r.curline \in Nat, NEW time
  PROVE  LET p == Sar!DateLine(r, time) IN
         /\ IsSar(p) /\ Same(p, r, {"daylim", "curline"})
         /\ p.curline \in Nat /\ p.curline \in {r.curline, r.curline + 1}
<1>1. CASE time <= r.daylim
  <2>1. Sar!DateLine(r, time) = r
    BY <1>1 DEF Sar!DateLine
  <2> QED
    BY <2>1 DEF Same
<1>2. CASE ~(time <= r.daylim)
  <2>1. \E x : Sar!DateLine(r, time) = [r EXCEPT !.daylim = x, !.curline = @ + 1]
    BY <1>2 DEF Sar!DateLine
  <2>2. PICK x : Sar!DateLine(r, time) = [r EXCEPT !.daylim = x, !.curline = @ + 1]
    BY <2>1
  <2> DEFINE p == [r EXCEPT !.daylim = x, !.curline = @ + 1]
  <2>3. IsSar(p) /\ Same(p, r, {"daylim", "curline"}) /\ p.curline = r.curline + 1
    BY DEF IsSar, Same, Fields
  <2> QED
    BY <2>2, <2>3
<1> QED
  BY <1>1, <1>2

LEMMA BoundFacts ==
  ASSUME Sar!SarAssumption, NEW r, r.repeathead \in Nat
  PROVE  /\ HeadBound(r) \in Nat /\ HeadBound(r) >= 2 /\ HeadBound(r) >= r.repeathead - 1
         /\ MaxRows \in Nat /\ MaxRows >= 1
<1>1. HeadBound(r) = IF 2 >= r.repeathead - 1 THEN 2 ELSE r.repeathead - 1
  <2>1. 2 \in Int /\ r.repeathead - 1 \in Int
    OBVIOUS
  <2> QED
    BY <2>1, MaxOfTwo DEF HeadBound
<1>2. MaxRows \in Nat /\ MaxRows >= 1
  <2>1. Units \in Nat /\ Sar!cpuline \in Nat /\ Sar!cpuline >= 1
    BY DEF Sar!SarAssumption, Sar!cpuline
  <2> QED
    BY <2>1, MaxOfTwo DEF MaxRows
<1> QED
  BY <1>1, <1>2

\* Behind the header there is room.
LEMMA HeaderFacts ==
  ASSUME Sar!SarAssumption, NEW r, IsSar(r), r.curline \in Nat, r.headline \in Nat, r.top \in Nat, r.repeathead \in Nat,
         r.headline <= r.top + r.repeathead
  PROVE  LET p == Sar!Header(r) IN
         /\ IsSar(p) /\ Same(p, r, {"headline", "top", "curline"})
         /\ p.curline \in Nat /\ p.headline \in Nat /\ p.top \in Nat /\ p.headline <= p.top + p.repeathead
         /\ p.curline - p.top <= HeadBound(p)
<1>0. HeadBound(r) \in Nat /\ HeadBound(r) >= 2 /\ HeadBound(r) >= r.repeathead - 1
  BY BoundFacts
<1>1. CASE r.curline >= r.headline
  <2>1. Sar!Header(r) = [r EXCEPT !.headline = r.curline + r.repeathead, !.top = r.curline, !.curline = @ + 2]
    BY <1>1 DEF Sar!Header, Sar!HeaderLine
  <2> DEFINE p == Sar!Header(r)
  <2>2. /\ IsSar(p) /\ Same(p, r, {"headline", "top", "curline"}) /\ p.headline = r.curline + r.repeathead
        /\ p.top = r.curline /\ p.curline = r.curline + 2 /\ p.repeathead = r.repeathead
    BY <2>1, ZenonT(60) DEF IsSar, Same, Fields
  <2>3. HeadBound(p) = HeadBound(r)
    BY <2>2 DEF HeadBound
  <2> HIDE DEF p
  <2>4. /\ p.curline \in Nat /\ p.headline \in Nat /\ p.top \in Nat /\ p.headline <= p.top + p.repeathead
        /\ p.curline - p.top <= HeadBound(p)
    BY <1>0, <2>2, <2>3
  <2> QED
    BY <2>2, <2>4 DEF p
<1>2. CASE ~(r.curline >= r.headline)
  <2>1. Sar!Header(r) = r
    BY <1>2 DEF Sar!Header
  <2>2. r.curline - r.top <= HeadBound(r)
    BY <1>0, <1>2
  <2> QED
    BY <2>1, <2>2 DEF Same
<1> QED
  BY <1>1, <1>2

LEMMA NotAgainFacts ==
  ASSUME NEW r, IsSar(r), r.numreports \in Int, NEW i
  PROVE  LET p == Sar!NotAgain(r, i) IN
         /\ IsSar(p) /\ Same(p, r, {"wanted", "numreports", "pc", "code"})
         /\ p.wanted = r.wanted \ {i} /\ p.numreports = r.numreports - 1
         /\ p.pc = IF r.numreports = 1 THEN "done" ELSE r.pc
<1> DEFINE s == [r EXCEPT !.wanted = @ \ {i}, !.numreports = @ - 1]
<1>1. /\ IsSar(s) /\ Same(s, r, {"wanted", "numreports"}) /\ s.wanted = r.wanted \ {i}
      /\ s.numreports = r.numreports - 1 /\ s.pc = r.pc
  BY DEF IsSar, Same, Fields
<1>2. Sar!NotAgain(r, i) = IF s.numreports = 0 THEN [s EXCEPT !.pc = "done", !.code = 1] ELSE s
  BY DEF Sar!NotAgain, Sar!cleanstop
<1> HIDE DEF s
<1>3. CASE r.numreports = 1
  <2>1. Sar!NotAgain(r, i) = [s EXCEPT !.pc = "done", !.code = 1]
    BY <1>1, <1>2, <1>3
  <2> QED
    BY <1>1, <1>3, <2>1, ZenonT(60) DEF IsSar, Same, Fields
<1>4. CASE r.numreports # 1
  <2>1. Sar!NotAgain(r, i) = s
    BY <1>1, <1>2, <1>4
  <2> QED
    BY <1>1, <1>4, <2>1 DEF IsSar, Same, Fields
<1> QED
  BY <1>3, <1>4

LEMMA RestartedFacts ==
  ASSUME NEW r, IsSar(r)
  PROVE  LET p == Sar!Restarted(r) IN
         /\ IsSar(p) /\ Same(p, r, {"sampsum", "totals"})
         /\ p.totals = << >> /\ p.sampsum = r.summarycnt + r.sampcnt
BY DEF IsSar, Same, Fields, Sar!Restarted

\* The steps between two records of the same kind.
LEMMA SameTypes ==
  ASSUME NEW r, SarTypes(r), NEW p, IsSar(p),
         Same(p, r, {"pc", "code", "rc", "args", "begintime", "lastcmd", "daylim", "prinow", "wanted", "numreports", "first"}),
         p.pc \in SarLabels, p.wanted \in SUBSET Reports, p.numreports \in Int
  PROVE  SarTypes(p)
BY DEF SarTypes, Same, Fields

LEMMA StopKeeps ==
  ASSUME NEW r, SarTypes(r), LinesOK(r), NEW p, SarTypes(p), p.pc = "done",
         p.out = r.out, p.log = r.log, p.summarycnt = r.summarycnt
  PROVE  SarInv(p)
BY DEF SarInv, LinesOK, Within

---------------------------------------------------------------------------
(* atopsar: the flags.                                                       *)

LEMMA SarStart ==
  ASSUME Sar!SarAssumption, Sar!Init
  PROVE  SarInv(sar)
<1>1. /\ IsSar(sar) /\ sar.pc = "call" /\ Fresh(sar) /\ sar.wanted = {} /\ sar.numreports = 0
      /\ sar.summarycnt = 1 /\ sar.repeathead = 9999999 /\ sar.log = << >> /\ sar.sampsum = 0
      /\ sar.pretime = 0 /\ sar.curtime = 0
  BY DEF Sar!Init, IsSar, Fields, Fresh, Sar!Never
<1>2. SarTypes(sar)
  BY <1>1 DEF SarTypes, Fresh, SarLabels
<1>3. HeadOK(sar) /\ LinesOK(sar)
  <2>1. HeadBound(sar) \in Nat /\ MaxRows \in Nat
    BY <1>1, BoundFacts
  <2> QED
    BY <1>1, <2>1 DEF HeadOK, LinesOK, Fresh
<1>4. CountOK(sar)
  BY <1>1, FS_EmptySet DEF CountOK
<1> QED
  BY <1>1, <1>2, <1>3, <1>4 DEF SarInv

\* The record while flags are read.
FlagInv(r) == SarTypes(r) /\ Fresh(r) /\ CountOK(r)

LEMMA FlagsOnly ==
  ASSUME Sar!SarAssumption, NEW r, FlagInv(r), r.pc \in {"call", "rc", "args", "done"}
  PROVE  SarInv(r)
<1>1. HeadBound(r) \in Nat /\ MaxRows \in Nat /\ r.repeathead \in Nat
  BY BoundFacts DEF FlagInv, SarTypes
<1>2. HeadOK(r) /\ LinesOK(r)
  BY <1>1 DEF FlagInv, Fresh, HeadOK, LinesOK
<1> QED
  BY <1>2 DEF SarInv, FlagInv

LEMMA WantedFinite ==
  ASSUME NEW S \in SUBSET Reports
  PROVE  IsFiniteSet(S) /\ Cardinality(S) \in Nat
<1>1. IsFiniteSet(Reports)
  <2>1. 1 \in Int /\ 29 \in Int
    OBVIOUS
  <2> QED
    BY <2>1, FS_Interval DEF Reports
<1>2. IsFiniteSet(S)
  BY <1>1, FS_Subset
<1> QED
  BY <1>2, FS_CardinalityType

\* A flag, or a step of reading flags, that keeps the count.
LEMMA FlagKeeps ==
  ASSUME NEW r, FlagInv(r), NEW p, IsSar(p),
         Same(p, r, {"pc", "code", "rc", "args", "wanted", "numreports", "repeathead", "allresources",
                     "support", "summarycnt", "begintime", "saved", "endtime"}),
         p.pc \in SarLabels, p.wanted \in SUBSET Reports, p.numreports = Cardinality(p.wanted),
         p.repeathead \in Nat, p.summarycnt \in Nat \ {0}
  PROVE  FlagInv(p)
<1>1. p.numreports \in Int
  BY WantedFinite
<1>2. SarTypes(p)
  BY <1>1 DEF FlagInv, SarTypes, Same, Fields
<1>3. Fresh(p)
  BY DEF FlagInv, Fresh, Same, Fields
<1> QED
  BY <1>2, <1>3 DEF FlagInv, CountOK

LEMMA WithFlagFacts ==
  ASSUME Sar!SarAssumption, NEW r, FlagInv(r), NEW f
  PROVE  FlagInv(Sar!WithFlag(r, f)) /\ Sar!WithFlag(r, f).pc = r.pc
<1> DEFINE p == Sar!WithFlag(r, f)
<1>0. /\ IsSar(r) /\ r.wanted \in SUBSET Reports /\ r.numreports \in Int /\ r.numreports = Cardinality(r.wanted)
      /\ r.pc \in SarLabels /\ r.repeathead \in Nat /\ r.summarycnt \in Nat \ {0} /\ RepeatHead \in Nat
  BY DEF FlagInv, SarTypes, CountOK, Sar!SarAssumption
<1>1. CASE f = "H"
  <2>1. p = [r EXCEPT !.repeathead = RepeatHead]
    BY <1>1 DEF Sar!WithFlag
  <2>2. IsSar(p) /\ Same(p, r, {"repeathead"}) /\ p.repeathead = RepeatHead
    BY <1>0, <2>1 DEF IsSar, Same, Fields
  <2> HIDE DEF p
  <2>3. p.pc = r.pc /\ p.wanted = r.wanted /\ p.numreports = r.numreports /\ p.summarycnt = r.summarycnt
    BY <2>2 DEF Same, Fields
  <2>4. FlagInv(p)
    BY <1>0, <2>2, <2>3, FlagKeeps DEF Same
  <2> QED
    BY <2>3, <2>4 DEF p
<1>2. CASE f = "a"
  <2>1. p = [r EXCEPT !.allresources = TRUE]
    BY <1>2 DEF Sar!WithFlag
  <2>2. IsSar(p) /\ Same(p, r, {"allresources"})
    BY <1>0, <2>1 DEF IsSar, Same, Fields
  <2> HIDE DEF p
  <2>3. /\ p.pc = r.pc /\ p.wanted = r.wanted /\ p.numreports = r.numreports /\ p.summarycnt = r.summarycnt
        /\ p.repeathead = r.repeathead
    BY <2>2 DEF Same, Fields
  <2>4. FlagInv(p)
    BY <1>0, <2>2, <2>3, FlagKeeps DEF Same
  <2> QED
    BY <2>3, <2>4 DEF p
<1>3. CASE f = "A"
  <2>1. p = [r EXCEPT !.wanted = 1 .. Sar!pricnt, !.numreports = Sar!pricnt]
    BY <1>3 DEF Sar!WithFlag
  <2>a. p = [r EXCEPT !.wanted = Reports, !.numreports = 29]
    BY <2>1, PriCount DEF Reports
  <2> HIDE DEF p
  <2>2. IsSar(p) /\ Same(p, r, {"wanted", "numreports"}) /\ p.wanted = Reports /\ p.numreports = 29
    BY <1>0, <2>a DEF IsSar, Same, Fields
  <2>3. Cardinality(Reports) = 29
    <3>1. ASSUME NEW n \in Nat PROVE Cardinality(1 .. n) = n
      <4>1. 1 \in Int /\ n \in Int
        OBVIOUS
      <4>2. Cardinality(1 .. n) = IF 1 > n THEN 0 ELSE n - 1 + 1
        BY ONLY <4>1, FS_Interval, Zenon
      <4> QED
        BY <4>2
    <3>2. 29 \in Nat
      OBVIOUS
    <3>3. Cardinality(1 .. 29) = 29
      BY <3>1, <3>2, Zenon
    <3> QED
      BY <3>3 DEF Reports
  <2>4. p.pc = r.pc /\ p.summarycnt = r.summarycnt /\ p.repeathead = r.repeathead
    BY <2>2 DEF Same, Fields
  <2>5. FlagInv(p)
    BY <1>0, <2>2, <2>3, <2>4, FlagKeeps DEF Same
  <2> QED
    BY <2>4, <2>5 DEF p
<1>4. CASE f \notin {"H", "a", "A"}
  <2> DEFINE M == Sar!Matching(r, f)
  <2>1. p = IF M = {} THEN r ELSE [r EXCEPT !.wanted = @ \union {Sar!Min(M)}, !.numreports = @ + 1]
    BY <1>4 DEF Sar!WithFlag
  <2>2. CASE M = {}
    BY <2>1, <2>2
  <2>3. CASE M # {}
    <3>a. M = {k \in 1 .. 29 : Sar!pridef[k].flag = f /\ k \notin r.wanted}
      BY PriCount DEF Sar!Matching
    <3>1. M \in SUBSET Reports /\ M \cap r.wanted = {}
      BY <3>a DEF Reports
    <3> DEFINE m == Sar!Min(M)
    <3> HIDE DEF M
    <3>2. m \in Reports /\ m \notin r.wanted
      <4>1. M \in SUBSET Nat
        BY <3>1 DEF Reports
      <4> QED
        BY <2>3, <3>1, <4>1, MinOfSome
    <3>3. p = [r EXCEPT !.wanted = @ \union {m}, !.numreports = @ + 1]
      BY <2>1, <2>3
    <3> HIDE DEF m, p
    <3>4. /\ IsSar(p) /\ Same(p, r, {"wanted", "numreports"}) /\ p.wanted = r.wanted \cup {m}
          /\ p.numreports = r.numreports + 1
      BY <1>0, <3>3 DEF IsSar, Same, Fields
    <3>5. Cardinality(p.wanted) = p.numreports /\ p.wanted \in SUBSET Reports
      BY <1>0, <3>2, <3>4, FS_AddElement, WantedFinite
    <3>6. p.pc = r.pc /\ p.summarycnt = r.summarycnt /\ p.repeathead = r.repeathead
      BY <3>4 DEF Same, Fields
    <3>7. FlagInv(p)
      BY <1>0, <3>4, <3>5, <3>6, FlagKeeps DEF Same
    <3> QED
      BY <3>6, <3>7 DEF p
  <2> QED
    BY <2>2, <2>3
<1> QED
  BY <1>1, <1>2, <1>3, <1>4

\* Reading a flag changes none of what is counted.
LEMMA FlagMoves ==
  ASSUME Sar!SarAssumption, NEW r, FlagInv(r), NEW p, IsSar(p),
         Same(p, r, {"pc", "code", "rc", "args", "support", "begintime", "saved", "endtime"}), p.pc \in SarLabels
  PROVE  FlagInv(p)
<1>1. /\ p.wanted = r.wanted /\ p.numreports = r.numreports /\ p.summarycnt = r.summarycnt
      /\ p.repeathead = r.repeathead
  BY DEF Same, Fields
<1>2. /\ r.wanted \in SUBSET Reports /\ r.numreports = Cardinality(r.wanted)
      /\ r.repeathead \in Nat /\ r.summarycnt \in Nat \ {0}
  BY DEF FlagInv, SarTypes, CountOK
<1> QED
  BY <1>1, <1>2, FlagKeeps DEF Same

LEMMA CallInv ==
  ASSUME Sar!SarAssumption, SarInv(sar), Sar!Call
  PROVE  SarInv(sar')
<1>1. sar.pc = "call" /\ FlagInv(sar) /\ IsSar(sar)
  BY DEF Sar!Call, SarInv, FlagInv, SarTypes
<1>2. PICK rc, args, sup : sar' = [sar EXCEPT !.pc = "rc", !.rc = rc, !.args = args, !.support = sup]
  BY DEF Sar!Call
<1> DEFINE p == sar'
<1>3. IsSar(p) /\ Same(p, sar, {"pc", "rc", "args", "support"}) /\ p.pc = "rc"
  BY <1>1, <1>2 DEF IsSar, Same, Fields
<1> HIDE DEF p
<1>4. FlagInv(p)
  BY <1>1, <1>3, FlagMoves DEF Same, SarLabels
<1> QED
  BY <1>3, <1>4, FlagsOnly DEF p

LEMMA SarFlagsInv ==
  ASSUME Sar!SarAssumption, SarInv(sar), Sar!do_atopsarflags
  PROVE  SarInv(sar')
<1>1. sar.pc = "rc" /\ FlagInv(sar) /\ IsSar(sar)
  BY DEF Sar!do_atopsarflags, SarInv, FlagInv, SarTypes
<1> DEFINE p == sar'
<1>2. CASE sar.rc = << >>
  <2>1. p = [sar EXCEPT !.pc = "args"]
    BY <1>2 DEF Sar!do_atopsarflags
  <2> HIDE DEF p
  <2>2. IsSar(p) /\ Same(p, sar, {"pc"}) /\ p.pc = "args"
    BY <1>1, <2>1 DEF IsSar, Same, Fields
  <2>3. FlagInv(p)
    BY <1>1, <2>2, FlagMoves DEF Same, SarLabels
  <2> QED
    BY <2>2, <2>3, FlagsOnly DEF p
<1>3. CASE sar.rc # << >>
  <2> DEFINE q == Sar!WithFlag(sar, Head(sar.rc))
  <2>1. p = [q EXCEPT !.rc = Tail(@)]
    BY <1>3 DEF Sar!do_atopsarflags
  <2>2. FlagInv(q) /\ q.pc = "rc"
    BY <1>1, WithFlagFacts
  <2> HIDE DEF p, q
  <2>3. IsSar(q)
    BY <2>2 DEF FlagInv, SarTypes
  <2>4. IsSar(p) /\ Same(p, q, {"rc"}) /\ p.pc = "rc"
    BY <2>1, <2>2, <2>3 DEF IsSar, Same, Fields
  <2>5. FlagInv(p)
    BY <2>2, <2>4, FlagMoves DEF Same, SarLabels
  <2> QED
    BY <2>4, <2>5, FlagsOnly DEF p
<1> QED
  BY <1>2, <1>3

LEMMA GetoptInv ==
  ASSUME Sar!SarAssumption, SarInv(sar), Sar!getopt
  PROVE  SarInv(sar')
<1>1. sar.pc = "args" /\ FlagInv(sar) /\ IsSar(sar)
  BY DEF Sar!getopt, SarInv, FlagInv, SarTypes
<1> DEFINE f == Head(sar.args)
           r == [sar EXCEPT !.args = Tail(@)]
           p == sar'
<1>2. \/ \E n \in Summaries : n >= 1 /\ p = [r EXCEPT !.summarycnt = n]
      \/ \E t : p = [r EXCEPT !.begintime = t, !.saved = t]
      \/ \E t : p = [r EXCEPT !.endtime = t]
      \/ p = [r EXCEPT !.pc = "done", !.code = 1]
      \/ p = Sar!WithFlag(r, f)
  <2>1. CASE f = "R"
    <3>1. PICK n \in Summaries : p = IF n < 1 THEN Sar!pratopsaruse(r) ELSE [r EXCEPT !.summarycnt = n]
      BY <2>1 DEF Sar!getopt
    <3>2. n \in Int
      BY DEF Sar!SarAssumption
    <3>3. CASE n < 1
      BY <3>1, <3>3 DEF Sar!pratopsaruse, Sar!cleanstop
    <3>4. CASE n >= 1
      <4>1. ~(n < 1)
        BY <3>2, <3>4
      <4>2. p = [r EXCEPT !.summarycnt = n]
        BY <3>1, <4>1
      <4> QED
        BY <3>4, <4>2
    <3>5. n < 1 \/ n >= 1
      BY <3>2
    <3> QED
      BY <3>3, <3>4, <3>5
  <2>2. CASE f = "b"
    BY <2>2 DEF Sar!getopt
  <2>3. CASE f = "e"
    BY <2>3 DEF Sar!getopt
  <2>4. CASE f \notin {"R", "b", "e"}
    BY <2>4 DEF Sar!getopt, Sar!pratopsaruse, Sar!cleanstop
  <2> QED
    BY <2>1, <2>2, <2>3, <2>4
<1>3. IsSar(r) /\ Same(r, sar, {"args"}) /\ r.pc = "args"
  BY <1>1 DEF IsSar, Same, Fields
<1> HIDE DEF r, f, p
<1>4. FlagInv(r)
  BY <1>1, <1>3, FlagMoves DEF Same, SarLabels
<1>5. /\ r.wanted \in SUBSET Reports /\ r.numreports = Cardinality(r.wanted)
      /\ r.repeathead \in Nat /\ r.summarycnt \in Nat \ {0}
  BY <1>4 DEF FlagInv, SarTypes, CountOK
<1>6. FlagInv(p) /\ p.pc \in {"args", "done"}
  <2>1. ASSUME NEW n \in Summaries, n >= 1, p = [r EXCEPT !.summarycnt = n]
        PROVE  FlagInv(p) /\ p.pc \in {"args", "done"}
    <3>1. IsSar(p) /\ Same(p, r, {"summarycnt"}) /\ p.summarycnt = n /\ p.pc = "args"
      BY <1>3, <2>1 DEF IsSar, Same, Fields
    <3>2. p.wanted = r.wanted /\ p.numreports = r.numreports /\ p.repeathead = r.repeathead
      BY <3>1 DEF Same, Fields
    <3>3. n \in Nat \ {0}
      BY <2>1 DEF Sar!SarAssumption
    <3>4. FlagInv(p)
      BY <1>4, <1>5, <3>1, <3>2, <3>3, FlagKeeps DEF Same, SarLabels
    <3> QED
      BY <3>1, <3>4
  <2>2. ASSUME NEW t, p = [r EXCEPT !.begintime = t, !.saved = t]
        PROVE  FlagInv(p) /\ p.pc \in {"args", "done"}
    <3>1. IsSar(p) /\ Same(p, r, {"begintime", "saved"}) /\ p.pc = "args"
      BY <1>3, <2>2 DEF IsSar, Same, Fields
    <3>2. FlagInv(p)
      BY <1>4, <3>1, FlagMoves DEF Same, SarLabels
    <3> QED
      BY <3>1, <3>2
  <2>3. ASSUME NEW t, p = [r EXCEPT !.endtime = t]
        PROVE  FlagInv(p) /\ p.pc \in {"args", "done"}
    <3>1. IsSar(p) /\ Same(p, r, {"endtime"}) /\ p.pc = "args"
      BY <1>3, <2>3 DEF IsSar, Same, Fields
    <3>2. FlagInv(p)
      BY <1>4, <3>1, FlagMoves DEF Same, SarLabels
    <3> QED
      BY <3>1, <3>2
  <2>4. ASSUME p = [r EXCEPT !.pc = "done", !.code = 1]
        PROVE  FlagInv(p) /\ p.pc \in {"args", "done"}
    <3>1. IsSar(p) /\ Same(p, r, {"pc", "code"}) /\ p.pc = "done"
      BY <1>3, <2>4 DEF IsSar, Same, Fields
    <3>2. FlagInv(p)
      BY <1>4, <3>1, FlagMoves DEF Same, SarLabels
    <3> QED
      BY <3>1, <3>2
  <2>5. ASSUME p = Sar!WithFlag(r, f)
        PROVE  FlagInv(p) /\ p.pc \in {"args", "done"}
    BY <1>3, <1>4, <2>5, WithFlagFacts
  <2> QED
    BY <1>2, <2>1, <2>2, <2>3, <2>4, <2>5
<1> QED
  BY <1>6, FlagsOnly DEF p

LEMMA DefaultedFacts ==
  ASSUME Sar!SarAssumption, NEW r, FlagInv(r)
  PROVE  LET p == Sar!Defaulted(r) IN FlagInv(p) /\ p.numreports > 0 /\ p.pc = r.pc
<1> DEFINE p == Sar!Defaulted(r)
<1>0. /\ IsSar(r) /\ r.wanted \in SUBSET Reports /\ r.numreports = Cardinality(r.wanted) /\ r.numreports \in Nat
      /\ r.pc \in SarLabels /\ r.repeathead \in Nat /\ r.summarycnt \in Nat \ {0}
  BY WantedFinite DEF FlagInv, SarTypes, CountOK
<1>1. CASE r.numreports = 0
  <2>1. p = [r EXCEPT !.wanted = {1}, !.numreports = 1]
    BY <1>1 DEF Sar!Defaulted
  <2> HIDE DEF p
  <2>2. /\ IsSar(p) /\ Same(p, r, {"wanted", "numreports"}) /\ p.wanted = {1} /\ p.numreports = 1
        /\ p.pc = r.pc /\ p.summarycnt = r.summarycnt /\ p.repeathead = r.repeathead
    BY <1>0, <2>1 DEF IsSar, Same, Fields
  <2>3. Cardinality({1}) = 1 /\ {1} \in SUBSET Reports
    BY FS_Singleton DEF Reports
  <2>4. FlagInv(p)
    BY <1>0, <2>2, <2>3, FlagKeeps DEF Same
  <2> QED
    BY <2>2, <2>4 DEF p
<1>2. CASE r.numreports # 0
  <2>1. p = r
    BY <1>2 DEF Sar!Defaulted
  <2> QED
    BY <1>0, <1>2, <2>1
<1> QED
  BY <1>1, <1>2

LEMMA SamplesFacts ==
  ASSUME NEW n \in Nat, NEW boots, NEW idle
  PROVE  LET q == Sar!Samples(n, boots, idle) IN
         q \in Seq(SampleSet) /\ Len(q) = n /\ \A k \in 1 .. n : q[k].time = k
<1> DEFINE e(k) == [time |-> k, boot |-> k \in boots, active |-> IF k \in idle THEN 0 ELSE 1]
           q == Sar!Samples(n, boots, idle)
<1>1. q = [k \in 1 .. n |-> e(k)]
  BY DEF Sar!Samples
<1>2. \A k \in 1 .. n : e(k) \in SampleSet /\ e(k).time = k
  BY DEF SampleSet
<1> HIDE DEF e, q
<1>3. q \in [1 .. n -> SampleSet] /\ \A k \in 1 .. n : q[k].time = k
  BY <1>1, <1>2
<1>4. q \in Seq(SampleSet) /\ Len(q) = n
  BY <1>3
<1> QED
  BY <1>3, <1>4 DEF q

LEMMA NoLines ==
  ASSUME NEW i, NEW e
  PROVE  Tiled(<< >>, i, 0, e)
<1>1. Lines(<< >>, i) = {}
  BY DEF Lines
<1> QED
  BY <1>1, FS_EmptySet DEF Tiled

LEMMA ModeInv ==
  ASSUME Sar!SarAssumption, SarInv(sar), Sar!Mode
  PROVE  SarInv(sar')
<1>1. sar.pc = "args" /\ FlagInv(sar) /\ IsSar(sar)
  BY DEF Sar!Mode, SarInv, FlagInv, SarTypes
<1> DEFINE d == Sar!Defaulted(sar)
           p == sar'
<1>2. FlagInv(d) /\ d.numreports > 0
  BY <1>1, DefaultedFacts
<1>3. PICK n \in 1 .. MaxLog, boots \in SUBSET (1 .. MaxLog), idle \in Idles, mid \in Midnights :
        \/ p = [d EXCEPT !.pc = "raw", !.log = Sar!Samples(n, boots, idle), !.midnight = mid]
        \/ p = [d EXCEPT !.pc = "live", !.log = Sar!Samples(n, {}, idle), !.nsamples = n, !.midnight = mid]
        \/ p = [sar EXCEPT !.pc = "done", !.code = 1]
  BY DEF Sar!Mode, Sar!pratopsaruse, Sar!cleanstop
<1> HIDE DEF d, p
<1>4. n \in Nat /\ n > 0 /\ IsSar(d)
  BY <1>2 DEF Sar!SarAssumption, FlagInv, SarTypes
<1>5. HeadBound(d) \in Nat /\ MaxRows \in Nat /\ d.repeathead \in Nat
  BY <1>2, BoundFacts DEF FlagInv, SarTypes
<1>6. CASE p = [sar EXCEPT !.pc = "done", !.code = 1]
  <2>1. IsSar(p) /\ Same(p, sar, {"pc", "code"}) /\ p.pc = "done"
    BY <1>1, <1>6 DEF IsSar, Same, Fields
  <2>2. FlagInv(p)
    BY <1>1, <2>1, FlagMoves DEF Same, SarLabels
  <2> QED
    BY <2>1, <2>2, FlagsOnly DEF p
<1>7. CASE p = [d EXCEPT !.pc = "raw", !.log = Sar!Samples(n, boots, idle), !.midnight = mid]
  <2> DEFINE q == Sar!Samples(n, boots, idle)
  <2>1. q \in Seq(SampleSet) /\ Len(q) = n /\ \A k \in 1 .. n : q[k].time = k
    BY <1>4, SamplesFacts
  <2> HIDE DEF q
  <2>2. p = [d EXCEPT !.pc = "raw", !.log = q, !.midnight = mid]
    BY <1>7 DEF q
  <2>3. IsSar(p) /\ Same(p, d, {"pc", "log", "midnight"}) /\ p.pc = "raw" /\ p.log = q
    BY <1>4, <2>2 DEF IsSar, Same, Fields
  <2>4. SarTypes(p)
    BY <1>2, <2>1, <2>3 DEF FlagInv, SarTypes, Same, Fields, SarLabels
  <2>5. Fresh(p) /\ HeadBound(p) = HeadBound(d) /\ p.repeathead = d.repeathead
    BY <1>2, <2>3 DEF FlagInv, Fresh, Same, Fields, HeadBound
  <2>6. HeadOK(p) /\ LinesOK(p)
    BY <1>5, <2>5 DEF Fresh, HeadOK, LinesOK
  <2>7. RawOK(p)
    BY <1>4, <2>1, <2>3, <2>5 DEF RawOK, CoverOK, Active, Fresh
  <2> QED
    BY <2>3, <2>4, <2>6, <2>7 DEF SarInv, p
<1>8. CASE p = [d EXCEPT !.pc = "live", !.log = Sar!Samples(n, {}, idle), !.nsamples = n, !.midnight = mid]
  <2> DEFINE q == Sar!Samples(n, {}, idle)
  <2>1. q \in Seq(SampleSet) /\ Len(q) = n /\ \A k \in 1 .. n : q[k].time = k
    BY <1>4, SamplesFacts
  <2> HIDE DEF q
  <2>2. p = [d EXCEPT !.pc = "live", !.log = q, !.nsamples = n, !.midnight = mid]
    BY <1>8 DEF q
  <2>3. IsSar(p) /\ Same(p, d, {"pc", "log", "nsamples", "midnight"}) /\ p.pc = "live" /\ p.log = q /\ p.nsamples = n
    BY <1>4, <2>2 DEF IsSar, Same, Fields
  <2>4. SarTypes(p)
    BY <1>2, <1>4, <2>1, <2>3 DEF FlagInv, SarTypes, Same, Fields, SarLabels
  <2>5. /\ p.out = << >> /\ p.sampcnt = 0 /\ p.curline = 0 /\ p.top = 0 /\ p.headline = 0
        /\ p.repeathead = d.repeathead /\ p.wanted = d.wanted /\ p.numreports = d.numreports
    BY <1>2, <2>3 DEF FlagInv, Fresh, Same, Fields
  <2>6. HeadOK(p) /\ LinesOK(p)
    <3>1. HeadBound(p) = HeadBound(d)
      BY <2>5 DEF HeadBound
    <3> QED
      BY <1>5, <2>5, <3>1 DEF HeadOK, LinesOK
  <2>7. LiveOK(p)
    BY <1>4, <2>1, <2>3, <2>5, NoLines DEF LiveOK
  <2>8. CountOK(p) /\ p.numreports > 0
    BY <1>2, <2>5 DEF FlagInv, CountOK
  <2> QED
    BY <2>3, <2>4, <2>6, <2>7, <2>8 DEF SarInv, p
<1> QED
  BY <1>3, <1>6, <1>7, <1>8

---------------------------------------------------------------------------
(* atopsar: live measurements.                                               *)

LEMMA LinesFinite ==
  ASSUME NEW o \in Seq(LineSet), NEW i
  PROVE  IsFiniteSet(Lines(o, i)) /\ Cardinality(Lines(o, i)) \in Nat /\ Lines(o, i) \in SUBSET (1 .. Len(o))
<1>1. IsFiniteSet(1 .. Len(o))
  <2>1. 1 \in Int /\ Len(o) \in Int
    OBVIOUS
  <2> QED
    BY <2>1, FS_Interval
<1>2. Lines(o, i) \in SUBSET (1 .. Len(o))
  BY DEF Lines
<1>3. IsFiniteSet(Lines(o, i))
  BY <1>1, <1>2, FS_Subset
<1> QED
  BY <1>2, <1>3, FS_CardinalityType

\* Without lines there is nothing to reach up to.
LEMMA TiledNone ==
  ASSUME NEW o \in Seq(LineSet), NEW i, NEW e, Tiled(o, i, 0, e), NEW f
  PROVE  Tiled(o, i, 0, f)
<1>1. Lines(o, i) = {}
  BY LinesFinite, FS_EmptySet DEF Tiled
<1> QED
  BY <1>1 DEF Tiled

LEMMA AppendedLine ==
  ASSUME NEW o \in Seq(LineSet), NEW line \in LineSet, NEW q, q = Append(o, line)
  PROVE  /\ q \in Seq(LineSet) /\ Len(q) = Len(o) + 1 /\ Len(o) \in Nat
         /\ \A k \in 1 .. Len(o) : q[k] = o[k]
         /\ q[Len(o) + 1] = line
OBVIOUS

\* A line of another report.
LEMMA TiledOther ==
  ASSUME NEW o \in Seq(LineSet), NEW i, NEW n, NEW e, Tiled(o, i, n, e),
         NEW line \in LineSet, line.report # i, NEW q, q = Append(o, line)
  PROVE  Tiled(q, i, n, e)
<1>1. /\ Len(q) = Len(o) + 1 /\ Len(o) \in Nat /\ q[Len(o) + 1] = line
      /\ \A k \in 1 .. Len(o) : q[k] = o[k]
  BY AppendedLine
<1>2. Lines(q, i) = Lines(o, i)
  BY <1>1 DEF Lines
<1>3. \A k \in Lines(o, i) : q[k] = o[k]
  BY <1>1 DEF Lines
<1>4. ASSUME NEW k \in Lines(q, i), NEW m \in Lines(q, i), k < m, \A l \in Lines(q, i) : l <= k \/ m <= l
      PROVE  q[m].from = q[k].to
  <2>1. k \in Lines(o, i) /\ m \in Lines(o, i) /\ \A l \in Lines(o, i) : l <= k \/ m <= l
    BY <1>2, <1>4
  <2>2. o[m].from = o[k].to
    BY <1>4, <2>1 DEF Tiled
  <2> QED
    BY <1>3, <2>1, <2>2
<1>5. \A k \in Lines(q, i) : (\A l \in Lines(q, i) : l <= k) => q[k].to = e
  BY <1>2, <1>3 DEF Tiled
<1>6. Cardinality(Lines(q, i)) = n
  BY <1>2 DEF Tiled
<1> QED
  BY <1>4, <1>5, <1>6 DEF Tiled

\* The next line of this one: it starts where the last one ended.
LEMMA TiledNext ==
  ASSUME NEW o \in Seq(LineSet), NEW i, NEW n \in Nat, NEW e, Tiled(o, i, n, e),
         NEW line \in LineSet, line.report = i, line.from = e, NEW q, q = Append(o, line)
  PROVE  Tiled(q, i, n + 1, line.to)
<1> DEFINE z == Len(o) + 1
<1>1. /\ Len(q) = z /\ Len(o) \in Nat /\ q[z] = line /\ z \in Nat
      /\ \A k \in 1 .. Len(o) : q[k] = o[k]
  BY AppendedLine
<1>2. Lines(q, i) = Lines(o, i) \cup {z} /\ z \notin Lines(o, i)
  BY <1>1 DEF Lines
<1>3. \A k \in Lines(o, i) : q[k] = o[k] /\ k \in Nat /\ k < z
  BY <1>1 DEF Lines
<1> HIDE DEF z
<1>4. Cardinality(Lines(q, i)) = n + 1
  BY <1>2, LinesFinite, FS_AddElement, ZenonT(60) DEF Tiled
<1>5. ASSUME NEW k \in Lines(q, i), NEW m \in Lines(q, i), k < m, \A l \in Lines(q, i) : l <= k \/ m <= l
      PROVE  q[m].from = q[k].to
  <2>1. k \in Lines(o, i)
    BY <1>1, <1>2, <1>3, <1>5
  <2>2. CASE m \in Lines(o, i)
    BY <1>2, <1>3, <1>5, <2>1, <2>2, ZenonT(60) DEF Tiled
  <2>3. CASE m = z
    <3>1. \A l \in Lines(o, i) : l <= k
      BY <1>1, <1>2, <1>3, <1>5, <2>3
    <3>2. o[k].to = e
      BY <2>1, <3>1 DEF Tiled
    <3> QED
      BY <1>1, <1>3, <2>1, <2>3, <3>2
  <2> QED
    BY <1>2, <2>2, <2>3
<1>6. ASSUME NEW k \in Lines(q, i), \A l \in Lines(q, i) : l <= k
      PROVE  q[k].to = line.to
  <2>1. k = z
    BY <1>1, <1>2, <1>3, <1>6
  <2> QED
    BY <1>1, <2>1
<1> QED
  BY <1>4, <1>5, <1>6 DEF Tiled

LEMMA LinesAppend ==
  ASSUME NEW r, LinesOK(r), r.out \in Seq(LineSet), NEW line \in LineSet, Within(line.samples, r),
         NEW p, p.out = Append(r.out, line), p.log = r.log, p.summarycnt = r.summarycnt
  PROVE  LinesOK(p)
<1>1. /\ Len(p.out) = Len(r.out) + 1 /\ Len(r.out) \in Nat /\ p.out[Len(r.out) + 1] = line
      /\ \A k \in 1 .. Len(r.out) : p.out[k] = r.out[k]
  BY AppendedLine
<1>2. \A ss : Within(ss, p) <=> Within(ss, r)
  BY DEF Within
<1> QED
  BY <1>1, <1>2 DEF LinesOK

\* A line of one sample.
LEMMA OneWithin ==
  ASSUME NEW r, r.summarycnt \in Nat \ {0}, NEW s \in SampleSet
  PROVE  << s >> \in Seq(SampleSet) /\ Within(<< s >>, r)
<1>1. << s >> \in Seq(SampleSet) /\ Len(<< s >>) = 1 /\ << s >>[1] = s
  OBVIOUS
<1>2. s.time \in Nat
  BY DEF SampleSet
<1> QED
  BY <1>1, <1>2 DEF Within

\* The line of one of the reports for a live sample.
LEMMA LivePrinted ==
  ASSUME Sar!SarAssumption, NEW r, SarTypes(r), LinesOK(r), NEW i \in Reports, NEW s \in SampleSet
  PROVE  LET p == Sar!Printed(r, i, << s >>, r.pretime, r.curtime, FALSE, FALSE) IN
         /\ SarTypes(p) /\ LinesOK(p) /\ Same(p, r, {"out", "curline", "first"})
         /\ p.curline > r.curline /\ p.curline <= r.curline + MaxRows
         /\ \E line \in LineSet : /\ p.out = Append(r.out, line) /\ line.report = i
                                  /\ line.from = r.pretime /\ line.to = r.curtime
<1> DEFINE p == Sar!Printed(r, i, << s >>, r.pretime, r.curtime, FALSE, FALSE)
<1>1. /\ IsSar(r) /\ r.out \in Seq(LineSet) /\ r.curline \in Nat /\ r.pretime \in Int /\ r.curtime \in Int
      /\ r.summarycnt \in Nat \ {0}
  BY DEF SarTypes
<1>2. << s >> \in Seq(SampleSet) /\ Within(<< s >>, r)
  BY <1>1, OneWithin
<1>3. /\ IsSar(p) /\ Same(p, r, {"out", "curline", "first"})
      /\ \E rows \in Nat : p.out = Append(r.out, [report |-> i, samples |-> << s >>, rows |-> rows,
                                                  from |-> r.pretime, to |-> r.curtime])
      /\ p.out \in Seq(LineSet) /\ Len(p.out) = Len(r.out) + 1
      /\ p.curline \in Nat /\ p.curline > r.curline /\ p.curline <= r.curline + MaxRows
  BY <1>1, <1>2, PrintedFacts
<1> HIDE DEF p
<1>4. PICK rows \in Nat : p.out = Append(r.out, [report |-> i, samples |-> << s >>, rows |-> rows,
                                                 from |-> r.pretime, to |-> r.curtime])
  BY <1>3
<1> DEFINE line == [report |-> i, samples |-> << s >>, rows |-> rows, from |-> r.pretime, to |-> r.curtime]
<1>5. /\ line \in LineSet /\ line.report = i /\ line.from = r.pretime /\ line.to = r.curtime
      /\ line.samples = << s >>
  BY <1>1, <1>2 DEF LineSet
<1> HIDE DEF line
<1>6. p.out = Append(r.out, line)
  BY <1>4 DEF line
<1>7. p.log = r.log /\ p.summarycnt = r.summarycnt
  BY <1>3 DEF Same, Fields
<1>8. LinesOK(p)
  BY <1>1, <1>2, <1>5, <1>6, <1>7, LinesAppend
<1>9. SarTypes(p)
  BY <1>3 DEF SarTypes, Same, Fields
<1> QED
  BY <1>3, <1>5, <1>6, <1>8, <1>9 DEF p

LEMMA OnlyOne ==
  ASSUME NEW r, SarTypes(r), CountOK(r), r.numreports = 1
  PROVE  Sar!Min(r.wanted) \in Reports /\ r.wanted = {Sar!Min(r.wanted)}
<1>1. r.wanted \in SUBSET Reports /\ Cardinality(r.wanted) = 1 /\ IsFiniteSet(r.wanted)
  BY WantedFinite DEF SarTypes, CountOK
<1>2. \E x : r.wanted = {x}
  BY <1>1, FS_Singleton
<1>3. r.wanted # {} /\ r.wanted \in SUBSET Nat
  BY <1>1, <1>2 DEF Reports
<1>4. Sar!Min(r.wanted) \in r.wanted
  BY <1>3, MinOfSome
<1> QED
  BY <1>1, <1>2, <1>4

LEMMA SampledFacts ==
  ASSUME NEW r, IsSar(r), r.pc # "done"
  PROVE  LET p == Sar!Sampled(r) IN
         IsSar(p) /\ Same(p, r, {"pc", "sampcnt"}) /\ p.pc = "live" /\ p.sampcnt = r.sampcnt + 1
BY DEF IsSar, Same, Fields, Sar!Sampled

\* One report: its line is printed, and the header when it is due.
LEMMA AloneFacts ==
  ASSUME Sar!SarAssumption, NEW r, SarTypes(r), LinesOK(r), HeadOK(r), CountOK(r), r.numreports = 1, r.pc = "live",
         NEW s \in SampleSet
  PROVE  LET p == Sar!Alone(r, s) IN
         /\ SarTypes(p) /\ LinesOK(p) /\ p.pc \in {"live", "done"}
         /\ p.pc = "live" => HeadOK(p)
         /\ \A f \in {"wanted", "numreports", "nsamples", "log", "sampcnt", "curtime", "summarycnt"} : p[f] = r[f]
         /\ r.sampcnt = 0 => p.out = r.out
         /\ r.sampcnt # 0 => \E line \in LineSet :
              /\ p.out = Append(r.out, line) /\ r.wanted = {line.report}
              /\ line.from = r.pretime /\ line.to = r.curtime
<1> DEFINE i == Sar!Min(r.wanted)
           d == Sar!DateLine(r, r.curtime)
           q == Sar!Printed(d, i, << s >>, d.pretime, d.curtime, FALSE, FALSE)
           p == Sar!Alone(r, s)
<1>0. /\ IsSar(r) /\ r.curline \in Nat /\ r.headline \in Nat /\ r.top \in Nat /\ r.repeathead \in Nat
      /\ r.headline <= r.top + r.repeathead
  BY DEF SarTypes, HeadOK
<1>1. i \in Reports /\ r.wanted = {i}
  BY OnlyOne
<1>2. IsSar(d) /\ Same(d, r, {"daylim", "curline"}) /\ d.curline \in Nat
  BY <1>0, DateLineFacts
<1>3. p = IF d.sampcnt = 0 THEN [d EXCEPT !.top = d.curline, !.curline = @ + 2, !.headline = d.repeathead]
          ELSE IF Sar!Failed(q) THEN [q EXCEPT !.pc = "done", !.code = 1] ELSE Sar!Header(q)
  BY DEF Sar!Alone, Sar!cleanstop
<1> HIDE DEF i, d, p
<1>4. SarTypes(d)
  BY <1>2 DEF SarTypes, Same, Fields
<1>5. LinesOK(d)
  BY <1>2 DEF LinesOK, Within, Same, Fields
<1>6. /\ d.wanted = r.wanted /\ d.numreports = r.numreports /\ d.nsamples = r.nsamples /\ d.log = r.log
      /\ d.sampcnt = r.sampcnt /\ d.curtime = r.curtime /\ d.pretime = r.pretime /\ d.summarycnt = r.summarycnt
      /\ d.out = r.out /\ d.pc = "live" /\ d.top = r.top /\ d.headline = r.headline /\ d.repeathead = r.repeathead
  BY <1>2 DEF Same, Fields
<1>7. MaxRows \in Nat /\ HeadBound(d) \in Nat /\ HeadBound(d) >= 2
  BY <1>0, <1>6, BoundFacts
<1>8. CASE r.sampcnt = 0
  <2>1. p = [d EXCEPT !.top = d.curline, !.curline = @ + 2, !.headline = d.repeathead]
    BY <1>3, <1>6, <1>8
  <2>2. /\ IsSar(p) /\ Same(p, d, {"top", "curline", "headline"}) /\ p.top = d.curline
        /\ p.curline = d.curline + 2 /\ p.headline = d.repeathead
    BY <1>2, <2>1 DEF IsSar, Same, Fields
  <2>3. SarTypes(p)
    <3>1. p.top \in Nat /\ p.curline \in Nat /\ p.headline \in Nat
      BY <1>0, <1>2, <1>6, <2>2
    <3> QED
      BY <1>4, <2>2, <3>1 DEF SarTypes, Same, Fields
  <2>4. LinesOK(p)
    BY <1>5, <2>2, ZenonT(60) DEF LinesOK, Within, Same, Fields
  <2>5. HeadOK(p)
    <3>1. p.repeathead = d.repeathead
      BY <2>2 DEF Same, Fields
    <3>2. HeadBound(p) = HeadBound(d)
      BY <3>1 DEF HeadBound
    <3> QED
      BY <1>0, <1>2, <1>6, <1>7, <2>2, <3>1, <3>2 DEF HeadOK
  <2>6. /\ p.wanted = d.wanted /\ p.numreports = d.numreports /\ p.nsamples = d.nsamples /\ p.log = d.log
        /\ p.sampcnt = d.sampcnt /\ p.curtime = d.curtime /\ p.summarycnt = d.summarycnt /\ p.out = d.out
        /\ p.pc = d.pc
    BY <2>2 DEF Same, Fields
  <2> QED
    BY <1>6, <1>8, <2>3, <2>4, <2>5, <2>6 DEF p
<1>9. CASE r.sampcnt # 0
  <2>1. /\ SarTypes(q) /\ LinesOK(q) /\ Same(q, d, {"out", "curline", "first"})
        /\ q.curline > d.curline /\ q.curline <= d.curline + MaxRows
        /\ \E line \in LineSet : /\ q.out = Append(d.out, line) /\ line.report = i
                                 /\ line.from = d.pretime /\ line.to = d.curtime
    BY <1>1, <1>4, <1>5, LivePrinted
  <2>2. p = IF Sar!Failed(q) THEN [q EXCEPT !.pc = "done", !.code = 1] ELSE Sar!Header(q)
    BY <1>3, <1>6, <1>9
  <2> HIDE DEF q
  <2>3. /\ q.wanted = d.wanted /\ q.numreports = d.numreports /\ q.nsamples = d.nsamples /\ q.log = d.log
        /\ q.sampcnt = d.sampcnt /\ q.curtime = d.curtime /\ q.summarycnt = d.summarycnt
        /\ q.pc = d.pc /\ q.top = d.top /\ q.headline = d.headline /\ q.repeathead = d.repeathead
    BY <2>1 DEF Same, Fields
  <2>4. IsSar(q) /\ q.curline \in Nat
    BY <2>1 DEF SarTypes
  <2>5. CASE Sar!Failed(q)
    <3>1. p = [q EXCEPT !.pc = "done", !.code = 1]
      BY <2>2, <2>5
    <3>2. IsSar(p) /\ Same(p, q, {"pc", "code"}) /\ p.pc = "done"
      BY <2>4, <3>1 DEF IsSar, Same, Fields
    <3>3. SarTypes(p)
      BY <2>1, <3>2 DEF SarTypes, Same, Fields, SarLabels
    <3>4. LinesOK(p)
      BY <2>1, <3>2 DEF LinesOK, Within, Same, Fields
    <3>5. /\ p.wanted = q.wanted /\ p.numreports = q.numreports /\ p.nsamples = q.nsamples /\ p.log = q.log
          /\ p.sampcnt = q.sampcnt /\ p.curtime = q.curtime /\ p.summarycnt = q.summarycnt /\ p.out = q.out
      BY <3>2 DEF Same, Fields
    <3> QED
      BY <1>1, <1>6, <1>9, <2>1, <2>3, <3>2, <3>3, <3>4, <3>5, ZenonT(60) DEF p
  <2>6. CASE ~Sar!Failed(q)
    <3>1. p = Sar!Header(q)
      BY <2>2, <2>6
    <3>2. /\ IsSar(p) /\ Same(p, q, {"headline", "top", "curline"})
          /\ p.curline \in Nat /\ p.headline \in Nat /\ p.top \in Nat /\ p.headline <= p.top + p.repeathead
          /\ p.curline - p.top <= HeadBound(p)
      BY <1>0, <1>6, <2>3, <2>4, <3>1, HeaderFacts
    <3>3. SarTypes(p)
      BY <2>1, <3>2 DEF SarTypes, Same, Fields
    <3>4. LinesOK(p)
      BY <2>1, <3>2 DEF LinesOK, Within, Same, Fields
    <3>5. /\ p.wanted = q.wanted /\ p.numreports = q.numreports /\ p.nsamples = q.nsamples /\ p.log = q.log
          /\ p.sampcnt = q.sampcnt /\ p.curtime = q.curtime /\ p.summarycnt = q.summarycnt /\ p.out = q.out
          /\ p.pc = q.pc /\ p.repeathead = q.repeathead
      BY <3>2 DEF Same, Fields
    <3>6. HeadOK(p)
      <4>1. HeadBound(p) \in Nat
        BY <1>0, <1>6, <2>3, <3>5, BoundFacts
      <4> QED
        BY <1>7, <3>2, <4>1 DEF HeadOK
    <3> QED
      BY <1>1, <1>6, <1>9, <2>1, <2>3, <3>3, <3>4, <3>5, <3>6, ZenonT(60) DEF p
  <2> QED
    BY <2>5, <2>6
<1> QED
  BY <1>8, <1>9

LEMMA SameLines ==
  ASSUME NEW r, LinesOK(r), NEW p, p.out = r.out, p.log = r.log, p.summarycnt = r.summarycnt
  PROVE  LinesOK(p)
BY DEF LinesOK, Within

LEMMA SameHead ==
  ASSUME NEW r, HeadOK(r), NEW p, p.curline = r.curline, p.headline = r.headline, p.top = r.top,
         p.repeathead = r.repeathead
  PROVE  HeadOK(p)
BY DEF HeadOK, HeadBound

LEMMA EngineInv ==
  ASSUME Sar!SarAssumption, SarInv(sar), Sar!engine
  PROVE  SarInv(sar')
<1>1. /\ sar.pc = "live" /\ sar.sampcnt < sar.nsamples + 1
      /\ SarTypes(sar) /\ IsSar(sar) /\ LinesOK(sar) /\ HeadOK(sar) /\ CountOK(sar) /\ LiveOK(sar)
      /\ sar.numreports > 0 /\ sar.numreports \in Int /\ sar.curtime \in Int
  BY DEF Sar!engine, SarInv, SarTypes
<1>2. PICK dt \in {0, 2} :
        LET r == Sar!Clock(sar, dt)
        IN sar' = IF r.numreports > 1
                  THEN IF r.sampcnt = 0 THEN Sar!Sampled(r) ELSE [r EXCEPT !.pc = "together", !.prinow = 0]
                  ELSE Sar!Sampled(Sar!Alone(r, Sar!LiveSample(r)))
  BY DEF Sar!engine
<1> DEFINE r == Sar!Clock(sar, dt)
           p == sar'
<1>3. /\ IsSar(r) /\ Same(r, sar, {"pretime", "curtime"}) /\ r.pretime = sar.curtime /\ r.curtime = sar.curtime + dt
  BY <1>1 DEF Sar!Clock, IsSar, Same, Fields
<1>4. p = IF r.numreports > 1
          THEN IF r.sampcnt = 0 THEN Sar!Sampled(r) ELSE [r EXCEPT !.pc = "together", !.prinow = 0]
          ELSE Sar!Sampled(Sar!Alone(r, Sar!LiveSample(r)))
  BY <1>2
<1> HIDE DEF r, p
<1>5. /\ r.pc = "live" /\ r.sampcnt = sar.sampcnt /\ r.nsamples = sar.nsamples /\ r.numreports = sar.numreports
      /\ r.wanted = sar.wanted /\ r.out = sar.out /\ r.log = sar.log /\ r.summarycnt = sar.summarycnt
      /\ r.curline = sar.curline /\ r.top = sar.top /\ r.headline = sar.headline /\ r.repeathead = sar.repeathead
  BY <1>1, <1>3 DEF Same, Fields
<1>6. r.curtime \in Int /\ r.pretime \in Int
  BY <1>1, <1>3
<1>7. SarTypes(r)
  BY <1>1, <1>3, <1>6 DEF SarTypes, Same, Fields
<1>8. LinesOK(r) /\ HeadOK(r) /\ CountOK(r)
  BY <1>1, <1>5 DEF LinesOK, Within, HeadOK, HeadBound, CountOK
<1>9. /\ r.out \in Seq(LineSet) /\ r.sampcnt \in Nat /\ r.nsamples \in Nat /\ r.sampcnt <= r.nsamples
      /\ r.nsamples = Len(r.log) /\ r.nsamples > 0 /\ r.log \in Seq(SampleSet)
  <2>1. r.out \in Seq(LineSet) /\ r.sampcnt \in Nat /\ r.nsamples \in Nat /\ r.log \in Seq(SampleSet)
    BY <1>7 DEF SarTypes
  <2>2. sar.nsamples = Len(sar.log) /\ sar.nsamples > 0
    BY <1>1 DEF LiveOK
  <2> QED
    BY <1>1, <1>5, <2>1, <2>2
<1>10. \A i \in r.wanted : Tiled(r.out, i, IF r.sampcnt = 0 THEN 0 ELSE r.sampcnt - 1, r.pretime)
  <2>1. \A i \in sar.wanted : Tiled(sar.out, i, IF sar.sampcnt = 0 THEN 0 ELSE sar.sampcnt - 1, sar.curtime)
    BY <1>1 DEF LiveOK
  <2> QED
    BY <1>3, <1>5, <2>1
<1>11. CASE r.numreports > 1 /\ r.sampcnt = 0
  <2>1. p = Sar!Sampled(r)
    BY <1>4, <1>11
  <2>2. IsSar(p) /\ Same(p, r, {"pc", "sampcnt"}) /\ p.pc = "live" /\ p.sampcnt = 1
    BY <1>3, <1>5, <1>11, <2>1, SampledFacts
  <2>b. p.sampcnt \in Nat /\ p.pc \in SarLabels
    BY <2>2 DEF SarLabels
  <2>3. SarTypes(p)
    BY <1>7, <2>2, <2>b DEF SarTypes, Same, Fields
  <2>a. /\ p.out = r.out /\ p.log = r.log /\ p.summarycnt = r.summarycnt /\ p.curline = r.curline
        /\ p.headline = r.headline /\ p.top = r.top /\ p.repeathead = r.repeathead
        /\ p.wanted = r.wanted /\ p.numreports = r.numreports
    BY <2>2 DEF Same, Fields
  <2>4. LinesOK(p) /\ HeadOK(p) /\ CountOK(p) /\ p.numreports > 0
    BY <1>1, <1>5, <1>8, <2>a, SameLines, SameHead DEF CountOK
  <2>5. p.wanted = r.wanted /\ p.out = r.out /\ p.curtime = r.curtime /\ p.nsamples = r.nsamples /\ p.log = r.log
    BY <2>2 DEF Same, Fields
  <2>6. \A i \in p.wanted : Tiled(p.out, i, 0, p.curtime)
    BY <1>9, <1>10, <1>11, <2>5, TiledNone
  <2>7. LiveOK(p)
    BY <1>9, <2>2, <2>5, <2>6 DEF LiveOK
  <2> QED
    BY <2>2, <2>3, <2>4, <2>7 DEF SarInv, p
<1>12. CASE r.numreports > 1 /\ r.sampcnt # 0
  <2>1. p = [r EXCEPT !.pc = "together", !.prinow = 0]
    BY <1>4, <1>12
  <2>2. IsSar(p) /\ Same(p, r, {"pc", "prinow"}) /\ p.pc = "together" /\ p.prinow = 0
    BY <1>3, <2>1 DEF IsSar, Same, Fields
  <2>3. SarTypes(p)
    BY <1>7, <2>2 DEF SarTypes, Same, Fields, SarLabels
  <2>a. /\ p.out = r.out /\ p.log = r.log /\ p.summarycnt = r.summarycnt /\ p.curline = r.curline
        /\ p.headline = r.headline /\ p.top = r.top /\ p.repeathead = r.repeathead
        /\ p.wanted = r.wanted /\ p.numreports = r.numreports
    BY <2>2 DEF Same, Fields
  <2>4. LinesOK(p) /\ HeadOK(p) /\ CountOK(p) /\ p.numreports > 0
    BY <1>1, <1>5, <1>8, <2>a, SameLines, SameHead DEF CountOK
  <2>5. /\ p.wanted = r.wanted /\ p.out = r.out /\ p.curtime = r.curtime /\ p.pretime = r.pretime
        /\ p.nsamples = r.nsamples /\ p.log = r.log /\ p.sampcnt = r.sampcnt
    BY <2>2 DEF Same, Fields
  <2>6. \A i \in p.wanted : ~(i <= p.prinow) /\ Tiled(p.out, i, p.sampcnt - 1, p.pretime)
    <3>1. \A i \in p.wanted : i \in Reports
      BY <2>3 DEF SarTypes
    <3> QED
      BY <1>10, <1>12, <2>2, <2>5, <3>1 DEF Reports
  <2>7. LiveOK(p)
    BY <1>9, <1>12, <2>2, <2>5, <2>6 DEF LiveOK
  <2> QED
    BY <2>2, <2>3, <2>4, <2>7 DEF SarInv, p
<1>13. CASE ~(r.numreports > 1)
  <2> DEFINE s == Sar!LiveSample(r)
             q == Sar!Alone(r, s)
  <2>1. r.numreports = 1
    BY <1>1, <1>5, <1>13
  <2>2. s \in SampleSet
    <3>1. (IF r.sampcnt = 0 THEN 1 ELSE r.sampcnt) \in 1 .. Len(r.log)
      BY <1>9
    <3> QED
      BY <1>9, <3>1 DEF Sar!LiveSample
  <2>3. p = Sar!Sampled(q)
    BY <1>4, <1>13
  <2> HIDE DEF s
  <2>4. /\ SarTypes(q) /\ LinesOK(q) /\ q.pc \in {"live", "done"}
        /\ q.pc = "live" => HeadOK(q)
        /\ \A f \in {"wanted", "numreports", "nsamples", "log", "sampcnt", "curtime", "summarycnt"} : q[f] = r[f]
        /\ r.sampcnt = 0 => q.out = r.out
        /\ r.sampcnt # 0 => \E line \in LineSet :
              /\ q.out = Append(r.out, line) /\ r.wanted = {line.report}
              /\ line.from = r.pretime /\ line.to = r.curtime
    BY <1>5, <1>7, <1>8, <2>1, <2>2, AloneFacts
  <2> HIDE DEF q
  <2>5. CASE q.pc = "done"
    <3>1. p = q
      BY <2>3, <2>5 DEF Sar!Sampled
    <3> QED
      BY <2>4, <2>5, <3>1 DEF SarInv, p
  <2>6. CASE q.pc = "live"
    <3>1. IsSar(q)
      BY <2>4 DEF SarTypes
    <3>2. IsSar(p) /\ Same(p, q, {"pc", "sampcnt"}) /\ p.pc = "live" /\ p.sampcnt = q.sampcnt + 1
      BY <2>3, <2>6, <3>1, SampledFacts
    <3>3. q.sampcnt = r.sampcnt /\ q.wanted = r.wanted /\ q.curtime = r.curtime /\ q.nsamples = r.nsamples /\ q.log = r.log
          /\ q.numreports = r.numreports
      BY <2>4
    <3>4. p.sampcnt \in Nat
      BY <1>9, <3>2, <3>3
    <3>5. SarTypes(p)
      BY <2>4, <3>2, <3>4 DEF SarTypes, Same, Fields, SarLabels
    <3>6. /\ p.wanted = r.wanted /\ p.curtime = r.curtime /\ p.nsamples = r.nsamples /\ p.log = r.log
          /\ p.numreports = r.numreports /\ p.out = q.out
      BY <3>2, <3>3 DEF Same, Fields
    <3>a. /\ p.out = q.out /\ p.log = q.log /\ p.summarycnt = q.summarycnt /\ p.curline = q.curline
          /\ p.headline = q.headline /\ p.top = q.top /\ p.repeathead = q.repeathead
      BY <3>2 DEF Same, Fields
    <3>7. LinesOK(p) /\ HeadOK(p)
      BY <2>4, <2>6, <3>a, SameLines, SameHead
    <3>8. CountOK(p) /\ p.numreports > 0
      <4>1. p.numreports > 0
        BY <2>1, <3>6
      <4>2. CountOK(p)
        BY <1>8, <3>6 DEF CountOK
      <4> QED
        BY <4>1, <4>2
    <3>9. \A i \in p.wanted : Tiled(p.out, i, r.sampcnt, p.curtime)
      <4>1. CASE r.sampcnt = 0
        BY <1>9, <1>10, <2>4, <3>6, <4>1, TiledNone
      <4>2. CASE r.sampcnt # 0
        <5>1. PICK line \in LineSet : /\ q.out = Append(r.out, line) /\ r.wanted = {line.report}
                                      /\ line.from = r.pretime /\ line.to = r.curtime
          BY <2>4, <4>2
        <5>2. Tiled(r.out, line.report, r.sampcnt - 1, r.pretime)
          BY <1>10, <4>2, <5>1
        <5>3. r.sampcnt - 1 \in Nat /\ (r.sampcnt - 1) + 1 = r.sampcnt
          BY <1>9, <4>2
        <5>4. Tiled(q.out, line.report, (r.sampcnt - 1) + 1, line.to)
          BY <1>9, <5>1, <5>2, <5>3, TiledNext
        <5> QED
          BY <3>6, <5>1, <5>3, <5>4
      <4> QED
        BY <4>1, <4>2
    <3>10. LiveOK(p)
      <4>1. p.sampcnt # 0 /\ p.sampcnt - 1 = r.sampcnt
        BY <1>9, <3>2, <3>3
      <4> QED
        BY <1>9, <3>2, <3>3, <3>6, <3>9, <4>1 DEF LiveOK
    <3> QED
      BY <3>2, <3>5, <3>7, <3>8, <3>10 DEF SarInv, p
  <2> QED
    BY <2>4, <2>5, <2>6
<1> QED
  BY <1>11, <1>12, <1>13

LEMMA EngineEndsInv ==
  ASSUME Sar!SarAssumption, SarInv(sar), Sar!EngineEnds
  PROVE  SarInv(sar')
<1> DEFINE p == sar'
<1>1. SarTypes(sar) /\ IsSar(sar) /\ LinesOK(sar) /\ p = [sar EXCEPT !.pc = "done", !.code = 0]
  BY DEF Sar!EngineEnds, SarInv, SarTypes, Sar!cleanstop
<1> HIDE DEF p
<1>2. IsSar(p) /\ Same(p, sar, {"pc", "code"}) /\ p.pc = "done"
  BY <1>1 DEF IsSar, Same, Fields
<1>3. SarTypes(p)
  BY <1>1, <1>2 DEF SarTypes, Same, Fields, SarLabels
<1>4. p.out = sar.out /\ p.log = sar.log /\ p.summarycnt = sar.summarycnt
  BY <1>2 DEF Same, Fields
<1> QED
  BY <1>1, <1>2, <1>3, <1>4, StopKeeps DEF p

LEMMA TogetherInv ==
  ASSUME Sar!SarAssumption, SarInv(sar), Sar!Together
  PROVE  SarInv(sar')
<1>1. /\ sar.pc = "together"
      /\ SarTypes(sar) /\ IsSar(sar) /\ LinesOK(sar) /\ HeadOK(sar) /\ CountOK(sar) /\ LiveOK(sar)
      /\ sar.numreports > 0 /\ sar.numreports \in Int /\ sar.curtime \in Int /\ sar.pretime \in Int
  BY DEF Sar!Together, SarInv, SarTypes
<1>2. /\ sar.out \in Seq(LineSet) /\ sar.sampcnt \in Nat /\ sar.log \in Seq(SampleSet) /\ sar.curline \in Nat
      /\ sar.wanted \in SUBSET Reports
  BY <1>1 DEF SarTypes
<1>3. /\ sar.sampcnt \in 1 .. sar.nsamples /\ sar.nsamples = Len(sar.log) /\ sar.nsamples \in Nat /\ sar.prinow \in Nat
      /\ \A i \in sar.wanted : IF i <= sar.prinow THEN Tiled(sar.out, i, sar.sampcnt, sar.curtime)
                               ELSE Tiled(sar.out, i, sar.sampcnt - 1, sar.pretime)
  BY <1>1 DEF LiveOK, SarTypes
<1>a. ASSUME NEW k \in sar.wanted PROVE k \in Nat /\ k \in Reports
  <2>1. k \in Reports
    BY <1>2
  <2> QED
    BY <2>1 DEF Reports
<1> DEFINE p == sar'
           later == {i \in sar.wanted : i > sar.prinow}
<1>4. CASE later = {}
  <2>1. p = Sar!Sampled(sar)
    BY <1>4 DEF Sar!Together
  <2>2. \A i \in sar.wanted : i <= sar.prinow
    BY <1>3, <1>4, <1>a
  <2> HIDE DEF p, later
  <2>3. IsSar(p) /\ Same(p, sar, {"pc", "sampcnt"}) /\ p.pc = "live" /\ p.sampcnt = sar.sampcnt + 1
    BY <1>1, <2>1, SampledFacts
  <2>4. p.sampcnt \in Nat /\ p.pc \in SarLabels /\ p.sampcnt # 0 /\ p.sampcnt - 1 = sar.sampcnt
    BY <1>2, <2>3 DEF SarLabels
  <2>5. SarTypes(p)
    BY <1>1, <2>3, <2>4 DEF SarTypes, Same, Fields
  <2>6. /\ p.out = sar.out /\ p.log = sar.log /\ p.summarycnt = sar.summarycnt /\ p.curline = sar.curline
        /\ p.headline = sar.headline /\ p.top = sar.top /\ p.repeathead = sar.repeathead
        /\ p.wanted = sar.wanted /\ p.numreports = sar.numreports /\ p.curtime = sar.curtime /\ p.nsamples = sar.nsamples
    BY <2>3 DEF Same, Fields
  <2>7. LinesOK(p) /\ HeadOK(p) /\ CountOK(p) /\ p.numreports > 0
    BY <1>1, <2>6, SameLines, SameHead DEF CountOK
  <2>8. \A i \in p.wanted : Tiled(p.out, i, p.sampcnt - 1, p.curtime)
    BY <1>3, <2>2, <2>4, <2>6
  <2>9. LiveOK(p)
    BY <1>3, <2>3, <2>4, <2>6, <2>8 DEF LiveOK
  <2> QED
    BY <2>3, <2>5, <2>7, <2>9 DEF SarInv, p
<1>5. CASE later # {}
  <2> DEFINE i == Sar!Min(later)
             s == Sar!LiveSample(sar)
             q0 == Sar!Printed(sar, i, << s >>, sar.pretime, sar.curtime, FALSE, FALSE)
             q == [q0 EXCEPT !.curline = sar.curline, !.prinow = i]
  <2>1. p = IF Sar!Failed(q) THEN Sar!NotAgain(q, i) ELSE q
    BY <1>5 DEF Sar!Together
  <2>2. i \in sar.wanted /\ i > sar.prinow /\ i \in Reports /\ i \in Nat /\ \A k \in later : i <= k
    <3>1. later \in SUBSET Nat
      BY <1>a
    <3>2. i \in later /\ \A k \in later : i <= k
      BY <1>5, <3>1, MinOfSome
    <3> QED
      BY <1>a, <3>2
  <2>3. \A k \in sar.wanted : k \in Nat /\ (k < i <=> k <= sar.prinow)
    <3>1. ASSUME NEW k \in sar.wanted PROVE k \in Nat /\ (k < i <=> k <= sar.prinow)
      <4>1. k \in Nat
        BY <1>a
      <4>2. k > sar.prinow => i <= k
        BY <2>2
      <4> QED
        BY <1>3, <2>2, <4>1, <4>2
    <3> QED
      BY <3>1
  <2> HIDE DEF p, later, i
  <2>4. s \in SampleSet
    <3>1. sar.sampcnt # 0 /\ sar.sampcnt \in 1 .. Len(sar.log)
      BY <1>3
    <3> QED
      BY <1>2, <3>1 DEF Sar!LiveSample
  <2> HIDE DEF s
  <2>5. /\ SarTypes(q0) /\ LinesOK(q0) /\ Same(q0, sar, {"out", "curline", "first"})
        /\ \E line \in LineSet : /\ q0.out = Append(sar.out, line) /\ line.report = i
                                 /\ line.from = sar.pretime /\ line.to = sar.curtime
    BY <1>1, <2>2, <2>4, LivePrinted
  <2> HIDE DEF q0
  <2>6. IsSar(q0)
    BY <2>5 DEF SarTypes
  <2>7. IsSar(q) /\ Same(q, q0, {"curline", "prinow"}) /\ q.curline = sar.curline /\ q.prinow = i
    BY <2>6 DEF IsSar, Same, Fields
  <2> HIDE DEF q
  <2>8. /\ q.out = q0.out /\ q.log = sar.log /\ q.summarycnt = sar.summarycnt
        /\ q.headline = sar.headline /\ q.top = sar.top /\ q.repeathead = sar.repeathead
        /\ q.wanted = sar.wanted /\ q.numreports = sar.numreports /\ q.curtime = sar.curtime /\ q.pretime = sar.pretime
        /\ q.nsamples = sar.nsamples /\ q.sampcnt = sar.sampcnt /\ q.pc = "together"
        /\ q0.log = sar.log /\ q0.summarycnt = sar.summarycnt
    BY <1>1, <2>5, <2>7 DEF Same, Fields
  <2>9. SarTypes(q)
    BY <1>2, <2>5, <2>7 DEF SarTypes, Same, Fields
  <2>10. LinesOK(q) /\ HeadOK(q)
    BY <1>1, <2>5, <2>7, <2>8, SameLines, SameHead
  <2>11. PICK line \in LineSet : /\ q.out = Append(sar.out, line) /\ line.report = i
                                 /\ line.from = sar.pretime /\ line.to = sar.curtime
    BY <2>5, <2>8
  <2>12. sar.sampcnt - 1 \in Nat /\ (sar.sampcnt - 1) + 1 = sar.sampcnt
    BY <1>3
  <2>13. ASSUME NEW k \in sar.wanted
         PROVE  IF k <= i THEN Tiled(q.out, k, sar.sampcnt, sar.curtime)
                ELSE Tiled(q.out, k, sar.sampcnt - 1, sar.pretime)
    <3>1. CASE k = i
      <4>1. Tiled(sar.out, i, sar.sampcnt - 1, sar.pretime)
        BY <1>3, <2>2, <2>3, <3>1
      <4>2. Tiled(q.out, i, (sar.sampcnt - 1) + 1, line.to)
        BY <1>2, <2>11, <2>12, <4>1, TiledNext
      <4> QED
        BY <2>2, <2>11, <2>12, <3>1, <4>2
    <3>2. CASE k # i
      <4>1. k <= i <=> k <= sar.prinow
        BY <2>2, <2>3, <3>2
      <4>2. IF k <= i THEN Tiled(sar.out, k, sar.sampcnt, sar.curtime)
            ELSE Tiled(sar.out, k, sar.sampcnt - 1, sar.pretime)
        BY <1>3, <4>1
      <4> QED
        BY <1>2, <2>11, <3>2, <4>2, TiledOther
    <3> QED
      BY <3>1, <3>2
  <2>14. CASE ~Sar!Failed(q)
    <3>1. p = q
      BY <2>1, <2>14
    <3>2. LiveOK(p)
      BY <1>1, <1>3, <2>2, <2>7, <2>8, <2>13, <3>1 DEF LiveOK
    <3>3. CountOK(p) /\ p.numreports > 0
      BY <1>1, <2>8, <3>1 DEF CountOK
    <3> QED
      BY <2>8, <2>9, <2>10, <3>1, <3>2, <3>3 DEF SarInv, p
  <2>15. CASE Sar!Failed(q)
    <3>1. p = Sar!NotAgain(q, i)
      BY <2>1, <2>15
    <3>2. /\ IsSar(p) /\ Same(p, q, {"wanted", "numreports", "pc", "code"})
          /\ p.wanted = q.wanted \ {i} /\ p.numreports = q.numreports - 1
          /\ p.pc = IF q.numreports = 1 THEN "done" ELSE q.pc
      BY <1>1, <2>7, <2>8, <3>1, NotAgainFacts
    <3>3. p.wanted \in SUBSET Reports /\ p.numreports \in Int /\ p.pc \in {"together", "done"}
      BY <1>1, <1>2, <2>8, <3>2
    <3>4. SarTypes(p)
      BY <2>9, <3>2, <3>3 DEF SarTypes, Same, Fields, SarLabels
    <3>5. /\ p.out = q.out /\ p.log = q.log /\ p.summarycnt = q.summarycnt /\ p.curline = q.curline
          /\ p.headline = q.headline /\ p.top = q.top /\ p.repeathead = q.repeathead
          /\ p.curtime = q.curtime /\ p.pretime = q.pretime /\ p.nsamples = q.nsamples /\ p.sampcnt = q.sampcnt
          /\ p.prinow = q.prinow
      BY <3>2 DEF Same, Fields
    <3>6. LinesOK(p) /\ HeadOK(p)
      BY <2>10, <3>5, SameLines, SameHead
    <3>7. CASE p.pc = "done"
      BY <3>4, <3>6, <3>7 DEF SarInv, p
    <3>8. CASE p.pc = "together"
      <4>1. q.numreports # 1 /\ p.numreports > 0
        BY <1>1, <2>8, <3>2, <3>8
      <4>2. CountOK(p)
        <5>1. sar.numreports = Cardinality(sar.wanted) /\ IsFiniteSet(sar.wanted)
          BY <1>1, <1>2, WantedFinite DEF CountOK
        <5>2. Cardinality(sar.wanted \ {i}) = Cardinality(sar.wanted) - 1
          BY <2>2, <5>1, FS_RemoveElement
        <5> QED
          BY <2>8, <3>2, <5>1, <5>2 DEF CountOK
      <4>3. \A k \in p.wanted : k \in sar.wanted
        BY <2>8, <3>2
      <4>4. LiveOK(p)
        BY <1>1, <1>3, <2>2, <2>7, <2>8, <2>13, <3>5, <3>8, <4>3 DEF LiveOK
      <4> QED
        BY <3>4, <3>6, <3>8, <4>1, <4>2, <4>4 DEF SarInv, p
    <3> QED
      BY <3>3, <3>7, <3>8
  <2> QED
    BY <2>14, <2>15
<1> QED
  BY <1>4, <1>5

---------------------------------------------------------------------------
(* atopsar: the lines made of the samples of a log.                          *)

LEMMA AppendedSample ==
  ASSUME NEW t \in Seq(SampleSet), NEW s \in SampleSet, NEW u, u = Append(t, s)
  PROVE  /\ u \in Seq(SampleSet) /\ Len(u) = Len(t) + 1 /\ Len(t) \in Nat
         /\ \A k \in 1 .. Len(t) : u[k] = t[k]
         /\ u[Len(t) + 1] = s
OBVIOUS

\* The samples added up are printed as a line.
LEMMA ToldMove ==
  ASSUME NEW o \in Seq(LineSet), NEW t \in Seq(SampleSet), NEW sh \in Seq(SampleSet), Told(o, t, sh),
         NEW line \in LineSet, line.samples = t, NEW q, q = Append(o, line)
  PROVE  Told(q, << >>, sh)
<1>1. /\ Len(q) = Len(o) + 1 /\ Len(o) \in Nat /\ q[Len(o) + 1] = line
      /\ \A k \in 1 .. Len(o) : q[k] = o[k]
  BY AppendedLine
<1>2. ASSUME NEW k \in 1 .. Len(q), NEW m \in 1 .. Len(q[k].samples)
      PROVE  \E j \in 2 .. Len(sh) : Counts(sh, j) /\ q[k].samples[m] = sh[j]
  <2>1. CASE k = Len(o) + 1
    <3>1. q[k].samples = t /\ m \in 1 .. Len(t)
      BY <1>1, <1>2, <2>1
    <3>2. \A n \in 1 .. Len(t) : \E j \in 2 .. Len(sh) : Counts(sh, j) /\ t[n] = sh[j]
      BY DEF Told
    <3> QED
      BY <3>1, <3>2
  <2>2. CASE k \in 1 .. Len(o)
    <3>1. q[k] = o[k] /\ m \in 1 .. Len(o[k].samples)
      BY <1>1, <1>2, <2>2
    <3>2. \A l \in 1 .. Len(o) : \A n \in 1 .. Len(o[l].samples) :
            \E j \in 2 .. Len(sh) : Counts(sh, j) /\ o[l].samples[n] = sh[j]
      BY DEF Told
    <3>3. \E j \in 2 .. Len(sh) : Counts(sh, j) /\ o[k].samples[m] = sh[j]
      BY <2>2, <3>1, <3>2
    <3> QED
      BY <3>1, <3>3
  <2>3. k \in 1 .. Len(o) \/ k = Len(o) + 1
    BY <1>1
  <2> QED
    BY <2>1, <2>2, <2>3
<1>3. ASSUME NEW j \in 2 .. Len(sh), Counts(sh, j)
      PROVE  \E k \in 1 .. Len(q) : \E m \in 1 .. Len(q[k].samples) : q[k].samples[m] = sh[j]
  <2>1. CASE \E m \in 1 .. Len(t) : t[m] = sh[j]
    <3>1. PICK m \in 1 .. Len(t) : t[m] = sh[j]
      BY <2>1
    <3>2. Len(o) + 1 \in 1 .. Len(q) /\ q[Len(o) + 1].samples = t
      BY <1>1
    <3> QED
      BY <3>1, <3>2
  <2>2. CASE \E k \in 1 .. Len(o) : \E m \in 1 .. Len(o[k].samples) : o[k].samples[m] = sh[j]
    <3>1. PICK k \in 1 .. Len(o) : \E m \in 1 .. Len(o[k].samples) : o[k].samples[m] = sh[j]
      BY <2>2
    <3>2. k \in 1 .. Len(q) /\ q[k] = o[k]
      BY <1>1
    <3> QED
      BY <3>1, <3>2
  <2> QED
    BY <1>3, <2>1, <2>2 DEF Told
<1>4. 1 .. Len(<< >>) = {}
  OBVIOUS
<1> QED
  BY <1>2, <1>3, <1>4 DEF Told

LEMMA SortedMove ==
  ASSUME NEW o \in Seq(LineSet), NEW t \in Seq(SampleSet), Sorted(o, t),
         NEW line \in LineSet, line.samples = t, NEW q, q = Append(o, line)
  PROVE  Sorted(q, << >>)
<1>1. /\ Len(q) = Len(o) + 1 /\ Len(o) \in Nat /\ q[Len(o) + 1] = line
      /\ \A k \in 1 .. Len(o) : q[k] = o[k]
  BY AppendedLine
<1>2. ASSUME NEW k \in 1 .. Len(q), NEW l \in 1 .. Len(q), NEW m \in 1 .. Len(q[k].samples),
             NEW n \in 1 .. Len(q[l].samples), k < l \/ (k = l /\ m < n)
      PROVE  q[k].samples[m].time < q[l].samples[n].time
  <2>1. CASE l = Len(o) + 1 /\ k = l
    <3>1. q[k].samples = t /\ q[l].samples = t /\ m \in 1 .. Len(t) /\ n \in 1 .. Len(t) /\ m < n
      BY <1>1, <1>2, <2>1
    <3> QED
      BY <3>1 DEF Sorted
  <2>2. CASE l = Len(o) + 1 /\ k \in 1 .. Len(o)
    <3>1. q[l].samples = t /\ n \in 1 .. Len(t) /\ q[k] = o[k] /\ m \in 1 .. Len(o[k].samples)
      BY <1>1, <1>2, <2>2
    <3> QED
      BY <2>2, <3>1 DEF Sorted
  <2>3. CASE l \in 1 .. Len(o)
    <3>1. k \in 1 .. Len(o) /\ q[k] = o[k] /\ q[l] = o[l]
      BY <1>1, <1>2, <2>3
    <3> QED
      BY <1>2, <2>3, <3>1 DEF Sorted
  <2> QED
    BY <1>1, <1>2, <2>1, <2>2, <2>3
<1>3. 1 .. Len(<< >>) = {}
  OBVIOUS
<1> QED
  BY <1>2, <1>3 DEF Sorted

\* A sample that is added up.
LEMMA ToldAdd ==
  ASSUME NEW o \in Seq(LineSet), NEW t \in Seq(SampleSet), NEW sh \in Seq(SampleSet), sh # << >>, Told(o, t, sh),
         NEW s \in SampleSet, ~s.boot, NEW u, u = Append(t, s), NEW th, th = Append(sh, s)
  PROVE  Told(o, u, th)
<1>1. /\ Len(u) = Len(t) + 1 /\ Len(t) \in Nat /\ u[Len(t) + 1] = s /\ \A k \in 1 .. Len(t) : u[k] = t[k]
  BY AppendedSample
<1>2. /\ Len(th) = Len(sh) + 1 /\ Len(sh) \in Nat /\ th[Len(sh) + 1] = s /\ \A k \in 1 .. Len(sh) : th[k] = sh[k]
  BY AppendedSample
<1>3. Len(sh) > 0
  BY <1>2
<1>4. \A j \in 2 .. Len(sh) : Counts(sh, j) => j \in 2 .. Len(th) /\ Counts(th, j) /\ th[j] = sh[j]
  BY <1>2 DEF Counts
<1>5. Len(th) \in 2 .. Len(th) /\ Counts(th, Len(th)) /\ th[Len(th)] = s
  BY <1>2, <1>3 DEF Counts
<1>6. \A k \in 1 .. Len(o) : \A m \in 1 .. Len(o[k].samples) :
        \E j \in 2 .. Len(th) : Counts(th, j) /\ o[k].samples[m] = th[j]
  BY <1>4 DEF Told
<1>7. ASSUME NEW m \in 1 .. Len(u) PROVE \E j \in 2 .. Len(th) : Counts(th, j) /\ u[m] = th[j]
  <2>1. CASE m = Len(t) + 1
    BY <1>1, <1>5, <2>1
  <2>2. CASE m \in 1 .. Len(t)
    BY <1>1, <1>4, <2>2 DEF Told
  <2> QED
    BY <1>1, <2>1, <2>2
<1>8. ASSUME NEW j \in 2 .. Len(th), Counts(th, j)
      PROVE  \/ \E m \in 1 .. Len(u) : u[m] = th[j]
             \/ \E k \in 1 .. Len(o) : \E m \in 1 .. Len(o[k].samples) : o[k].samples[m] = th[j]
  <2>1. CASE j = Len(th)
    <3>1. Len(t) + 1 \in 1 .. Len(u) /\ u[Len(t) + 1] = th[j]
      BY <1>1, <1>5, <2>1
    <3> QED
      BY <3>1
  <2>2. CASE j # Len(th)
    <3>1. j \in 2 .. Len(sh) /\ th[j] = sh[j] /\ Counts(sh, j)
      BY <1>2, <1>8, <2>2 DEF Counts
    <3>2. CASE \E m \in 1 .. Len(t) : t[m] = sh[j]
      <4>1. PICK m \in 1 .. Len(t) : t[m] = sh[j]
        BY <3>2
      <4>2. m \in 1 .. Len(u) /\ u[m] = th[j]
        BY <1>1, <3>1, <4>1
      <4> QED
        BY <4>2
    <3>3. CASE \E k \in 1 .. Len(o) : \E m \in 1 .. Len(o[k].samples) : o[k].samples[m] = sh[j]
      BY <3>1, <3>3
    <3> QED
      BY <3>1, <3>2, <3>3 DEF Told
  <2> QED
    BY <2>1, <2>2
<1> QED
  BY <1>6, <1>7, <1>8 DEF Told

LEMMA SortedAdd ==
  ASSUME NEW o \in Seq(LineSet), NEW t \in Seq(SampleSet), NEW sh \in Seq(SampleSet), Told(o, t, sh), Sorted(o, t),
         NEW s \in SampleSet, \A k \in 1 .. Len(sh) : sh[k].time < s.time, NEW u, u = Append(t, s)
  PROVE  Sorted(o, u)
<1>1. /\ Len(u) = Len(t) + 1 /\ Len(t) \in Nat /\ u[Len(t) + 1] = s /\ \A k \in 1 .. Len(t) : u[k] = t[k]
  BY AppendedSample
<1>2. \A j \in 2 .. Len(sh) : sh[j].time < s.time
  OBVIOUS
<1>3. \A k \in 1 .. Len(o) : \A m \in 1 .. Len(o[k].samples) : o[k].samples[m].time < s.time
  BY <1>2 DEF Told
<1>4. \A m \in 1 .. Len(t) : t[m].time < s.time
  BY <1>2 DEF Told
<1>5. ASSUME NEW k \in 1 .. Len(o), NEW m \in 1 .. Len(o[k].samples), NEW n \in 1 .. Len(u)
      PROVE  o[k].samples[m].time < u[n].time
  <2>1. CASE n = Len(t) + 1
    BY <1>1, <1>3, <1>5, <2>1
  <2>2. CASE n \in 1 .. Len(t)
    BY <1>1, <1>5, <2>2 DEF Sorted
  <2> QED
    BY <1>1, <2>1, <2>2
<1>6. ASSUME NEW m \in 1 .. Len(u), NEW n \in 1 .. Len(u), m < n PROVE u[m].time < u[n].time
  <2>0. m \in 1 .. Len(t) /\ u[m] = t[m]
    BY <1>1, <1>6
  <2>1. CASE n = Len(t) + 1
    BY <1>1, <1>4, <2>0, <2>1
  <2>2. CASE n \in 1 .. Len(t)
    BY <1>1, <1>6, <2>0, <2>2 DEF Sorted
  <2> QED
    BY <1>1, <2>1, <2>2
<1>7. \A k, l \in 1 .. Len(o) : \A m \in 1 .. Len(o[k].samples), n \in 1 .. Len(o[l].samples) :
        k < l \/ (k = l /\ m < n) => o[k].samples[m].time < o[l].samples[n].time
  BY DEF Sorted
<1> QED
  BY <1>5, <1>6, <1>7 DEF Sorted

\* A restart is not counted.
LEMMA ToldBoot ==
  ASSUME NEW o \in Seq(LineSet), NEW t \in Seq(SampleSet), NEW sh \in Seq(SampleSet), Told(o, t, sh),
         NEW s \in SampleSet, s.boot, NEW th, th = Append(sh, s)
  PROVE  Told(o, t, th)
<1>1. /\ Len(th) = Len(sh) + 1 /\ Len(sh) \in Nat /\ th[Len(sh) + 1] = s /\ \A k \in 1 .. Len(sh) : th[k] = sh[k]
  BY AppendedSample
<1>2. \A j : Counts(th, j) <=> Counts(sh, j)
  <2>1. \A j \in 2 .. Len(sh) : Counts(th, j) <=> Counts(sh, j)
    BY <1>1 DEF Counts
  <2>2. \A j \in 2 .. Len(th) : j \notin 2 .. Len(sh) => ~Counts(th, j)
    <3> SUFFICES ASSUME NEW j \in 2 .. Len(th), j \notin 2 .. Len(sh) PROVE ~Counts(th, j)
      OBVIOUS
    <3>1. j = Len(sh) + 1
      BY <1>1
    <3> QED
      BY <1>1, <3>1 DEF Counts
  <2>3. \A j : j \notin 2 .. Len(sh) => ~Counts(sh, j)
    BY DEF Counts
  <2>4. \A j : j \notin 2 .. Len(th) => ~Counts(th, j)
    BY DEF Counts
  <2> QED
    BY <2>1, <2>2, <2>3, <2>4
<1>3. \A j \in 2 .. Len(sh) : j \in 2 .. Len(th) /\ th[j] = sh[j]
  BY <1>1
<1>4. \A j \in 2 .. Len(th) : Counts(th, j) => j \in 2 .. Len(sh)
  BY <1>2 DEF Counts
<1>a. ASSUME NEW x, \E j \in 2 .. Len(sh) : Counts(sh, j) /\ x = sh[j]
      PROVE  \E j \in 2 .. Len(th) : Counts(th, j) /\ x = th[j]
  BY <1>2, <1>3, <1>a
<1>5. ASSUME NEW k \in 1 .. Len(o), NEW m \in 1 .. Len(o[k].samples)
      PROVE  \E j \in 2 .. Len(th) : Counts(th, j) /\ o[k].samples[m] = th[j]
  <2>1. \E j \in 2 .. Len(sh) : Counts(sh, j) /\ o[k].samples[m] = sh[j]
    BY DEF Told
  <2> QED
    BY <1>a, <2>1
<1>6. ASSUME NEW m \in 1 .. Len(t) PROVE \E j \in 2 .. Len(th) : Counts(th, j) /\ t[m] = th[j]
  <2>1. \E j \in 2 .. Len(sh) : Counts(sh, j) /\ t[m] = sh[j]
    BY DEF Told
  <2> QED
    BY <1>a, <2>1
<1>7. ASSUME NEW j \in 2 .. Len(th), Counts(th, j)
      PROVE  \/ \E m \in 1 .. Len(t) : t[m] = th[j]
             \/ \E k \in 1 .. Len(o) : \E m \in 1 .. Len(o[k].samples) : o[k].samples[m] = th[j]
  <2>1. j \in 2 .. Len(sh) /\ Counts(sh, j) /\ th[j] = sh[j]
    BY <1>2, <1>3, <1>4, <1>7
  <2> QED
    BY <2>1 DEF Told
<1> QED
  BY <1>5, <1>6, <1>7 DEF Told

\* The samples added up follow each other in the log, without a restart.
Follows(u, log, b) == \A m \in 1 .. Len(u) : u[m] = log[b + m] /\ ~log[b + m].boot

LEMMA TotalsWithin ==
  ASSUME NEW r, SarTypes(r), NEW u \in Seq(SampleSet), Len(u) <= r.summarycnt, NEW b \in Nat,
         b + Len(u) <= Len(r.log), Follows(u, r.log, b)
  PROVE  Within(u, r)
<1>0. r.log \in Seq(SampleSet) /\ \A k \in 1 .. Len(r.log) : r.log[k].time = k
  BY DEF SarTypes
<1> SUFFICES ASSUME Len(u) > 0, NEW t \in u[1].time + 1 .. u[Len(u)].time
             PROVE  ~r.log[t].boot
  BY DEF Within
<1>1. Len(u) \in Nat /\ Len(r.log) \in Nat /\ 1 \in 1 .. Len(u) /\ Len(u) \in 1 .. Len(u)
  BY <1>0
<1>2. b + 1 \in 1 .. Len(r.log) /\ b + Len(u) \in 1 .. Len(r.log)
  BY <1>1
<1>3. u[1].time = b + 1 /\ u[Len(u)].time = b + Len(u)
  BY <1>0, <1>1, <1>2 DEF Follows
<1>4. t - b \in 1 .. Len(u) /\ t = b + (t - b)
  BY <1>1, <1>3
<1> QED
  BY <1>4 DEF Follows

\* A line is printed for samples of the log: for one, or for several added up.
LogLine(r, i, ss) == Sar!Printed(r, i, ss, 0, 0, TRUE, TRUE)
SumLine(r, i, ss) == Sar!Printed(r, i, ss, 0, 0, FALSE, TRUE)
HasLine(p, r, i, ss) ==
  /\ SarTypes(p) /\ LinesOK(p) /\ Same(p, r, {"out", "curline", "first"})
  /\ p.curline > r.curline /\ p.curline <= r.curline + MaxRows /\ Len(p.out) = Len(r.out) + 1
  /\ \E line \in LineSet : p.out = Append(r.out, line) /\ line.report = i /\ line.samples = ss

LEMMA RawPrinted ==
  ASSUME Sar!SarAssumption, NEW r, SarTypes(r), LinesOK(r), NEW i \in Reports, NEW ss \in Seq(SampleSet), Within(ss, r),
         NEW p, p = LogLine(r, i, ss) \/ p = SumLine(r, i, ss)
  PROVE  HasLine(p, r, i, ss)
<1>1. IsSar(r) /\ r.out \in Seq(LineSet) /\ r.curline \in Nat
  BY DEF SarTypes
<1> DEFINE Prints(q, z) ==
             /\ IsSar(q) /\ Same(q, r, {"out", "curline", "first"})
             /\ \E rows \in Nat : q.out = Append(r.out, [report |-> i, samples |-> ss, rows |-> rows, from |-> z, to |-> z])
             /\ q.out \in Seq(LineSet) /\ Len(q.out) = Len(r.out) + 1
             /\ q.curline \in Nat /\ q.curline > r.curline /\ q.curline <= r.curline + MaxRows
<1>0. 0 \in Int
  OBVIOUS
<1>a. ASSUME NEW z \in Int PROVE Prints(Sar!Printed(r, i, ss, z, z, TRUE, TRUE), z)
  BY <1>1, PrintedFacts
<1>b. ASSUME NEW z \in Int PROVE Prints(Sar!Printed(r, i, ss, z, z, FALSE, TRUE), z)
  BY <1>1, PrintedFacts
<1>2. Prints(p, 0)
  <2> HIDE DEF Prints
  <2> QED
    BY <1>0, <1>a, <1>b, Zenon DEF LogLine, SumLine
<1>3. /\ IsSar(p) /\ Same(p, r, {"out", "curline", "first"})
      /\ \E rows \in Nat : p.out = Append(r.out, [report |-> i, samples |-> ss, rows |-> rows, from |-> 0, to |-> 0])
      /\ p.out \in Seq(LineSet) /\ Len(p.out) = Len(r.out) + 1
      /\ p.curline \in Nat /\ p.curline > r.curline /\ p.curline <= r.curline + MaxRows
  BY <1>2
<1>4. PICK rows \in Nat : p.out = Append(r.out, [report |-> i, samples |-> ss, rows |-> rows, from |-> 0, to |-> 0])
  BY <1>3
<1> DEFINE line == [report |-> i, samples |-> ss, rows |-> rows, from |-> 0, to |-> 0]
<1>5. line \in LineSet /\ line.report = i /\ line.samples = ss
  BY <1>1 DEF LineSet
<1> HIDE DEF line
<1>6. p.out = Append(r.out, line)
  BY <1>4 DEF line
<1>7. p.log = r.log /\ p.summarycnt = r.summarycnt
  BY <1>3 DEF Same, Fields
<1>8. LinesOK(p)
  BY <1>1, <1>5, <1>6, <1>7, LinesAppend
<1>9. SarTypes(p)
  BY <1>3 DEF SarTypes, Same, Fields
<1> QED
  BY <1>3, <1>5, <1>6, <1>8, <1>9 DEF HasLine

\* What follows a line: a report that failed is not wanted any more.
LEMMA AfterLineFacts ==
  ASSUME NEW q, IsSar(q), q.numreports \in Int, q.pc = "read", NEW summed \in BOOLEAN
  PROVE  LET p == Sar!AfterLine(q, summed) IN
         /\ IsSar(p) /\ Same(p, q, {"wanted", "numreports", "pc", "code", "sampsum", "totals"})
         /\ p.numreports \in Int /\ p.pc \in {"read", "done"}
         /\ p.wanted \in {q.wanted, q.wanted \ {q.prinow}}
         /\ \/ p.totals = q.totals /\ p.sampsum = q.sampsum
            \/ p.totals = << >> /\ p.sampsum = q.summarycnt + q.sampcnt
         /\ q.prinow \in p.wanted =>
              IF summed THEN p.totals = << >> /\ p.sampsum = q.summarycnt + q.sampcnt
                        ELSE p.totals = q.totals /\ p.sampsum = q.sampsum
<1> DEFINE s == IF Sar!Failed(q) THEN Sar!NotAgain(q, q.prinow) ELSE q
           t == IF s.pc # "done" /\ summed THEN Sar!Restarted(s) ELSE s
           p == Sar!AfterLine(q, summed)
<1>1. p = IF Sar!Failed(q) /\ t.pc # "done" THEN Sar!NotAgain(t, q.prinow) ELSE t
  BY DEF Sar!AfterLine
<1>2. CASE ~Sar!Failed(q)
  <2>1. p = IF summed THEN Sar!Restarted(q) ELSE q
    BY <1>1, <1>2
  <2>2. CASE summed
    <3>1. p = Sar!Restarted(q)
      BY <2>1, <2>2
    <3> HIDE DEF p
    <3>2. /\ IsSar(p) /\ Same(p, q, {"sampsum", "totals"})
          /\ p.totals = << >> /\ p.sampsum = q.summarycnt + q.sampcnt
      BY <3>1, RestartedFacts
    <3>3. p.numreports = q.numreports /\ p.pc = q.pc /\ p.wanted = q.wanted
      BY <3>2 DEF Same, Fields
    <3>4. Same(p, q, {"wanted", "numreports", "pc", "code", "sampsum", "totals"})
      BY <3>2 DEF Same
    <3> QED
      BY <2>2, <3>2, <3>3, <3>4 DEF p
  <2>3. CASE ~summed
    <3>1. p = q
      BY <2>1, <2>3
    <3> HIDE DEF p
    <3>2. Same(p, q, {"wanted", "numreports", "pc", "code", "sampsum", "totals"})
      BY <3>1 DEF Same
    <3> QED
      BY <2>3, <3>1, <3>2 DEF p
  <2> QED
    BY <2>2, <2>3
<1>3. CASE Sar!Failed(q)
  <2>1. s = Sar!NotAgain(q, q.prinow)
    BY <1>3
  <2>2. p = IF t.pc # "done" THEN Sar!NotAgain(t, q.prinow) ELSE t
    BY <1>1, <1>3
  <2>3. t = IF s.pc # "done" /\ summed THEN Sar!Restarted(s) ELSE s
    OBVIOUS
  <2> HIDE DEF s, t, p
  <2>4. /\ IsSar(s) /\ Same(s, q, {"wanted", "numreports", "pc", "code"})
        /\ s.wanted = q.wanted \ {q.prinow} /\ s.numreports = q.numreports - 1
        /\ s.pc = IF q.numreports = 1 THEN "done" ELSE q.pc
    BY <2>1, NotAgainFacts
  <2>5. s.totals = q.totals /\ s.sampsum = q.sampsum /\ s.summarycnt = q.summarycnt /\ s.sampcnt = q.sampcnt
    BY <2>4 DEF Same, Fields
  <2>6. /\ IsSar(t) /\ Same(t, s, {"sampsum", "totals"})
        /\ \/ t.totals = q.totals /\ t.sampsum = q.sampsum
           \/ t.totals = << >> /\ t.sampsum = q.summarycnt + q.sampcnt
    <3>1. CASE s.pc # "done" /\ summed
      <4>1. t = Sar!Restarted(s)
        BY <2>3, <3>1
      <4> QED
        BY <2>4, <2>5, <4>1, RestartedFacts
    <3>2. CASE ~(s.pc # "done" /\ summed)
      <4>1. t = s
        BY <2>3, <3>2
      <4> QED
        BY <2>4, <2>5, <4>1 DEF Same
    <3> QED
      BY <3>1, <3>2
  <2>7. t.wanted = s.wanted /\ t.numreports = s.numreports /\ t.pc = s.pc
    BY <2>6 DEF Same, Fields
  <2>8. CASE t.pc = "done"
    <3>1. p = t
      BY <2>2, <2>8
    <3>2. Same(p, q, {"wanted", "numreports", "pc", "code", "sampsum", "totals"})
      BY <2>4, <2>6, <3>1 DEF Same
    <3> QED
      BY <2>4, <2>6, <2>7, <2>8, <3>1, <3>2 DEF p
  <2>9. CASE t.pc # "done"
    <3>1. p = Sar!NotAgain(t, q.prinow)
      BY <2>2, <2>9
    <3>2. t.numreports \in Int
      BY <2>4, <2>7
    <3>3. /\ IsSar(p) /\ Same(p, t, {"wanted", "numreports", "pc", "code"})
          /\ p.wanted = t.wanted \ {q.prinow} /\ p.numreports = t.numreports - 1
          /\ p.pc = IF t.numreports = 1 THEN "done" ELSE t.pc
      BY <2>6, <3>1, <3>2, NotAgainFacts
    <3>4. p.totals = t.totals /\ p.sampsum = t.sampsum
      BY <3>3 DEF Same, Fields
    <3>5. Same(p, q, {"wanted", "numreports", "pc", "code", "sampsum", "totals"})
      BY <2>4, <2>6, <3>3 DEF Same
    <3>6. p.wanted = q.wanted \ {q.prinow} /\ p.numreports \in Int /\ p.pc \in {"read", "done"}
      BY <2>4, <2>7, <3>2, <3>3
    <3> QED
      BY <2>6, <3>3, <3>4, <3>5, <3>6 DEF p
  <2> QED
    BY <2>8, <2>9
<1> QED
  BY <1>2, <1>3

\* The totals start again, behind an empty line.
LEMMA EmptyLineFacts ==
  ASSUME NEW t, IsSar(t), t.curline \in Nat
  PROVE  LET p == [Sar!Restarted(t) EXCEPT !.curline = @ + 1] IN
         /\ IsSar(p) /\ Same(p, t, {"sampsum", "totals", "curline"}) /\ p.totals = << >>
         /\ p.sampsum = t.summarycnt + t.sampcnt /\ p.curline = t.curline + 1
BY DEF IsSar, Same, Fields, Sar!Restarted

\* A restart of the log: the samples added up are printed.
LEMMA RestartLineFacts ==
  ASSUME Sar!SarAssumption, NEW h, SarTypes(h), LinesOK(h), h.pc = "read", h.prinow \in Reports, Within(h.totals, h),
         h.totals # << >> => h.summarycnt > 1 /\ h.sampcnt <= h.sampsum
  PROVE  LET p == Sar!RestartLine(h) IN
         /\ SarTypes(p) /\ LinesOK(p) /\ p.pc \in {"read", "done"}
         /\ Same(p, h, {"wanted", "numreports", "pc", "code", "sampsum", "totals", "out", "curline", "first"})
         /\ p.curline >= h.curline /\ p.curline <= h.curline + MaxRows + 1
         /\ p.pc = "read" /\ h.prinow \in p.wanted =>
              /\ p.totals = << >> /\ p.sampsum = h.summarycnt + h.sampcnt
              /\ \/ h.totals = << >> /\ p.out = h.out
                 \/ \E line \in LineSet :
                      p.out = Append(h.out, line) /\ line.report = h.prinow /\ line.samples = h.totals
<1> DEFINE s == IF h.summarycnt > 1 /\ h.sampcnt <= h.sampsum /\ h.totals # << >>
                THEN Sar!Printed(h, h.prinow, h.totals, 0, 0, FALSE, TRUE) ELSE h
           t == IF s # h /\ Sar!Failed(s) THEN Sar!NotAgain(s, h.prinow) ELSE s
           p == Sar!RestartLine(h)
<1>1. p = IF t.pc = "done" THEN t ELSE [Sar!Restarted(t) EXCEPT !.curline = @ + 1]
  BY DEF Sar!RestartLine
<1>2. /\ IsSar(h) /\ h.curline \in Nat /\ h.totals \in Seq(SampleSet) /\ h.numreports \in Int /\ h.out \in Seq(LineSet)
      /\ h.summarycnt \in Nat /\ h.sampcnt \in Nat /\ h.wanted \in SUBSET Reports
      /\ MaxRows \in Nat
  BY BoundFacts DEF SarTypes
<1>3. /\ SarTypes(t) /\ LinesOK(t) /\ t.pc \in {"read", "done"}
      /\ Same(t, h, {"wanted", "numreports", "pc", "code", "out", "curline", "first"})
      /\ t.curline >= h.curline /\ t.curline <= h.curline + MaxRows
      /\ h.prinow \in t.wanted =>
              \/ h.totals = << >> /\ t.out = h.out
              \/ \E line \in LineSet :
                   t.out = Append(h.out, line) /\ line.report = h.prinow /\ line.samples = h.totals
  <2>1. CASE h.totals = << >>
    <3>1. t = h
      BY <2>1
    <3> HIDE DEF t
    <3> QED
      BY <1>2, <2>1, <3>1 DEF Same
  <2>2. CASE h.totals # << >>
    <3>1. s = SumLine(h, h.prinow, h.totals)
      BY <2>2 DEF SumLine
    <3> HIDE DEF s
    <3>2. /\ SarTypes(s) /\ LinesOK(s) /\ Same(s, h, {"out", "curline", "first"})
          /\ s.curline > h.curline /\ s.curline <= h.curline + MaxRows /\ Len(s.out) = Len(h.out) + 1
          /\ \E line \in LineSet : s.out = Append(h.out, line) /\ line.report = h.prinow /\ line.samples = h.totals
      <4>1. HasLine(s, h, h.prinow, h.totals)
        BY <1>2, <3>1, RawPrinted
      <4> QED
        BY <4>1 DEF HasLine
    <3>3. s # h
      <4>1. Len(h.out) \in Nat
        BY <1>2
      <4> QED
        BY <3>2, <4>1
    <3>4. /\ s.pc = "read" /\ s.wanted = h.wanted /\ s.numreports = h.numreports /\ s.log = h.log
          /\ s.summarycnt = h.summarycnt
      BY <3>2 DEF Same, Fields
    <3>b. IsSar(s) /\ s.curline \in Nat
      BY <3>2 DEF SarTypes
    <3>5. CASE ~Sar!Failed(s)
      <4>1. t = s
        BY <3>3, <3>5
      <4> HIDE DEF t
      <4>2. Same(t, h, {"wanted", "numreports", "pc", "code", "out", "curline", "first"})
        BY <3>2, <4>1 DEF Same
      <4> QED
        BY <1>2, <3>2, <3>4, <3>b, <4>1, <4>2
    <3>6. CASE Sar!Failed(s)
      <4>1. t = Sar!NotAgain(s, h.prinow)
        BY <3>3, <3>6
      <4> HIDE DEF t
      <4>2. /\ IsSar(t) /\ Same(t, s, {"wanted", "numreports", "pc", "code"})
            /\ t.wanted = s.wanted \ {h.prinow} /\ t.numreports = s.numreports - 1
            /\ t.pc = IF s.numreports = 1 THEN "done" ELSE s.pc
        BY <1>2, <3>4, <3>b, <4>1, NotAgainFacts
      <4>3. t.pc \in {"read", "done"} /\ t.pc \in SarLabels /\ t.wanted \in SUBSET Reports /\ t.numreports \in Int
        BY <1>2, <3>4, <4>2 DEF SarLabels
      <4>4. SarTypes(t)
        BY <3>2, <4>2, <4>3 DEF SarTypes, Same, Fields
      <4>5. t.out = s.out /\ t.log = s.log /\ t.summarycnt = s.summarycnt /\ t.curline = s.curline
        BY <4>2 DEF Same, Fields
      <4>6. LinesOK(t)
        BY <3>2, <4>5, SameLines
      <4>7. Same(t, h, {"wanted", "numreports", "pc", "code", "out", "curline", "first"})
        BY <3>2, <4>2 DEF Same
      <4>8. h.prinow \notin t.wanted
        BY <4>2
      <4>9. t.curline >= h.curline /\ t.curline <= h.curline + MaxRows
        BY <1>2, <3>2, <3>b, <4>5
      <4> QED
        BY <4>3, <4>4, <4>6, <4>7, <4>8, <4>9
    <3> QED
      BY <3>5, <3>6
  <2> QED
    BY <2>1, <2>2
<1> HIDE DEF s, t, p
<1>4. CASE t.pc = "done"
  <2>1. p = t
    BY <1>1, <1>4
  <2>2. Same(p, h, {"wanted", "numreports", "pc", "code", "sampsum", "totals", "out", "curline", "first"})
    BY <1>3, <2>1 DEF Same
  <2>3. p.curline >= h.curline /\ p.curline <= h.curline + MaxRows + 1
    <3>1. t.curline \in Nat
      BY <1>3 DEF SarTypes
    <3> QED
      BY <1>2, <1>3, <2>1, <3>1
  <2> QED
    BY <1>3, <1>4, <2>1, <2>2, <2>3 DEF p
<1>5. CASE t.pc # "done"
  <2>0. IsSar(t) /\ t.curline \in Nat /\ t.summarycnt \in Nat /\ t.sampcnt \in Nat
    BY <1>3 DEF SarTypes
  <2>1. p = [Sar!Restarted(t) EXCEPT !.curline = @ + 1]
    BY <1>1, <1>5
  <2>2. /\ IsSar(p) /\ Same(p, t, {"sampsum", "totals", "curline"}) /\ p.totals = << >>
        /\ p.sampsum = t.summarycnt + t.sampcnt /\ p.curline = t.curline + 1
    BY <2>0, <2>1, EmptyLineFacts
  <2>3. /\ p.out = t.out /\ p.log = t.log /\ p.summarycnt = t.summarycnt /\ p.pc = t.pc /\ p.wanted = t.wanted
        /\ t.summarycnt = h.summarycnt /\ t.sampcnt = h.sampcnt
    BY <1>3, <2>2 DEF Same, Fields
  <2>4. LinesOK(p)
    BY <1>3, <2>3, SameLines
  <2>5. SarTypes(p)
    <3>1. p.sampsum \in Int /\ p.curline \in Nat /\ p.totals \in Seq(SampleSet)
      BY <2>0, <2>2
    <3> QED
      BY <1>3, <2>2, <3>1 DEF SarTypes, Same, Fields
  <2>6. Same(p, h, {"wanted", "numreports", "pc", "code", "sampsum", "totals", "out", "curline", "first"})
    BY <1>3, <2>2 DEF Same
  <2>7. p.curline >= h.curline /\ p.curline <= h.curline + MaxRows + 1
    BY <1>2, <1>3, <2>0, <2>2, SMTT(30)
  <2> QED
    BY <1>3, <2>2, <2>3, <2>4, <2>5, <2>6, <2>7 DEF p
<1> QED
  BY <1>4, <1>5

---------------------------------------------------------------------------
(* atopsar: the samples of a log are handed to a report.                     *)

LEMMA NextReportInv ==
  ASSUME Sar!SarAssumption, SarInv(sar), Sar!NextReport
  PROVE  SarInv(sar')
<1> DEFINE p == sar'
           later == {i \in sar.wanted : i > sar.prinow}
<1>1. /\ sar.pc = "raw" /\ SarTypes(sar) /\ IsSar(sar) /\ LinesOK(sar) /\ HeadOK(sar) /\ RawOK(sar)
      /\ sar.wanted \in SUBSET Reports /\ sar.numreports \in Int
  BY DEF Sar!NextReport, SarInv, SarTypes
<1>2. p = IF later = {} THEN [sar EXCEPT !.pc = "done", !.code = 0]
          ELSE [sar EXCEPT !.pc = "read", !.prinow = Sar!Min(later), !.daylim = 0, !.begintime = sar.saved,
                 !.pos = 0, !.lastcmd = TRUE, !.sampcnt = 0, !.shown = << >>, !.out = << >>, !.totals = << >>]
  BY DEF Sar!NextReport, Sar!cleanstop
<1> HIDE DEF p
<1>3. CASE later = {}
  <2>1. p = [sar EXCEPT !.pc = "done", !.code = 0]
    BY <1>2, <1>3
  <2>2. IsSar(p) /\ Same(p, sar, {"pc", "code"}) /\ p.pc = "done"
    BY <1>1, <2>1 DEF IsSar, Same, Fields
  <2>3. SarTypes(p)
    BY <1>1, <2>2 DEF SarTypes, Same, Fields, SarLabels
  <2>4. p.out = sar.out /\ p.log = sar.log /\ p.summarycnt = sar.summarycnt
    BY <2>2 DEF Same, Fields
  <2> QED
    BY <1>1, <2>2, <2>3, <2>4, StopKeeps DEF p
<1>4. CASE later # {}
  <2>1. Sar!Min(later) \in Reports
    <3>1. later \in SUBSET Nat /\ later \subseteq Reports
      BY <1>1 DEF Reports
    <3> HIDE DEF later
    <3> QED
      BY <1>4, <3>1, MinOfSome
  <2>2. /\ IsSar(p)
        /\ Same(p, sar, {"pc", "prinow", "daylim", "begintime", "pos", "lastcmd", "sampcnt", "shown", "out", "totals"})
        /\ p.pc = "read" /\ p.prinow = Sar!Min(later) /\ p.pos = 0 /\ p.lastcmd = TRUE
        /\ p.sampcnt = 0 /\ p.shown = << >> /\ p.out = << >> /\ p.totals = << >>
    <3> HIDE DEF later
    <3>1. p = [sar EXCEPT !.pc = "read", !.prinow = Sar!Min(later), !.daylim = 0, !.begintime = sar.saved,
                 !.pos = 0, !.lastcmd = TRUE, !.sampcnt = 0, !.shown = << >>, !.out = << >>, !.totals = << >>]
      BY <1>2, <1>4
    <3>2. IsSar(sar)
      BY <1>1
    <3> DEFINE least == Sar!Min(later)
    <3>3. p = [sar EXCEPT !.pc = "read", !.prinow = least, !.daylim = 0, !.begintime = sar.saved,
                 !.pos = 0, !.lastcmd = TRUE, !.sampcnt = 0, !.shown = << >>, !.out = << >>, !.totals = << >>]
      BY <3>1
    <3> HIDE DEF least
    <3>4. /\ IsSar(p)
          /\ Same(p, sar, {"pc", "prinow", "daylim", "begintime", "pos", "lastcmd", "sampcnt", "shown", "out", "totals"})
      BY <3>2, <3>3, ZenonT(60) DEF IsSar, Same, Fields
    <3>5. /\ p.pc = "read" /\ p.prinow = least /\ p.pos = 0 /\ p.lastcmd = TRUE
          /\ p.sampcnt = 0 /\ p.shown = << >> /\ p.out = << >> /\ p.totals = << >>
      BY <3>2, <3>3 DEF IsSar, Fields
    <3> QED
      BY <3>4, <3>5 DEF least
  <2>3. SarTypes(p)
    <3>1. /\ p.pc \in SarLabels /\ p.pos \in Nat /\ p.sampcnt \in Nat /\ p.shown \in Seq(SampleSet)
          /\ p.out \in Seq(LineSet) /\ p.totals \in Seq(SampleSet)
      BY <2>2 DEF SarLabels
    <3> QED
      BY <1>1, <2>2, <3>1 DEF SarTypes, Same, Fields
  <2>4. LinesOK(p)
    BY <2>2 DEF LinesOK
  <2>5. /\ p.curline = sar.curline /\ p.headline = sar.headline /\ p.top = sar.top /\ p.repeathead = sar.repeathead
        /\ p.log = sar.log
    BY <2>2 DEF Same, Fields
  <2>6. HeadOK(p)
    BY <1>1, <2>5, SameHead
  <2>7. Len(p.log) > 0 /\ Len(p.log) \in Nat
    BY <1>1, <2>5 DEF RawOK, SarTypes
  <2>8. ReadOK(p)
    <3>1. Len(<< >>) = 0 /\ 1 .. 0 = {}
      OBVIOUS
    <3> QED
      BY <2>1, <2>2, <2>7, <3>1 DEF ReadOK
  <2>9. CoverOK(p) /\ ~Active(p)
    BY <2>2 DEF CoverOK, Active
  <2> QED
    BY <2>2, <2>3, <2>4, <2>6, <2>7, <2>8, <2>9 DEF SarInv, RawOK, p
<1> QED
  BY <1>3, <1>4

\* At the end of the log nothing is left to print.
LEMMA EndOfFileInv ==
  ASSUME Sar!SarAssumption, SarInv(sar), Sar!EndOfFile
  PROVE  SarInv(sar')
<1> DEFINE p == sar'
<1>1. /\ sar.pc = "read" /\ sar.pos = Len(sar.log)
      /\ SarTypes(sar) /\ IsSar(sar) /\ LinesOK(sar) /\ HeadOK(sar) /\ RawOK(sar) /\ ReadOK(sar)
  BY DEF Sar!EndOfFile, SarInv, SarTypes, RawOK
<1>2. p = IF sar.lastcmd THEN [sar EXCEPT !.begintime = 0, !.pos = @ - 1] ELSE [sar EXCEPT !.pc = "raw"]
  BY DEF Sar!EndOfFile
<1> HIDE DEF p
<1>3. CASE sar.lastcmd
  <2>1. p = [sar EXCEPT !.begintime = 0, !.pos = @ - 1]
    BY <1>2, <1>3
  <2>2. IsSar(p) /\ Same(p, sar, {"begintime", "pos"}) /\ p.begintime = 0 /\ p.pos = sar.pos - 1
    BY <1>1, <2>1 DEF IsSar, Same, Fields
  <2>3. /\ p.curline = sar.curline /\ p.headline = sar.headline /\ p.top = sar.top /\ p.repeathead = sar.repeathead
        /\ p.log = sar.log /\ p.out = sar.out /\ p.summarycnt = sar.summarycnt /\ p.pc = "read"
        /\ p.shown = sar.shown /\ p.totals = sar.totals /\ p.sampcnt = sar.sampcnt /\ p.lastcmd = sar.lastcmd
        /\ p.prinow = sar.prinow
    BY <1>1, <2>2 DEF Same, Fields
  <2>4. /\ sar.shown = << >> /\ Len(sar.log) > 0 /\ Len(sar.log) \in Nat /\ sar.sampcnt = 0
    BY <1>1, <1>3 DEF ReadOK, SarTypes
  <2>5. p.pos \in Nat /\ p.pos <= Len(p.log)
    BY <1>1, <2>2, <2>3, <2>4
  <2>6. SarTypes(p)
    BY <1>1, <2>2, <2>5 DEF SarTypes, Same, Fields
  <2>7. LinesOK(p) /\ HeadOK(p)
    BY <1>1, <2>3, SameLines, SameHead
  <2>8. ReadOK(p)
    <3>1. Len(<< >>) = 0 /\ 1 .. 0 = {} /\ sar.prinow \in Reports
      BY <1>1 DEF ReadOK
    <3> QED
      BY <1>3, <2>2, <2>3, <2>4, <2>5, <3>1 DEF ReadOK
  <2>9. CoverOK(p) /\ ~Active(p)
    BY <1>1, <2>3, <2>4 DEF CoverOK, Active, RawOK
  <2> QED
    BY <2>3, <2>4, <2>6, <2>7, <2>8, <2>9 DEF SarInv, RawOK, p
<1>4. CASE ~sar.lastcmd
  <2>1. p = [sar EXCEPT !.pc = "raw"]
    BY <1>2, <1>4
  <2>2. IsSar(p) /\ Same(p, sar, {"pc"}) /\ p.pc = "raw"
    BY <1>1, <2>1 DEF IsSar, Same, Fields
  <2>3. /\ p.curline = sar.curline /\ p.headline = sar.headline /\ p.top = sar.top /\ p.repeathead = sar.repeathead
        /\ p.log = sar.log /\ p.out = sar.out /\ p.summarycnt = sar.summarycnt /\ p.wanted = sar.wanted
        /\ p.shown = sar.shown /\ p.totals = sar.totals /\ p.prinow = sar.prinow
    BY <2>2 DEF Same, Fields
  <2>4. SarTypes(p)
    BY <1>1, <2>2 DEF SarTypes, Same, Fields, SarLabels
  <2>5. LinesOK(p) /\ HeadOK(p)
    BY <1>1, <2>3, SameLines, SameHead
  <2>6. CoverOK(p) /\ (Active(p) => p.totals = << >>)
    BY <1>1, <2>3 DEF CoverOK, Active, RawOK, TotalsOK
  <2>7. Len(p.log) > 0
    BY <1>1, <2>3 DEF RawOK
  <2> QED
    BY <2>2, <2>4, <2>5, <2>6, <2>7 DEF SarInv, RawOK, p
<1> QED
  BY <1>3, <1>4

\* The record when the sample s follows the samples sh that were handed over.
Handed(r, sh, s) ==
  /\ SarTypes(r) /\ LinesOK(r) /\ HeadOK(r) /\ r.pc = "read" /\ ReadOK(r)
  /\ sh \in Seq(SampleSet) /\ s \in SampleSet /\ r.shown = Append(sh, s)
  /\ r.pos > 0 /\ s = r.log[r.pos]
  /\ sh = << >> => r.out = << >> /\ r.totals = << >>
  /\ r.prinow \in r.wanted /\ sh # << >> =>
       /\ \A k \in 1 .. Len(r.out) : r.out[k].report = r.prinow
       /\ Told(r.out, r.totals, sh) /\ Sorted(r.out, r.totals)
       /\ Len(r.totals) < r.summarycnt /\ Len(r.totals) < Len(sh)
       /\ r.summarycnt > 1 => r.sampsum - r.sampcnt = r.summarycnt - Len(r.totals) - 1
       /\ \A m \in 1 .. Len(r.totals) :
            LET j == r.pos - 1 - Len(r.totals) + m IN r.totals[m] = r.log[j] /\ ~r.log[j].boot

LEMMA HandedFacts ==
  ASSUME NEW r, NEW sh, NEW s, Handed(r, sh, s)
  PROVE  /\ Len(sh) \in Nat /\ Len(r.shown) = Len(sh) + 1 /\ r.shown # << >> /\ r.sampcnt = Len(sh) + 1
         /\ sh = << >> <=> r.sampcnt = 1
         /\ r.pos \in 1 .. Len(r.log) /\ Len(r.log) \in Nat /\ s.time = r.pos
         /\ \A k \in 1 .. Len(sh) : sh[k].time < s.time
<1>1. /\ sh \in Seq(SampleSet) /\ s \in SampleSet /\ r.shown = Append(sh, s)
      /\ r.pos > 0 /\ s = r.log[r.pos] /\ r.pos \in Nat /\ r.pos <= Len(r.log) /\ r.sampcnt = Len(r.shown)
      /\ r.sampcnt <= r.pos
      /\ r.log \in Seq(SampleSet) /\ \A k \in 1 .. Len(r.log) : r.log[k].time = k
      /\ \A k \in 1 .. Len(r.shown) : r.shown[k] = r.log[r.pos - Len(r.shown) + k]
  BY DEF Handed, SarTypes, ReadOK
<1>2. /\ Len(sh) \in Nat /\ Len(r.shown) = Len(sh) + 1 /\ \A k \in 1 .. Len(sh) : r.shown[k] = sh[k]
  BY <1>1, AppendedSample
<1>3. sh = << >> <=> Len(sh) = 0
  BY <1>1
<1>4. r.pos \in 1 .. Len(r.log) /\ Len(r.log) \in Nat /\ s.time = r.pos
  BY <1>1
<1>5. ASSUME NEW k \in 1 .. Len(sh) PROVE sh[k].time < s.time
  <2>1. k \in 1 .. Len(r.shown) /\ r.pos - Len(r.shown) + k \in 1 .. Len(r.log) /\ r.pos - Len(r.shown) + k < r.pos
    BY <1>1, <1>2, <1>4
  <2>2. sh[k] = r.log[r.pos - Len(r.shown) + k]
    BY <1>1, <1>2, <2>1
  <2> QED
    BY <1>1, <1>4, <2>1, <2>2
<1>6. r.shown # << >>
  BY <1>2
<1> QED
  BY <1>1, <1>2, <1>3, <1>4, <1>5, <1>6

\* Only the place on the screen changes.
LEMMA SameHanded ==
  ASSUME NEW r, NEW sh, NEW s, Handed(r, sh, s), NEW h, IsSar(h),
         Same(h, r, {"daylim", "curline", "headline", "top"}), h.curline \in Nat, h.headline \in Nat, h.top \in Nat,
         HeadOK(h)
  PROVE  Handed(h, sh, s)
<1>1. /\ h.out = r.out /\ h.log = r.log /\ h.summarycnt = r.summarycnt /\ h.pc = r.pc /\ h.shown = r.shown
      /\ h.totals = r.totals /\ h.prinow = r.prinow /\ h.wanted = r.wanted /\ h.pos = r.pos /\ h.sampcnt = r.sampcnt
      /\ h.sampsum = r.sampsum /\ h.lastcmd = r.lastcmd /\ h.begintime = r.begintime
  BY DEF Same, Fields
<1>2. SarTypes(h)
  BY DEF Handed, SarTypes, Same, Fields
<1>3. LinesOK(h)
  BY <1>1, SameLines DEF Handed
<1>4. ReadOK(h)
  BY <1>1 DEF Handed, ReadOK
<1> QED
  BY <1>1, <1>2, <1>3, <1>4 DEF Handed

\* When the report is done with the sample.
LEMMA DoneInv ==
  ASSUME NEW r, NEW sh, NEW s, Handed(r, sh, s), NEW p, SarTypes(p), LinesOK(p), p.pc \in {"read", "done"},
         p.pc = "read" => HeadOK(p),
         p.log = r.log, p.pos = r.pos, p.sampcnt = r.sampcnt, p.shown = r.shown, p.lastcmd = r.lastcmd,
         p.begintime = r.begintime, p.prinow = r.prinow,
         p.pc = "read" /\ p.prinow \in p.wanted =>
           /\ \A k \in 1 .. Len(p.out) : p.out[k].report = p.prinow
           /\ Told(p.out, p.totals, p.shown) /\ Sorted(p.out, p.totals) /\ TotalsOK(p)
  PROVE  SarInv(p)
<1>1. CASE p.pc = "done"
  BY <1>1 DEF SarInv
<1>2. CASE p.pc = "read"
  <2>1. ReadOK(p)
    BY DEF Handed, ReadOK
  <2>2. p.shown # << >>
    BY HandedFacts
  <2>3. CoverOK(p) /\ (Active(p) => TotalsOK(p))
    BY <1>2, <2>2 DEF CoverOK, Active
  <2>4. Len(p.log) > 0
    BY <2>1 DEF ReadOK
  <2> QED
    BY <1>2, <2>1, <2>3, <2>4 DEF SarInv, RawOK
<1> QED
  BY <1>1, <1>2

\* Room for the rows of a sample.
Room(h) == h.curline - h.top <= HeadBound(h)

LEMMA RoomKeeps ==
  ASSUME Sar!SarAssumption, NEW h, SarTypes(h), Room(h), h.headline <= h.top + h.repeathead,
         NEW p, p.curline \in Nat, p.curline <= h.curline + MaxRows + 1, p.headline = h.headline, p.top = h.top,
         p.repeathead = h.repeathead
  PROVE  HeadOK(p)
<1>1. HeadBound(h) \in Nat /\ MaxRows \in Nat /\ h.curline \in Nat /\ h.top \in Nat
  BY BoundFacts DEF SarTypes
<1>2. HeadBound(p) = HeadBound(h)
  BY DEF HeadBound
<1> QED
  BY <1>1, <1>2 DEF HeadOK, Room

\* The header comes first.
LEMMA HeaderHanded ==
  ASSUME Sar!SarAssumption, NEW r, NEW sh, NEW s, Handed(r, sh, s)
  PROVE  LET d == Sar!DateLine(r, s.time)
             h == Sar!Header(d)
         IN /\ IsSar(d) /\ Same(d, r, {"daylim", "curline"}) /\ d.curline \in Nat
            /\ Same(h, r, {"daylim", "curline", "headline", "top"})
            /\ Handed(h, sh, s) /\ Room(h)
<1> DEFINE d == Sar!DateLine(r, s.time)
           h == Sar!Header(d)
<1>1. /\ IsSar(r) /\ r.curline \in Nat /\ r.headline \in Nat /\ r.top \in Nat /\ r.repeathead \in Nat
      /\ r.headline <= r.top + r.repeathead
  BY DEF Handed, SarTypes, HeadOK
<1>2. IsSar(d) /\ Same(d, r, {"daylim", "curline"}) /\ d.curline \in Nat
  BY <1>1, DateLineFacts
<1> HIDE DEF d
<1>3. d.headline = r.headline /\ d.top = r.top /\ d.repeathead = r.repeathead
  BY <1>2 DEF Same, Fields
<1>4. /\ IsSar(h) /\ Same(h, d, {"headline", "top", "curline"})
      /\ h.curline \in Nat /\ h.headline \in Nat /\ h.top \in Nat /\ h.headline <= h.top + h.repeathead
      /\ h.curline - h.top <= HeadBound(h)
  BY <1>1, <1>2, <1>3, HeaderFacts
<1> HIDE DEF h
<1>5. Same(h, r, {"daylim", "curline", "headline", "top"})
  BY <1>2, <1>4 DEF Same
<1>6. h.repeathead = r.repeathead
  BY <1>5 DEF Same, Fields
<1>7. HeadOK(h)
  <2>1. HeadBound(h) \in Nat /\ MaxRows \in Nat
    BY <1>1, <1>6, BoundFacts
  <2> QED
    BY <1>4, <2>1 DEF HeadOK
<1>8. Handed(h, sh, s)
  BY <1>4, <1>5, <1>7, SameHanded
<1> QED
  BY <1>2, <1>4, <1>5, <1>8 DEF Room, d, h

\* The first sample of a report.
LEMMA FirstInv ==
  ASSUME Sar!SarAssumption, NEW r, NEW sh, NEW s, Handed(r, sh, s), r.sampcnt = 1,
         NEW d, IsSar(d), Same(d, r, {"daylim", "curline"}), d.curline \in Nat, NEW p, p = Sar!FirstSample(d)
  PROVE  SarInv(p)
<1>1. /\ IsSar(p) /\ Same(p, d, {"curline", "headline", "top", "sampsum", "totals"})
      /\ p.curline = 1 /\ p.headline = 0 /\ p.top = 1 /\ p.sampsum = d.summarycnt + 1 /\ p.totals = << >>
  BY DEF Sar!FirstSample, IsSar, Same, Fields
<1>2. /\ p.out = r.out /\ p.log = r.log /\ p.summarycnt = r.summarycnt /\ p.pc = r.pc /\ p.shown = r.shown
      /\ p.prinow = r.prinow /\ p.wanted = r.wanted /\ p.pos = r.pos /\ p.sampcnt = r.sampcnt
      /\ p.lastcmd = r.lastcmd /\ p.begintime = r.begintime /\ p.repeathead = r.repeathead
      /\ d.summarycnt = r.summarycnt
  BY <1>1 DEF Same, Fields
<1>3. /\ SarTypes(r) /\ LinesOK(r) /\ r.summarycnt \in Nat \ {0} /\ r.repeathead \in Nat /\ r.pc = "read"
  BY DEF Handed, SarTypes
<1>4. SarTypes(p)
  <2>1. /\ p.curline \in Nat /\ p.headline \in Nat /\ p.top \in Nat /\ p.sampsum \in Int
        /\ p.totals \in Seq(SampleSet)
    BY <1>1, <1>2, <1>3
  <2> QED
    BY <1>1, <1>3, <2>1, ZenonT(60) DEF SarTypes, Same, Fields
<1>5. LinesOK(p)
  BY <1>2, <1>3, SameLines
<1>6. HeadOK(p)
  <2>1. HeadBound(p) \in Nat /\ MaxRows \in Nat /\ p.repeathead \in Nat
    BY <1>2, <1>3, BoundFacts
  <2> QED
    BY <1>1, <2>1 DEF HeadOK
<1>7. sh = << >> /\ Len(r.shown) = 1
  BY HandedFacts
<1>8. p.out = << >> /\ Len(<< >>) = 0
  BY <1>2, <1>7 DEF Handed
<1>9. Told(p.out, p.totals, p.shown) /\ Sorted(p.out, p.totals)
  <2>1. 2 .. 1 = {} /\ 1 .. 0 = {}
    OBVIOUS
  <2> QED
    BY <1>1, <1>2, <1>7, <1>8, <2>1 DEF Told, Sorted
<1>10. TotalsOK(p)
  BY <1>1, <1>2, <1>3, <1>7, <1>8 DEF TotalsOK
<1> QED
  BY <1>2, <1>3, <1>4, <1>5, <1>6, <1>8, <1>9, <1>10, DoneInv

\* A report that prints a line more.
LEMMA OneMore ==
  ASSUME NEW o \in Seq(LineSet), NEW line \in LineSet, \A k \in 1 .. Len(o) : o[k].report = line.report,
         NEW q, q = Append(o, line)
  PROVE  \A k \in 1 .. Len(q) : q[k].report = line.report
<1>1. /\ Len(q) = Len(o) + 1 /\ Len(o) \in Nat /\ q[Len(o) + 1] = line
      /\ \A k \in 1 .. Len(o) : q[k] = o[k]
  BY AppendedLine
<1> QED
  BY <1>1

\* A restart of the log.
LEMMA BootInv ==
  ASSUME Sar!SarAssumption, NEW h, NEW sh, NEW s, Handed(h, sh, s), Room(h), sh # << >>, h.prinow \in h.wanted, s.boot,
         NEW p, p = Sar!RestartLine(h)
  PROVE  SarInv(p)
<1>1. /\ SarTypes(h) /\ LinesOK(h) /\ h.pc = "read" /\ h.prinow \in Reports /\ h.headline <= h.top + h.repeathead
      /\ h.out \in Seq(LineSet) /\ h.totals \in Seq(SampleSet) /\ h.shown \in Seq(SampleSet) /\ sh \in Seq(SampleSet)
      /\ s \in SampleSet /\ h.shown = Append(sh, s) /\ h.summarycnt \in Nat \ {0}
      /\ h.sampcnt \in Nat /\ h.sampsum \in Int /\ h.pos \in Nat /\ h.log \in Seq(SampleSet)
      /\ \A k \in 1 .. Len(h.log) : h.log[k].time = k
  BY DEF Handed, SarTypes, ReadOK, HeadOK
<1>2. /\ \A k \in 1 .. Len(h.out) : h.out[k].report = h.prinow
      /\ Told(h.out, h.totals, sh) /\ Sorted(h.out, h.totals)
      /\ Len(h.totals) < h.summarycnt /\ Len(h.totals) < Len(sh)
      /\ h.summarycnt > 1 => h.sampsum - h.sampcnt = h.summarycnt - Len(h.totals) - 1
      /\ \A m \in 1 .. Len(h.totals) :
           h.totals[m] = h.log[h.pos - 1 - Len(h.totals) + m] /\ ~h.log[h.pos - 1 - Len(h.totals) + m].boot
  BY DEF Handed
<1>3. /\ Len(sh) \in Nat /\ Len(h.shown) = Len(sh) + 1 /\ h.sampcnt = Len(sh) + 1 /\ h.pos \in 1 .. Len(h.log)
      /\ Len(h.log) \in Nat
  BY HandedFacts
<1>4. Within(h.totals, h)
  <2>1. Len(h.totals) \in Nat
    BY <1>1
  <2>2. h.sampcnt <= h.pos
    BY DEF Handed, ReadOK
  <2> DEFINE b == h.pos - 1 - Len(h.totals)
  <2>3. b \in Nat /\ b + Len(h.totals) <= Len(h.log)
    BY <1>2, <1>3, <2>1, <2>2
  <2>4. Follows(h.totals, h.log, b)
    BY <1>2 DEF Follows
  <2>5. Len(h.totals) <= h.summarycnt
    BY <1>1, <1>2, <2>1
  <2> HIDE DEF b
  <2> QED
    BY <1>1, <2>3, <2>4, <2>5, TotalsWithin
<1>5. ASSUME h.totals # << >> PROVE h.summarycnt > 1 /\ h.sampcnt <= h.sampsum
  <2>1. Len(h.totals) \in Nat /\ Len(h.totals) >= 1
    BY <1>1, <1>5
  <2>2. h.summarycnt > 1
    BY <1>1, <1>2, <2>1
  <2>3. h.sampsum - h.sampcnt = h.summarycnt - Len(h.totals) - 1 /\ Len(h.totals) < h.summarycnt
    BY <1>2, <2>2
  <2> QED
    BY <1>1, <2>1, <2>2, <2>3
<1>6. /\ SarTypes(p) /\ LinesOK(p) /\ p.pc \in {"read", "done"}
      /\ Same(p, h, {"wanted", "numreports", "pc", "code", "sampsum", "totals", "out", "curline", "first"})
      /\ p.curline >= h.curline /\ p.curline <= h.curline + MaxRows + 1
      /\ p.pc = "read" /\ h.prinow \in p.wanted =>
           /\ p.totals = << >> /\ p.sampsum = h.summarycnt + h.sampcnt
           /\ \/ h.totals = << >> /\ p.out = h.out
              \/ \E line \in LineSet :
                   p.out = Append(h.out, line) /\ line.report = h.prinow /\ line.samples = h.totals
  BY <1>1, <1>4, <1>5, RestartLineFacts
<1>7. /\ p.log = h.log /\ p.pos = h.pos /\ p.sampcnt = h.sampcnt /\ p.shown = h.shown /\ p.lastcmd = h.lastcmd
      /\ p.begintime = h.begintime /\ p.prinow = h.prinow /\ p.summarycnt = h.summarycnt
      /\ p.headline = h.headline /\ p.top = h.top /\ p.repeathead = h.repeathead
  BY <1>6 DEF Same, Fields
<1>8. HeadOK(p)
  <2>1. p.curline \in Nat
    BY <1>6 DEF SarTypes
  <2> QED
    BY <1>1, <1>6, <1>7, <2>1, RoomKeeps
<1>9. ASSUME p.pc = "read", p.prinow \in p.wanted
      PROVE  /\ \A k \in 1 .. Len(p.out) : p.out[k].report = p.prinow
             /\ Told(p.out, p.totals, p.shown) /\ Sorted(p.out, p.totals) /\ TotalsOK(p)
  <2>1. /\ p.totals = << >> /\ p.sampsum = h.summarycnt + h.sampcnt
    BY <1>6, <1>7, <1>9
  <2>2. TotalsOK(p)
    <3>1. Len(<< >>) = 0 /\ 1 .. 0 = {}
      OBVIOUS
    <3> QED
      BY <1>1, <1>3, <1>7, <2>1, <3>1 DEF TotalsOK
  <2>3. Told(h.out, h.totals, h.shown)
    BY <1>1, <1>2, ToldBoot
  <2>4. CASE h.totals = << >> /\ p.out = h.out
    BY <1>2, <1>7, <2>1, <2>2, <2>3, <2>4
  <2>5. CASE \E line \in LineSet : p.out = Append(h.out, line) /\ line.report = h.prinow /\ line.samples = h.totals
    <3>1. PICK line \in LineSet : p.out = Append(h.out, line) /\ line.report = h.prinow /\ line.samples = h.totals
      BY <2>5
    <3>2. Told(p.out, << >>, h.shown)
      BY <1>1, <2>3, <3>1, ToldMove
    <3>3. Sorted(p.out, << >>)
      BY <1>1, <1>2, <3>1, SortedMove
    <3>4. \A k \in 1 .. Len(p.out) : p.out[k].report = line.report
      BY <1>1, <1>2, <3>1, OneMore
    <3> QED
      BY <1>7, <2>1, <2>2, <3>1, <3>2, <3>3, <3>4
  <2> QED
    BY <1>6, <1>7, <1>9, <2>4, <2>5
<1> QED
  BY <1>6, <1>7, <1>8, <1>9, DoneInv

\* What a line of the samples u, the last of them s, leaves.
LEMMA LineInv ==
  ASSUME Sar!SarAssumption, NEW h, NEW sh, NEW s, Handed(h, sh, s), Room(h), sh # << >>, h.prinow \in h.wanted, ~s.boot,
         NEW u, u = Append(h.totals, s),
         NEW a, SarTypes(a), LinesOK(a), Same(a, h, {"totals"}), Within(u, a), a.totals = << >> \/ a.totals = u,
         NEW q, q = LogLine(a, a.prinow, u) \/ q = SumLine(a, a.prinow, u),
         NEW summed \in BOOLEAN, NEW p, p = Sar!AfterLine(q, summed),
         summed \/ (h.summarycnt = 1 /\ a.totals = << >>)
  PROVE  SarInv(p)
<1>1. /\ SarTypes(h) /\ LinesOK(h) /\ h.pc = "read" /\ h.prinow \in Reports /\ h.headline <= h.top + h.repeathead
      /\ h.out \in Seq(LineSet) /\ h.totals \in Seq(SampleSet) /\ h.shown \in Seq(SampleSet) /\ sh \in Seq(SampleSet)
      /\ s \in SampleSet /\ h.shown = Append(sh, s) /\ h.summarycnt \in Nat \ {0} /\ h.curline \in Nat
      /\ h.sampcnt \in Nat /\ h.sampsum \in Int /\ h.wanted \in SUBSET Reports /\ h.numreports \in Int
  BY DEF Handed, SarTypes, ReadOK, HeadOK
<1>2. /\ \A k \in 1 .. Len(h.out) : h.out[k].report = h.prinow
      /\ Told(h.out, h.totals, sh) /\ Sorted(h.out, h.totals)
  BY DEF Handed
<1>3. /\ Len(sh) \in Nat /\ Len(h.shown) = Len(sh) + 1
      /\ \A k \in 1 .. Len(sh) : sh[k].time < s.time
  BY HandedFacts
<1>4. u \in Seq(SampleSet)
  BY <1>1, AppendedSample
<1>5. /\ a.out = h.out /\ a.curline = h.curline /\ a.prinow = h.prinow /\ a.pc = h.pc /\ a.summarycnt = h.summarycnt
      /\ a.sampcnt = h.sampcnt /\ a.sampsum = h.sampsum /\ a.wanted = h.wanted /\ a.numreports = h.numreports
  BY DEF Same, Fields
<1>6. HasLine(q, a, a.prinow, u)
  BY <1>1, <1>4, <1>5, RawPrinted
<1>7. /\ SarTypes(q) /\ LinesOK(q) /\ Same(q, a, {"out", "curline", "first"})
      /\ q.curline > h.curline /\ q.curline <= h.curline + MaxRows
      /\ \E line \in LineSet : q.out = Append(h.out, line) /\ line.report = h.prinow /\ line.samples = u
  BY <1>5, <1>6 DEF HasLine
<1>8. IsSar(q) /\ q.curline \in Nat
  BY <1>7 DEF SarTypes
<1>9. /\ q.numreports = h.numreports /\ q.pc = "read" /\ q.prinow = h.prinow /\ q.summarycnt = h.summarycnt
      /\ q.sampcnt = h.sampcnt /\ q.sampsum = h.sampsum /\ q.totals = a.totals /\ q.wanted = h.wanted
  BY <1>1, <1>5, <1>7 DEF Same, Fields
<1>10. /\ IsSar(p) /\ Same(p, q, {"wanted", "numreports", "pc", "code", "sampsum", "totals"})
       /\ p.numreports \in Int /\ p.pc \in {"read", "done"}
       /\ p.wanted \in {q.wanted, q.wanted \ {q.prinow}}
       /\ \/ p.totals = q.totals /\ p.sampsum = q.sampsum
          \/ p.totals = << >> /\ p.sampsum = q.summarycnt + q.sampcnt
       /\ q.prinow \in p.wanted =>
            IF summed THEN p.totals = << >> /\ p.sampsum = q.summarycnt + q.sampcnt
                      ELSE p.totals = q.totals /\ p.sampsum = q.sampsum
  BY <1>1, <1>8, <1>9, AfterLineFacts
<1>11. Same(p, h, {"wanted", "numreports", "pc", "code", "sampsum", "totals", "out", "curline", "first"})
  BY <1>7, <1>10 DEF Same
<1>12. /\ p.log = h.log /\ p.pos = h.pos /\ p.sampcnt = h.sampcnt /\ p.shown = h.shown /\ p.lastcmd = h.lastcmd
       /\ p.begintime = h.begintime /\ p.prinow = h.prinow /\ p.summarycnt = h.summarycnt
       /\ p.headline = h.headline /\ p.top = h.top /\ p.repeathead = h.repeathead
  BY <1>11 DEF Same, Fields
<1>13. p.out = q.out /\ p.curline = q.curline /\ p.log = q.log /\ p.summarycnt = q.summarycnt
  BY <1>10 DEF Same, Fields
<1>14. LinesOK(p)
  BY <1>7, <1>13, SameLines
<1>15. SarTypes(p)
  <2>a. p.pc \in SarLabels /\ p.wanted \in SUBSET Reports
    BY <1>1, <1>9, <1>10 DEF SarLabels
  <2>b. p.sampsum \in Int
    BY <1>1, <1>9, <1>10
  <2>c. << >> \in Seq(SampleSet)
    OBVIOUS
  <2>1. p.totals \in Seq(SampleSet)
    BY <1>4, <1>9, <1>10, <2>c
  <2> QED
    BY <1>7, <1>10, <2>1, <2>a, <2>b DEF SarTypes, Same, Fields
<1>16. HeadOK(p)
  <2>1. p.curline \in Nat /\ p.curline <= h.curline + MaxRows + 1
    <3>1. MaxRows \in Nat
      BY <1>1, BoundFacts DEF SarTypes
    <3> QED
      BY <1>1, <1>7, <1>8, <1>13, <3>1
  <2> QED
    BY <1>1, <1>12, <2>1, RoomKeeps
<1>17. ASSUME p.prinow \in p.wanted
       PROVE  /\ \A k \in 1 .. Len(p.out) : p.out[k].report = p.prinow
              /\ Told(p.out, p.totals, p.shown) /\ Sorted(p.out, p.totals) /\ TotalsOK(p)
  <2>1. p.totals = << >> /\ (p.summarycnt > 1 => p.sampsum = h.summarycnt + h.sampcnt)
    BY <1>1, <1>9, <1>10, <1>12, <1>17
  <2>2. TotalsOK(p)
    <3>1. Len(<< >>) = 0 /\ 1 .. 0 = {}
      OBVIOUS
    <3> QED
      BY <1>1, <1>3, <1>12, <2>1, <3>1 DEF TotalsOK
  <2>3. Told(h.out, u, h.shown) /\ Sorted(h.out, u)
    BY <1>1, <1>2, <1>3, ToldAdd, SortedAdd
  <2>4. PICK line \in LineSet : q.out = Append(h.out, line) /\ line.report = h.prinow /\ line.samples = u
    BY <1>7
  <2>5. Told(q.out, << >>, h.shown)
    BY <1>1, <1>4, <2>3, <2>4, ToldMove
  <2>6. Sorted(q.out, << >>)
    BY <1>1, <1>4, <2>3, <2>4, SortedMove
  <2>7. \A k \in 1 .. Len(q.out) : q.out[k].report = line.report
    BY <1>1, <1>2, <2>4, OneMore, SMTT(30)
  <2> QED
    BY <1>12, <1>13, <2>1, <2>2, <2>4, <2>5, <2>6, <2>7
<1> QED
  BY <1>10, <1>12, <1>14, <1>15, <1>16, <1>17, DoneInv

\* The sample is added to the totals.
LEMMA AddFacts ==
  ASSUME NEW h, NEW sh, NEW s, Handed(h, sh, s), sh # << >>, h.prinow \in h.wanted, ~s.boot,
         NEW a, a = Sar!AddSample(h, s)
  PROVE  /\ SarTypes(a) /\ LinesOK(a) /\ Same(a, h, {"totals"}) /\ a.totals = Append(h.totals, s)
         /\ Within(a.totals, a) /\ Len(a.totals) = Len(h.totals) + 1 /\ Len(h.totals) \in Nat
         /\ \A m \in 1 .. Len(a.totals) :
              LET j == h.pos - Len(a.totals) + m IN a.totals[m] = h.log[j] /\ ~h.log[j].boot
<1>1. /\ SarTypes(h) /\ IsSar(h) /\ LinesOK(h) /\ h.totals \in Seq(SampleSet) /\ s \in SampleSet /\ s = h.log[h.pos]
      /\ h.summarycnt \in Nat \ {0} /\ h.log \in Seq(SampleSet) /\ h.pos \in Nat /\ h.sampcnt <= h.pos
  BY DEF Handed, SarTypes, ReadOK
<1>2. /\ Len(h.totals) < h.summarycnt /\ Len(h.totals) < Len(sh)
      /\ \A m \in 1 .. Len(h.totals) :
           h.totals[m] = h.log[h.pos - 1 - Len(h.totals) + m] /\ ~h.log[h.pos - 1 - Len(h.totals) + m].boot
  BY DEF Handed
<1>3. /\ Len(sh) \in Nat /\ h.sampcnt = Len(sh) + 1 /\ h.pos \in 1 .. Len(h.log) /\ Len(h.log) \in Nat
  BY HandedFacts
<1>4. IsSar(a) /\ Same(a, h, {"totals"}) /\ a.totals = Append(h.totals, s)
  BY <1>1 DEF Sar!AddSample, IsSar, Same, Fields
<1>5. /\ a.totals \in Seq(SampleSet) /\ Len(a.totals) = Len(h.totals) + 1 /\ Len(h.totals) \in Nat
      /\ \A k \in 1 .. Len(h.totals) : a.totals[k] = h.totals[k]
      /\ a.totals[Len(h.totals) + 1] = s
  <2> DEFINE t == h.totals
             u == a.totals
  <2>1. t \in Seq(SampleSet) /\ u = Append(t, s)
    BY <1>1, <1>4
  <2> HIDE DEF t, u
  <2>2. /\ u \in Seq(SampleSet) /\ Len(u) = Len(t) + 1 /\ Len(t) \in Nat
        /\ \A k \in 1 .. Len(t) : u[k] = t[k]
        /\ u[Len(t) + 1] = s
    BY <1>1, <2>1, AppendedSample
  <2> QED
    BY <2>2 DEF t, u
<1>6. SarTypes(a)
  BY <1>1, <1>4, <1>5 DEF SarTypes, Same, Fields
<1>7. a.out = h.out /\ a.log = h.log /\ a.summarycnt = h.summarycnt
  BY <1>4 DEF Same, Fields
<1>8. LinesOK(a)
  BY <1>1, <1>7, SameLines
<1> DEFINE b == h.pos - Len(a.totals)
<1>9. b \in Nat /\ b + Len(a.totals) <= Len(h.log) /\ b = h.pos - 1 - Len(h.totals) /\ b + (Len(h.totals) + 1) = h.pos
  <2> DEFINE n == Len(h.totals)
             k == Len(sh)
  <2>1. n \in Nat /\ n < k /\ k \in Nat /\ k + 1 <= h.pos /\ h.pos \in Nat /\ h.pos <= Len(h.log) /\ Len(h.log) \in Nat
    BY <1>1, <1>2, <1>3, <1>5
  <2>2. b = h.pos - (n + 1) /\ Len(a.totals) = n + 1
    BY <1>5
  <2> HIDE DEF b, n, k
  <2>a. \A x, y, i, j \in Nat : i < j /\ j + 1 <= x /\ x <= y =>
          LET c == x - (i + 1) IN c \in Nat /\ c + (i + 1) <= y /\ c = x - 1 - i /\ c + (i + 1) = x
    OBVIOUS
  <2>3. b \in Nat /\ b + (n + 1) <= Len(h.log) /\ b = h.pos - 1 - n /\ b + (n + 1) = h.pos
    BY <2>1, <2>2, <2>a, SMTT(30)
  <2> QED
    BY <2>2, <2>3 DEF n
<1> HIDE DEF b
<1>10. Follows(a.totals, h.log, b)
  <2> SUFFICES ASSUME NEW m \in 1 .. Len(a.totals)
               PROVE  a.totals[m] = h.log[b + m] /\ ~h.log[b + m].boot
    BY DEF Follows
  <2>1. CASE m = Len(h.totals) + 1
    BY <1>1, <1>5, <1>9, <2>1
  <2>2. CASE m \in 1 .. Len(h.totals)
    BY <1>2, <1>5, <1>9, <2>2
  <2> QED
    BY <1>5, <2>1, <2>2
<1>11. Within(a.totals, a)
  <2>1. Len(a.totals) <= a.summarycnt
    BY <1>1, <1>2, <1>5, <1>7
  <2> QED
    BY <1>5, <1>6, <1>7, <1>9, <1>10, <2>1, TotalsWithin
<1> QED
  BY <1>4, <1>5, <1>6, <1>8, <1>10, <1>11 DEF Follows, b

\* The sample is only added up.
LEMMA AddInv ==
  ASSUME Sar!SarAssumption, NEW h, NEW sh, NEW s, Handed(h, sh, s), Room(h), sh # << >>, h.prinow \in h.wanted, ~s.boot,
         h.summarycnt # 1, h.sampcnt < h.sampsum, h.pos # Len(h.log), NEW p, p = Sar!AddSample(h, s)
  PROVE  SarInv(p)
<1>1. /\ SarTypes(h) /\ h.pc = "read" /\ HeadOK(h) /\ h.out \in Seq(LineSet) /\ h.totals \in Seq(SampleSet)
      /\ h.shown \in Seq(SampleSet) /\ sh \in Seq(SampleSet)
      /\ s \in SampleSet /\ h.shown = Append(sh, s) /\ h.summarycnt \in Nat \ {0} /\ h.sampcnt \in Nat /\ h.sampsum \in Int
  BY DEF Handed, SarTypes
<1>2. /\ \A k \in 1 .. Len(h.out) : h.out[k].report = h.prinow
      /\ Told(h.out, h.totals, sh) /\ Sorted(h.out, h.totals) /\ Len(h.totals) < Len(sh)
      /\ h.summarycnt > 1 => h.sampsum - h.sampcnt = h.summarycnt - Len(h.totals) - 1
  BY DEF Handed
<1>3. /\ Len(sh) \in Nat /\ Len(h.shown) = Len(sh) + 1
      /\ \A k \in 1 .. Len(sh) : sh[k].time < s.time
  BY HandedFacts
<1>4. /\ SarTypes(p) /\ LinesOK(p) /\ Same(p, h, {"totals"}) /\ p.totals = Append(h.totals, s)
      /\ Len(p.totals) = Len(h.totals) + 1 /\ Len(h.totals) \in Nat
      /\ \A m \in 1 .. Len(p.totals) :
           LET j == h.pos - Len(p.totals) + m IN p.totals[m] = h.log[j] /\ ~h.log[j].boot
  BY AddFacts
<1>5. /\ p.log = h.log /\ p.pos = h.pos /\ p.sampcnt = h.sampcnt /\ p.shown = h.shown /\ p.lastcmd = h.lastcmd
      /\ p.begintime = h.begintime /\ p.prinow = h.prinow /\ p.summarycnt = h.summarycnt /\ p.sampsum = h.sampsum
      /\ p.headline = h.headline /\ p.top = h.top /\ p.repeathead = h.repeathead /\ p.curline = h.curline
      /\ p.out = h.out /\ p.pc = h.pc /\ p.wanted = h.wanted
  BY <1>4 DEF Same, Fields
<1>6. HeadOK(p)
  BY <1>1, <1>5, SameHead
<1>7. Told(p.out, p.totals, p.shown) /\ Sorted(p.out, p.totals)
  <2> DEFINE u == p.totals
             th == p.shown
  <2>1. u = Append(h.totals, s) /\ th = Append(sh, s)
    BY <1>1, <1>4, <1>5
  <2> HIDE DEF u, th
  <2>2. Told(h.out, u, th)
    BY <1>1, <1>2, <2>1, ToldAdd
  <2>3. Sorted(h.out, u)
    BY <1>1, <1>2, <1>3, <2>1, SortedAdd
  <2> QED
    BY <1>5, <2>2, <2>3 DEF u, th
<1>8. h.summarycnt > 1 /\ p.sampsum - p.sampcnt = p.summarycnt - Len(p.totals) /\ Len(p.totals) < p.summarycnt
      /\ Len(p.totals) < Len(p.shown)
  <2>1. h.summarycnt > 1
    BY <1>1
  <2>2. h.sampsum - h.sampcnt = h.summarycnt - Len(h.totals) - 1
    BY <1>2, <2>1
  <2> QED
    <3> DEFINE n == Len(h.totals)
               k == Len(sh)
    <3>1. n \in Nat /\ k \in Nat /\ n < k /\ Len(p.totals) = n + 1 /\ Len(p.shown) = k + 1
      BY <1>2, <1>3, <1>4, <1>5
    <3>2. h.sampsum - h.sampcnt = h.summarycnt - n - 1
      BY <2>2
    <3> HIDE DEF n, k
    <3>3. \A x, y \in Int, z \in Nat, i, j \in Nat : y < x /\ x - y = z - i - 1 /\ i < j =>
            x - y = z - (i + 1) /\ i + 1 < z /\ i + 1 < j + 1
      OBVIOUS
    <3>4. h.sampsum - h.sampcnt = h.summarycnt - (n + 1) /\ n + 1 < h.summarycnt /\ n + 1 < k + 1
      <4>1. h.sampsum \in Int /\ h.sampcnt \in Int /\ h.summarycnt \in Nat /\ h.sampcnt < h.sampsum
        BY <1>1
      <4> QED
        BY <3>1, <3>2, <3>3, <4>1
    <3> QED
      BY <1>5, <2>1, <3>1, <3>4
<1>9. TotalsOK(p)
  BY <1>4, <1>5, <1>8 DEF TotalsOK
<1> QED
  BY <1>1, <1>2, <1>4, <1>5, <1>6, <1>7, <1>9, DoneInv, ZenonT(60)

\* reportraw, whatever it does with the sample.
LEMMA ReportInv ==
  ASSUME Sar!SarAssumption, NEW r, NEW sh, NEW s, Handed(r, sh, s), NEW last \in BOOLEAN, r.pos = Len(r.log) => last,
         NEW p, p = Sar!reportraw(r, s, last)
  PROVE  SarInv(p)
<1> DEFINE d == Sar!DateLine(r, s.time)
           h == Sar!Header(d)
           a == Sar!AddSample(h, s)
           one == LogLine(h, h.prinow, << s >>)
           sum == SumLine(a, a.prinow, a.totals)
<1>1. /\ r.prinow \notin r.wanted => p = r
      /\ r.prinow \in r.wanted /\ r.sampcnt = 1 => p = Sar!FirstSample(d)
      /\ r.prinow \in r.wanted /\ r.sampcnt # 1 =>
           p = IF s.boot THEN Sar!RestartLine(h)
               ELSE IF h.summarycnt = 1 THEN Sar!AfterLine(one, FALSE)
               ELSE IF h.sampcnt >= h.sampsum \/ last THEN Sar!AfterLine(sum, TRUE) ELSE a
  BY DEF Sar!reportraw, Sar!OneSample, Sar!LineDue, LogLine, SumLine
<1>2. /\ IsSar(d) /\ Same(d, r, {"daylim", "curline"}) /\ d.curline \in Nat
      /\ Same(h, r, {"daylim", "curline", "headline", "top"})
      /\ Handed(h, sh, s) /\ Room(h)
  BY HeaderHanded
<1> HIDE DEF d, h
<1>3. /\ SarTypes(r) /\ LinesOK(r) /\ HeadOK(r) /\ r.pc = "read"
  BY DEF Handed
<1>4. CASE r.prinow \notin r.wanted
  <2>1. p = r
    BY <1>1, <1>4
  <2> QED
    BY <1>3, <1>4, <2>1, DoneInv
<1>5. CASE r.prinow \in r.wanted /\ r.sampcnt = 1
  BY <1>1, <1>2, <1>5, FirstInv
<1>6. CASE r.prinow \in r.wanted /\ r.sampcnt # 1
  <2>0. h.prinow = r.prinow /\ h.wanted = r.wanted /\ h.pos = r.pos /\ h.log = r.log
    BY <1>2 DEF Same, Fields
  <2>1. sh # << >> /\ h.prinow \in h.wanted /\ s \in SampleSet /\ s.boot \in BOOLEAN
    BY <1>6, <2>0, HandedFacts DEF Handed, SampleSet
  <2>2. CASE s.boot
    <3>1. p = Sar!RestartLine(h)
      BY <1>1, <1>6, <2>2
    <3> QED
      BY <1>2, <2>1, <2>2, <3>1, BootInv
  <2>3. CASE ~s.boot /\ h.summarycnt = 1
    <3>1. p = Sar!AfterLine(one, FALSE)
      BY <1>1, <1>6, <2>3
    <3>2. h.totals = << >> /\ SarTypes(h) /\ LinesOK(h)
      <4>1. h.totals \in Seq(SampleSet) /\ Len(h.totals) < 1 /\ SarTypes(h) /\ LinesOK(h)
        BY <1>2, <2>1, <2>3 DEF Handed, SarTypes
      <4> QED
        BY <4>1
    <3>3. << s >> = Append(h.totals, s)
      BY <3>2
    <3>4. Within(<< s >>, h)
      <4>1. h.summarycnt \in Nat \ {0}
        BY <2>3
      <4> QED
        BY <2>1, <4>1, OneWithin
    <3>5. Same(h, h, {"totals"})
      BY DEF Same
    <3>6. one = LogLine(h, h.prinow, << s >>)
      OBVIOUS
    <3> DEFINE u == << s >>
               summed == FALSE
    <3>7. /\ u = Append(h.totals, s) /\ Within(u, h) /\ one = LogLine(h, h.prinow, u) /\ summed \in BOOLEAN
          /\ p = Sar!AfterLine(one, summed) /\ ~summed
      BY <3>1, <3>3, <3>4, <3>6
    <3> HIDE DEF u, summed, one
    <3> QED
      BY <1>2, <2>1, <2>3, <3>2, <3>5, <3>7, LineInv
  <2>4. CASE ~s.boot /\ h.summarycnt # 1
    <3>1. /\ SarTypes(a) /\ LinesOK(a) /\ Same(a, h, {"totals"}) /\ a.totals = Append(h.totals, s)
          /\ Within(a.totals, a)
      BY <1>2, <2>1, <2>4, AddFacts
    <3>2. CASE h.sampcnt >= h.sampsum \/ last
      <4>1. p = Sar!AfterLine(sum, TRUE)
        BY <1>1, <1>6, <2>4, <3>2
      <4> DEFINE u == a.totals
                 summed == TRUE
      <4>2. /\ u = Append(h.totals, s) /\ Within(u, a) /\ sum = SumLine(a, a.prinow, u) /\ summed \in BOOLEAN
            /\ p = Sar!AfterLine(sum, summed) /\ summed /\ a.totals = u
        BY <3>1, <4>1
      <4> HIDE DEF a, u, summed, sum
      <4> QED
        BY <1>2, <2>1, <2>4, <3>1, <4>2, LineInv
    <3>3. CASE ~(h.sampcnt >= h.sampsum \/ last)
      <4>1. p = a
        BY <1>1, <1>6, <2>4, <3>3
      <4>2. h.sampcnt < h.sampsum /\ h.pos # Len(h.log)
        <5>1. h.sampcnt \in Nat /\ h.sampsum \in Int
          BY <1>2 DEF Handed, SarTypes
        <5> QED
          BY <2>0, <3>3, <5>1
      <4> QED
        BY <1>2, <2>1, <2>4, <4>1, <4>2, AddInv
    <3> QED
      BY <3>2, <3>3
  <2> QED
    BY <2>1, <2>2, <2>3, <2>4
<1> QED
  BY <1>4, <1>5, <1>6

\* A sample of the log is read.
LEMMA ReadInv ==
  ASSUME Sar!SarAssumption, SarInv(sar), Sar!Read
  PROVE  SarInv(sar')
<1> DEFINE p == sar'
           s == sar.log[sar.pos + 1]
           x == [sar EXCEPT !.pos = @ + 1]
           r == [x EXCEPT !.begintime = 0, !.lastcmd = FALSE, !.sampcnt = @ + 1, !.shown = Append(@, s)]
<1>1. /\ sar.pc = "read" /\ sar.pos < Len(sar.log)
      /\ SarTypes(sar) /\ IsSar(sar) /\ LinesOK(sar) /\ HeadOK(sar) /\ RawOK(sar) /\ ReadOK(sar)
      /\ sar.pos \in Nat /\ sar.log \in Seq(SampleSet) /\ Len(sar.log) \in Nat /\ sar.shown \in Seq(SampleSet)
      /\ sar.sampcnt = Len(sar.shown) /\ sar.sampcnt <= sar.pos /\ sar.sampcnt \in Nat
      /\ \A k \in 1 .. Len(sar.log) : sar.log[k].time = k
  <2>1. /\ sar.pc = "read" /\ sar.pos < Len(sar.log)
        /\ SarTypes(sar) /\ LinesOK(sar) /\ HeadOK(sar) /\ RawOK(sar)
    BY DEF Sar!Read, SarInv
  <2>2. IsSar(sar) /\ sar.pos \in Nat /\ sar.log \in Seq(SampleSet) /\ sar.shown \in Seq(SampleSet) /\ sar.sampcnt \in Nat
    BY <2>1 DEF SarTypes
  <2>3. \A k \in 1 .. Len(sar.log) : sar.log[k].time = k
    BY <2>1 DEF SarTypes
  <2>4. ReadOK(sar)
    BY <2>1 DEF RawOK
  <2>5. sar.sampcnt = Len(sar.shown) /\ sar.sampcnt <= sar.pos
    BY <2>4 DEF ReadOK
  <2>6. Len(sar.log) \in Nat
    BY <2>2
  <2> QED
    BY <2>1, <2>2, <2>3, <2>4, <2>5, <2>6
<1>2. p = IF sar.begintime > s.time THEN x
          ELSE IF sar.endtime # 0 /\ sar.endtime < s.time THEN [sar EXCEPT !.pc = "raw"]
          ELSE Sar!reportraw(r, s, x.pos = Len(x.log))
  BY DEF Sar!Read
<1>3. sar.pos + 1 \in 1 .. Len(sar.log) /\ s \in SampleSet /\ s.time = sar.pos + 1
  BY <1>1
<1>4. IsSar(x) /\ Same(x, sar, {"pos"}) /\ x.pos = sar.pos + 1 /\ x.log = sar.log
  <2>1. IsSar(sar)
    BY <1>1
  <2> QED
    BY <2>1 DEF IsSar, Same, Fields
<1> HIDE DEF p, s, x
<1>5. CASE sar.begintime > s.time
  <2>1. p = x
    BY <1>2, <1>5
  <2>2. sar.shown = << >>
    <3>1. sar.shown # << >> => sar.begintime = 0
      BY <1>1 DEF ReadOK
    <3> QED
      BY <1>1, <1>3, <1>5, <3>1
  <2>3. /\ p.curline = sar.curline /\ p.headline = sar.headline /\ p.top = sar.top /\ p.repeathead = sar.repeathead
        /\ p.log = sar.log /\ p.out = sar.out /\ p.summarycnt = sar.summarycnt /\ p.pc = "read"
        /\ p.shown = sar.shown /\ p.totals = sar.totals /\ p.sampcnt = sar.sampcnt /\ p.lastcmd = sar.lastcmd
        /\ p.prinow = sar.prinow /\ IsSar(p) /\ p.pos = sar.pos + 1
    BY <1>1, <1>4, <2>1 DEF Same, Fields
  <2>4. p.pos \in Nat /\ p.pos <= Len(p.log)
    BY <1>1, <2>3
  <2>5. SarTypes(p)
    BY <1>1, <1>4, <2>1, <2>4 DEF SarTypes, Same, Fields
  <2>6. LinesOK(p) /\ HeadOK(p)
    BY <1>1, <2>3, SameLines, SameHead
  <2>7. ReadOK(p)
    <3>1. Len(<< >>) = 0 /\ 1 .. 0 = {} /\ sar.prinow \in Reports /\ sar.lastcmd /\ Len(sar.log) > 0
      BY <1>1, <2>2 DEF ReadOK
    <3> QED
      BY <1>1, <2>2, <2>3, <2>4, <3>1 DEF ReadOK
  <2>8. CoverOK(p) /\ ~Active(p)
    BY <1>1, <2>2, <2>3 DEF CoverOK, Active, RawOK
  <2> QED
    BY <1>1, <2>3, <2>5, <2>6, <2>7, <2>8 DEF SarInv, RawOK, p
<1>6. CASE ~(sar.begintime > s.time) /\ sar.endtime # 0 /\ sar.endtime < s.time
  <2>1. p = [sar EXCEPT !.pc = "raw"]
    BY <1>2, <1>6
  <2>2. IsSar(p) /\ Same(p, sar, {"pc"}) /\ p.pc = "raw"
    BY <1>1, <2>1 DEF IsSar, Same, Fields
  <2>3. /\ p.curline = sar.curline /\ p.headline = sar.headline /\ p.top = sar.top /\ p.repeathead = sar.repeathead
        /\ p.log = sar.log /\ p.out = sar.out /\ p.summarycnt = sar.summarycnt /\ p.wanted = sar.wanted
        /\ p.shown = sar.shown /\ p.totals = sar.totals /\ p.prinow = sar.prinow /\ p.endtime = sar.endtime
    BY <2>2 DEF Same, Fields
  <2>4. SarTypes(p)
    BY <1>1, <2>2 DEF SarTypes, Same, Fields, SarLabels
  <2>5. LinesOK(p) /\ HeadOK(p)
    BY <1>1, <2>3, SameLines, SameHead
  <2>6. CoverOK(p)
    BY <1>1, <2>3 DEF CoverOK, Active, RawOK
  <2>7. Len(p.log) > 0
    BY <1>1, <2>3 DEF RawOK
  <2> QED
    BY <1>6, <2>2, <2>3, <2>4, <2>5, <2>6, <2>7 DEF SarInv, RawOK, p
<1>7. CASE ~(sar.begintime > s.time) /\ ~(sar.endtime # 0 /\ sar.endtime < s.time)
  <2>1. p = Sar!reportraw(r, s, x.pos = Len(x.log))
    BY <1>2, <1>7
  <2>2. /\ IsSar(r) /\ Same(r, x, {"begintime", "lastcmd", "sampcnt", "shown"}) /\ r.begintime = 0 /\ r.lastcmd = FALSE
        /\ r.sampcnt = x.sampcnt + 1 /\ r.shown = Append(x.shown, s)
    BY <1>4 DEF IsSar, Same, Fields
  <2> HIDE DEF r
  <2>3. Same(r, sar, {"pos", "begintime", "lastcmd", "sampcnt", "shown"})
    BY <1>4, <2>2 DEF Same
  <2>4. /\ r.curline = sar.curline /\ r.headline = sar.headline /\ r.top = sar.top /\ r.repeathead = sar.repeathead
        /\ r.log = sar.log /\ r.out = sar.out /\ r.summarycnt = sar.summarycnt /\ r.pc = "read" /\ r.wanted = sar.wanted
        /\ r.shown = Append(sar.shown, s) /\ r.totals = sar.totals /\ r.sampcnt = sar.sampcnt + 1
        /\ r.prinow = sar.prinow /\ r.pos = sar.pos + 1 /\ r.sampsum = sar.sampsum
    BY <1>1, <1>4, <2>2, <2>3 DEF Same, Fields
  <2>5. /\ r.shown \in Seq(SampleSet) /\ Len(r.shown) = Len(sar.shown) + 1 /\ Len(sar.shown) \in Nat
        /\ \A k \in 1 .. Len(sar.shown) : r.shown[k] = sar.shown[k]
        /\ r.shown[Len(sar.shown) + 1] = s
    <3> DEFINE t == sar.shown
               u == r.shown
    <3>1. t \in Seq(SampleSet) /\ u = Append(t, s)
      BY <1>1, <2>4
    <3> HIDE DEF t, u
    <3>2. /\ u \in Seq(SampleSet) /\ Len(u) = Len(t) + 1 /\ Len(t) \in Nat
          /\ \A k \in 1 .. Len(t) : u[k] = t[k]
          /\ u[Len(t) + 1] = s
      BY <1>3, <3>1, AppendedSample
    <3> QED
      BY <3>2 DEF t, u
  <2>6. r.pos \in Nat /\ r.sampcnt \in Nat
    BY <1>1, <2>4
  <2>7. SarTypes(r)
    BY <1>1, <2>2, <2>3, <2>5, <2>6 DEF SarTypes, Same, Fields
  <2>8. LinesOK(r) /\ HeadOK(r)
    BY <1>1, <2>4, SameLines, SameHead
  <2>9. ReadOK(r)
    <3>1. ASSUME NEW k \in 1 .. Len(r.shown) PROVE r.shown[k] = r.log[r.pos - Len(r.shown) + k]
      <4>0. r.pos - Len(r.shown) = sar.pos - Len(sar.shown)
        BY <1>1, <2>4, <2>5
      <4>1. CASE k = Len(sar.shown) + 1
        <5>1. sar.pos - Len(sar.shown) + k = sar.pos + 1
          BY <1>1, <2>5, <4>1
        <5> QED
          BY <2>4, <2>5, <4>0, <4>1, <5>1 DEF s
      <4>2. CASE k \in 1 .. Len(sar.shown)
        <5>1. sar.shown[k] = sar.log[sar.pos - Len(sar.shown) + k]
          BY <1>1, <4>2 DEF ReadOK
        <5> QED
          BY <2>4, <2>5, <4>0, <4>2, <5>1
      <4> QED
        BY <2>5, <4>1, <4>2
    <3>a. r.shown # << >>
      <4>1. \A u \in Seq(SampleSet), n \in Nat : Len(u) = n + 1 => u # << >>
        OBVIOUS
      <4> QED
        BY <2>5, <4>1
    <3>2. r.shown # << >> /\ Len(r.log) > 0 /\ r.prinow \in Reports
      BY <1>1, <2>4, <3>a DEF ReadOK
    <3>3. r.pos <= Len(r.log) /\ r.sampcnt = Len(r.shown) /\ r.sampcnt <= r.pos
      BY <1>1, <2>4, <2>5
    <3>4. r.lastcmd <=> r.shown = << >>
      BY <2>2, <3>2
    <3>5. Len(r.log) > 0 /\ r.pos <= Len(r.log) /\ r.sampcnt = Len(r.shown) /\ r.sampcnt <= r.pos
      BY <3>2, <3>3
    <3> QED
      BY <2>2, <3>1, <3>2, <3>4, <3>5 DEF ReadOK
  <2>10. ASSUME r.prinow \in r.wanted, sar.shown # << >>
         PROVE  /\ \A k \in 1 .. Len(r.out) : r.out[k].report = r.prinow
                /\ Told(r.out, r.totals, sar.shown) /\ Sorted(r.out, r.totals)
                /\ Len(r.totals) < r.summarycnt /\ Len(r.totals) < Len(sar.shown)
                /\ r.summarycnt > 1 => r.sampsum - r.sampcnt = r.summarycnt - Len(r.totals) - 1
                /\ \A m \in 1 .. Len(r.totals) :
                     LET j == r.pos - 1 - Len(r.totals) + m IN r.totals[m] = r.log[j] /\ ~r.log[j].boot
    <3>1. Active(sar) /\ TotalsOK(sar) /\ CoverOK(sar)
      BY <1>1, <2>4, <2>10 DEF Active, RawOK
    <3>2. r.pos - 1 = sar.pos
      BY <1>1, <2>4
    <3>3. sar.summarycnt > 1 => sar.sampsum - (sar.sampcnt + 1) = sar.summarycnt - Len(sar.totals) - 1
      <4>1. sar.sampsum \in Int /\ sar.sampcnt \in Int /\ sar.summarycnt \in Int /\ Len(sar.totals) \in Int
        BY <1>1 DEF SarTypes
      <4>2. \A i, j, k, l \in Int : i - j = k - l => i - (j + 1) = k - l - 1
        OBVIOUS
      <4> QED
        BY <3>1, <4>1, <4>2 DEF TotalsOK
    <3> QED
      BY <2>4, <3>1, <3>2, <3>3 DEF TotalsOK, CoverOK
  <2>11. sar.shown = << >> => r.out = << >> /\ r.totals = << >>
    BY <1>1, <2>4 DEF RawOK, CoverOK
  <2>12. Handed(r, sar.shown, s)
    <3>1. r.pos > 0 /\ s = r.log[r.pos]
      BY <1>1, <2>4 DEF s
    <3> QED
      BY <1>1, <1>3, <2>4, <2>7, <2>8, <2>9, <2>10, <2>11, <3>1 DEF Handed
  <2> DEFINE last == (x.pos = Len(x.log))
  <2>13. last \in BOOLEAN /\ (r.pos = Len(r.log) => last) /\ p = Sar!reportraw(r, s, last)
    BY <1>4, <2>1, <2>4
  <2> HIDE DEF last
  <2> QED
    BY <2>12, <2>13, ReportInv DEF p
<1> QED
  BY <1>5, <1>6, <1>7

---------------------------------------------------------------------------
(* atopsar: every step, and what the invariant says about the reports.       *)

LEMMA SarStep ==
  ASSUME Sar!SarAssumption, SarInv(sar), Sar!Next
  PROVE  SarInv(sar')
BY CallInv, SarFlagsInv, GetoptInv, ModeInv, NextReportInv, ReadInv, EndOfFileInv, EngineInv, TogetherInv, EngineEndsInv
   DEF Sar!Next

\* The blocks of samples: one for each line, and the totals.
LEMMA BlockFacts ==
  ASSUME sar.out \in Seq(LineSet), sar.totals \in Seq(SampleSet)
  PROVE  /\ DOMAIN Sar!Blocks = 1 .. Len(sar.out) + 1 /\ Len(sar.out) \in Nat
         /\ \A k \in 1 .. Len(sar.out) : Sar!Blocks[k] = sar.out[k].samples /\ Sar!Blocks[k] \in Seq(SampleSet)
         /\ Sar!Blocks[Len(sar.out) + 1] = sar.totals
<1> DEFINE n == Len(sar.out)
           g == [k \in DOMAIN sar.out |-> sar.out[k].samples]
<1>1. n \in Nat /\ DOMAIN sar.out = 1 .. n /\ \A k \in 1 .. n : sar.out[k] \in LineSet
  OBVIOUS
<1>2. \A k \in 1 .. n : sar.out[k].samples \in Seq(SampleSet)
  BY <1>1 DEF LineSet
<1>3. g = [k \in 1 .. n |-> sar.out[k].samples]
  BY <1>1
<1>4. g \in Seq(Seq(SampleSet)) /\ Len(g) = n /\ \A k \in 1 .. n : g[k] = sar.out[k].samples
  BY <1>1, <1>2, <1>3, FunctionIsSeq
<1>5. Sar!Blocks = Append(g, sar.totals)
  BY DEF Sar!Blocks
<1> HIDE DEF g
<1>6. /\ DOMAIN Append(g, sar.totals) = 1 .. n + 1 /\ Append(g, sar.totals)[n + 1] = sar.totals
      /\ \A k \in 1 .. n : Append(g, sar.totals)[k] = g[k]
  BY <1>1, <1>4
<1> QED
  BY <1>1, <1>2, <1>4, <1>5, <1>6

LEMMA PlaceFacts ==
  ASSUME sar.out \in Seq(LineSet), sar.totals \in Seq(SampleSet)
  PROVE  /\ \A p \in Sar!Places :
              \E k \in 1 .. Len(sar.out) + 1 : \E m \in 1 .. Len(Sar!Blocks[k]) :
                p[1] = k /\ p[2] = m /\ Sar!At(p) = Sar!Blocks[k][m]
         /\ \A k \in 1 .. Len(sar.out) + 1 : \A m \in 1 .. Len(Sar!Blocks[k]) :
              \E p \in Sar!Places : Sar!At(p) = Sar!Blocks[k][m]
<1> DEFINE n == Len(sar.out) + 1
<1>1. DOMAIN Sar!Blocks = 1 .. n /\ \A k \in 1 .. n : Sar!Blocks[k] \in Seq(SampleSet)
  <2>1. \A k \in 1 .. n : k \in 1 .. Len(sar.out) \/ k = Len(sar.out) + 1
    BY BlockFacts
  <2> QED
    BY <2>1, BlockFacts
<1>2. \A k \in 1 .. n : DOMAIN Sar!Blocks[k] = 1 .. Len(Sar!Blocks[k])
  BY <1>1
<1> HIDE DEF n
<1>3. ASSUME NEW p \in Sar!Places
      PROVE  \E k \in 1 .. n : \E m \in 1 .. Len(Sar!Blocks[k]) : p[1] = k /\ p[2] = m /\ Sar!At(p) = Sar!Blocks[k][m]
  <2>1. PICK k \in 1 .. n : p \in {k} \X DOMAIN Sar!Blocks[k]
    BY <1>1 DEF Sar!Places
  <2>2. p[1] = k /\ p[2] \in 1 .. Len(Sar!Blocks[k])
    BY <1>2, <2>1
  <2> QED
    BY <2>2 DEF Sar!At
<1>4. ASSUME NEW k \in 1 .. n, NEW m \in 1 .. Len(Sar!Blocks[k])
      PROVE  \E p \in Sar!Places : Sar!At(p) = Sar!Blocks[k][m]
  <2>1. << k, m >> \in {k} \X DOMAIN Sar!Blocks[k]
    BY <1>2
  <2>2. << k, m >> \in Sar!Places
    BY <1>1, <2>1 DEF Sar!Places
  <2>3. Sar!At(<< k, m >>) = Sar!Blocks[k][m]
    BY DEF Sar!At
  <2> QED
    BY <2>2, <2>3
<1> QED
  BY <1>3, <1>4 DEF n

\* Each sample of a report is in one line of it.
LEMMA SarEachSampleOnce ==
  ASSUME SarInv(sar)
  PROVE  Sar!EachSampleOnce
<1> SUFFICES ASSUME sar.pc \in {"raw", "read"}, sar.prinow \in sar.wanted, sar.shown # << >>
             PROVE  /\ \A k \in DOMAIN sar.out : sar.out[k].report = sar.prinow
                    /\ {Sar!At(p) : p \in Sar!Places} =
                         {sar.shown[m] : m \in {l \in 2 .. Len(sar.shown) : ~sar.shown[l].boot}}
                    /\ \A p, q \in Sar!Places :
                          p[1] < q[1] \/ (p[1] = q[1] /\ p[2] < q[2]) => Sar!At(p).time < Sar!At(q).time
                    /\ sar.pc = "raw" /\ sar.totals # << >> => sar.endtime # 0
  BY DEF Sar!EachSampleOnce
<1> DEFINE o == sar.out
           t == sar.totals
           sh == sar.shown
           B == Sar!Blocks
<1>1. /\ o \in Seq(LineSet) /\ t \in Seq(SampleSet) /\ sh \in Seq(SampleSet) /\ RawOK(sar) /\ Active(sar)
  BY DEF SarInv, SarTypes, Active
<1>2. /\ \A k \in 1 .. Len(o) : o[k].report = sar.prinow
      /\ Told(o, t, sh) /\ Sorted(o, t)
      /\ sar.pc = "raw" /\ t # << >> => sar.endtime # 0
  BY <1>1 DEF RawOK, CoverOK
<1>3. DOMAIN o = 1 .. Len(o) /\ Len(o) \in Nat
  BY <1>1
<1>4. /\ \A k \in 1 .. Len(o) : B[k] = o[k].samples
      /\ B[Len(o) + 1] = t
      /\ \A k \in 1 .. Len(o) + 1 : k \in 1 .. Len(o) \/ k = Len(o) + 1
  BY <1>1, BlockFacts
<1>5. /\ \A p \in Sar!Places : \E k \in 1 .. Len(o) + 1 : \E m \in 1 .. Len(B[k]) :
           p[1] = k /\ p[2] = m /\ Sar!At(p) = B[k][m]
      /\ \A k \in 1 .. Len(o) + 1 : \A m \in 1 .. Len(B[k]) : \E p \in Sar!Places : Sar!At(p) = B[k][m]
  BY <1>1, PlaceFacts
<1> HIDE DEF o, t, sh, B
<1>6. ASSUME NEW p \in Sar!Places
      PROVE  \E j \in 2 .. Len(sh) : ~sh[j].boot /\ Sar!At(p) = sh[j]
  <2>1. PICK k \in 1 .. Len(o) + 1 : \E m \in 1 .. Len(B[k]) : p[1] = k /\ p[2] = m /\ Sar!At(p) = B[k][m]
    BY <1>5
  <2>2. PICK m \in 1 .. Len(B[k]) : p[1] = k /\ p[2] = m /\ Sar!At(p) = B[k][m]
    BY <2>1
  <2>3. CASE k \in 1 .. Len(o)
    <3>1. m \in 1 .. Len(o[k].samples) /\ B[k][m] = o[k].samples[m]
      BY <1>4, <2>3
    <3>2. \E j \in 2 .. Len(sh) : Counts(sh, j) /\ o[k].samples[m] = sh[j]
      BY <1>2, <2>3, <3>1 DEF Told
    <3> QED
      BY <2>2, <3>1, <3>2 DEF Counts
  <2>4. CASE k = Len(o) + 1
    <3>1. m \in 1 .. Len(t) /\ B[k][m] = t[m]
      BY <1>4, <2>4
    <3>2. \E j \in 2 .. Len(sh) : Counts(sh, j) /\ t[m] = sh[j]
      BY <1>2, <3>1 DEF Told
    <3> QED
      BY <2>2, <3>1, <3>2 DEF Counts
  <2> QED
    BY <1>4, <2>3, <2>4
<1>7. ASSUME NEW j \in 2 .. Len(sh), ~sh[j].boot
      PROVE  \E p \in Sar!Places : Sar!At(p) = sh[j]
  <2>1. Counts(sh, j)
    BY <1>7 DEF Counts
  <2>2. CASE \E m \in 1 .. Len(t) : t[m] = sh[j]
    <3>1. PICK m \in 1 .. Len(t) : t[m] = sh[j]
      BY <2>2
    <3>2. Len(o) + 1 \in 1 .. Len(o) + 1 /\ m \in 1 .. Len(B[Len(o) + 1]) /\ B[Len(o) + 1][m] = sh[j]
      BY <1>3, <1>4, <3>1
    <3> QED
      BY <1>5, <3>2
  <2>3. CASE \E k \in 1 .. Len(o) : \E m \in 1 .. Len(o[k].samples) : o[k].samples[m] = sh[j]
    <3>1. PICK k \in 1 .. Len(o) : \E m \in 1 .. Len(o[k].samples) : o[k].samples[m] = sh[j]
      BY <2>3
    <3>2. PICK m \in 1 .. Len(o[k].samples) : o[k].samples[m] = sh[j]
      BY <3>1
    <3>3. k \in 1 .. Len(o) + 1 /\ m \in 1 .. Len(B[k]) /\ B[k][m] = sh[j]
      BY <1>3, <1>4, <3>2
    <3> QED
      BY <1>5, <3>3
  <2> QED
    BY <1>2, <2>1, <2>2, <2>3 DEF Told
<1>8. {Sar!At(p) : p \in Sar!Places} = {sh[m] : m \in {l \in 2 .. Len(sh) : ~sh[l].boot}}
  BY <1>6, <1>7
<1>9. ASSUME NEW p \in Sar!Places, NEW q \in Sar!Places, p[1] < q[1] \/ (p[1] = q[1] /\ p[2] < q[2])
      PROVE  Sar!At(p).time < Sar!At(q).time
  <2>1. PICK k \in 1 .. Len(o) + 1 : \E m \in 1 .. Len(B[k]) : p[1] = k /\ p[2] = m /\ Sar!At(p) = B[k][m]
    BY <1>5
  <2>2. PICK m \in 1 .. Len(B[k]) : p[1] = k /\ p[2] = m /\ Sar!At(p) = B[k][m]
    BY <2>1
  <2>3. PICK l \in 1 .. Len(o) + 1 : \E x \in 1 .. Len(B[l]) : q[1] = l /\ q[2] = x /\ Sar!At(q) = B[l][x]
    BY <1>5
  <2>4. PICK x \in 1 .. Len(B[l]) : q[1] = l /\ q[2] = x /\ Sar!At(q) = B[l][x]
    BY <2>3
  <2>5. k < l \/ (k = l /\ m < x)
    BY <1>9, <2>2, <2>4
  <2>6. CASE l \in 1 .. Len(o)
    <3>1. k \in 1 .. Len(o)
      BY <1>3, <2>5, <2>6
    <3>2. B[k] = o[k].samples /\ B[l] = o[l].samples
      BY <1>4, <2>6, <3>1
    <3>3. m \in 1 .. Len(o[k].samples) /\ x \in 1 .. Len(o[l].samples)
      BY <3>2
    <3>4. o[k].samples[m].time < o[l].samples[x].time
      BY <1>2, <2>5, <2>6, <3>1, <3>3 DEF Sorted
    <3> QED
      BY <2>2, <2>4, <3>2, <3>4
  <2>7. CASE l = Len(o) + 1 /\ k \in 1 .. Len(o)
    <3>1. B[k] = o[k].samples /\ B[l] = t
      BY <1>4, <2>7
    <3>2. m \in 1 .. Len(o[k].samples) /\ x \in 1 .. Len(t)
      BY <3>1
    <3>3. o[k].samples[m].time < t[x].time
      BY <1>2, <2>7, <3>2 DEF Sorted
    <3> QED
      BY <2>2, <2>4, <3>1, <3>3
  <2>8. CASE l = Len(o) + 1 /\ k = Len(o) + 1
    <3>1. B[k] = t /\ B[l] = t
      BY <1>4, <2>8
    <3>2. m \in 1 .. Len(t) /\ x \in 1 .. Len(t) /\ m < x
      BY <1>3, <2>5, <2>8, <3>1
    <3>3. t[m].time < t[x].time
      BY <1>2, <3>2 DEF Sorted
    <3> QED
      BY <2>2, <2>4, <3>1, <3>3
  <2> QED
    BY <1>4, <2>6, <2>7, <2>8
<1> QED
  BY <1>2, <1>3, <1>8, <1>9 DEF o, t, sh

LEMMA SarCardinality == \A S : Sar!Cardinality(S) = Cardinality(S)
BY DEF Sar!Cardinality, Cardinality

\* The reports cover their samples.
LEMMA SarCovers ==
  ASSUME Sar!SarAssumption, SarInv(sar)
  PROVE  Sar!ReportsCover
<1>1. /\ SarTypes(sar) /\ LinesOK(sar) /\ sar.out \in Seq(LineSet) /\ sar.sampcnt \in Nat
      /\ DOMAIN sar.out = 1 .. Len(sar.out)
  <2>1. sar.out \in Seq(LineSet)
    BY DEF SarInv, SarTypes
  <2> QED
    BY <2>1, SMTT(30) DEF SarInv, SarTypes
<1>2. Sar!RestartSeparates
  BY <1>1 DEF Sar!RestartSeparates, LinesOK, Within
<1>3. Sar!HeadersOnScreen
  BY DEF Sar!HeadersOnScreen, SarInv, HeadOK, HeadBound, MaxRows
<1>4. Sar!LiveTiles
  <2> SUFFICES ASSUME sar.pc = "live", NEW i \in sar.wanted
               PROVE  /\ Sar!Cardinality(Sar!LinesOf(i)) = Sar!Max({0, sar.sampcnt - 1})
                      /\ \A k, m \in Sar!LinesOf(i) :
                           k < m /\ (\A l \in Sar!LinesOf(i) : l <= k \/ m <= l) => sar.out[m].from = sar.out[k].to
    BY DEF Sar!LiveTiles
  <2>1. Sar!LinesOf(i) = Lines(sar.out, i)
    BY <1>1 DEF Sar!LinesOf, Lines
  <2>2. Tiled(sar.out, i, IF sar.sampcnt = 0 THEN 0 ELSE sar.sampcnt - 1, sar.curtime)
    BY DEF SarInv, LiveOK
  <2>3. Sar!Max({0, sar.sampcnt - 1}) = IF sar.sampcnt = 0 THEN 0 ELSE sar.sampcnt - 1
    <3>1. 0 \in Int /\ sar.sampcnt - 1 \in Int
      BY <1>1
    <3>2. Sar!Max({0, sar.sampcnt - 1}) = IF 0 >= sar.sampcnt - 1 THEN 0 ELSE sar.sampcnt - 1
      BY <3>1, MaxOfTwo
    <3> QED
      BY <1>1, <3>2
  <2> QED
    BY <2>1, <2>2, <2>3, SarCardinality DEF Tiled
<1>5. Sar!ReportsCounted
  BY SarCardinality DEF Sar!ReportsCounted, SarInv, CountOK
<1> QED
  BY <1>2, <1>3, <1>4, <1>5, SarEachSampleOnce DEF Sar!ReportsCover

\* A report covers the samples it was made from, for any log, any flags and
\* any number of units: every sample that rawread hands to a report, but the
\* first one and the restarts, is in exactly one line of it and in the order
\* of the log; no line adds up samples from both sides of a restart, or more
\* than -R asks for; headers stay on the screen; live lines leave no gap; and
\* atopsar gives up when no report is left (atopsar.c: reportraw, reportlive).
THEOREM SarSamplesReported ==
  ASSUME Sar!SarAssumption
  PROVE  SpecReports => []SamplesReported
<1> DEFINE Inv == part = "sar" => SarInv(sar)
<1>1. InitReports => Inv
  BY SarStart DEF InitReports
<1>2. Inv /\ [NextReports]_<<part, sar, vars>> => Inv'
  <2> SUFFICES ASSUME Inv, [NextReports]_<<part, sar, vars>>, part' = "sar" PROVE SarInv(sar')
    OBVIOUS
  <2>1. CASE OfSar(Sar!Next)
    BY <2>1, SarStep DEF OfSar
  <2>2. CASE OfRaw(Next)
    BY <2>2 DEF OfRaw
  <2>3. CASE UNCHANGED <<part, sar, vars>>
    BY <2>3
  <2> QED
    BY <2>1, <2>2, <2>3 DEF NextReports
<1>3. Inv => SamplesReported
  BY SarCovers DEF SamplesReported
<1> HIDE DEF Inv
<1> QED
  BY <1>1, <1>2, <1>3, PTL DEF SpecReports

=============================================================================
