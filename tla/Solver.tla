------------------------------- MODULE Solver -------------------------------
(***************************************************************************)
(* Qt/Solver: a Sudoku grid with the candidates of every cell, and the     *)
(* calls that main makes on it: start, checkCell, checkPossible, checkCell *)
(* and then checkPossible or hiddenSingle and checkCell.                   *)
(*                                                                         *)
(* The size of a box, 3 in the code, is the constant Box.  data[c] is the  *)
(* set of the digits whose flag is set; checked[c] is 0 or the digit the   *)
(* cell is fixed to.  A given of UNIT sets both.                           *)
(***************************************************************************)
EXTENDS Integers, FiniteSets, Functions

CONSTANTS
  Box,        \* the side of a mini square
  Puzzles     \* [solution, given]: a full grid and the cells UNIT is called for

N == Box * Box
Digits == 1 .. N
Cells == (1 .. N) \X (1 .. N)
Grid == [Cells -> Digits]

SameRow(c) == {c[1]} \X (1 .. N)
SameColumn(c) == (1 .. N) \X {c[2]}
SameBox(c) == {d \in Cells : /\ (d[1] - 1) \div Box = (c[1] - 1) \div Box
                             /\ (d[2] - 1) \div Box = (c[2] - 1) \div Box}
Seen(c) == SameRow(c) \cup SameColumn(c) \cup SameBox(c)

\* Assumed of the constants: with one cell the first checkCell, which finds
\* nothing in the code, would fix it.
SolverAssumption ==
  /\ Box \in Nat \ {0, 1}
  /\ \A p \in Puzzles :
       /\ p.solution \in Grid /\ p.given \subseteq Cells
       /\ \A c \in Cells : \A d \in Seen(c) \ {c} : p.solution[c] # p.solution[d]

VARIABLES
  data, checked, nominee, countCell, countPossibility,
  pc,         \* the next call of main
  res,        \* what the second checkCell returned
  shown,      \* what currentValue printed last, 0 for a cell that is not fixed
  solution,   \* history: the solution of the puzzle
  found       \* history: the cells checkCell has fixed

vars == <<data, checked, nominee, countCell, countPossibility, pc, res, shown,
          solution, found>>

\* The constructor, followed by setInit.
Init ==
  /\ \E p \in Puzzles :
       /\ solution = p.solution
       /\ data = [c \in Cells |-> IF c \in p.given THEN {p.solution[c]} ELSE {}]
       /\ checked = [c \in Cells |-> IF c \in p.given THEN p.solution[c] ELSE 0]
  /\ nominee = [c \in Cells |-> N]
  /\ countCell = 0 /\ countPossibility = 0
  /\ pc = "start" /\ res = FALSE
  /\ shown = [c \in Cells |-> 0]
  /\ found = {}

Unfixed == {c \in Cells : checked[c] = 0}

start ==
  /\ pc = "start"
  /\ data' = [c \in Cells |-> IF c \in Unfixed THEN Digits ELSE data[c]]
  /\ nominee' = [c \in Cells |-> IF c \in Unfixed THEN nominee[c] ELSE 0]
  /\ countCell' = countCell + Cardinality(Cells \ Unfixed)
  /\ countPossibility' = countPossibility + N * Cardinality(Unfixed)
  /\ pc' = "checkCell1"
  /\ UNCHANGED <<checked, res, shown, solution, found>>

Singles == {c \in Unfixed : nominee[c] = 1}

\* Slip: the index is counted from 1 and 2 is taken off.
FirstCandidateBelow(c) ==
  IF data[c] = {} THEN N
  ELSE (CHOOSE n \in data[c] : \A m \in data[c] : n <= m) - 2

\* The index, counted from 0, of the first candidate; N if there is none.
FirstCandidate(c) ==
  IF data[c] = {} THEN N
  ELSE (CHOOSE n \in data[c] : \A m \in data[c] : n <= m) - 1

\* Slip: countPossibility is left alone.
FixCellsUncounted ==
  /\ checked' = [c \in Cells |-> IF c \in Singles THEN FirstCandidate(c) ELSE checked[c]]
  /\ nominee' = [c \in Cells |-> IF c \in Singles THEN 0 ELSE nominee[c]]
  /\ countCell' = countCell + Cardinality(Singles)
  /\ found' = found \cup Singles
  /\ UNCHANGED <<data, countPossibility, solution>>

\* checkCell: a cell with one candidate is fixed, to the candidate's index.
FixCells ==
  /\ checked' = [c \in Cells |-> IF c \in Singles THEN FirstCandidate(c) ELSE checked[c]]
  /\ nominee' = [c \in Cells |-> IF c \in Singles THEN 0 ELSE nominee[c]]
  /\ countCell' = countCell + Cardinality(Singles)
  /\ countPossibility' = countPossibility - Cardinality(Singles)
  /\ found' = found \cup Singles
  /\ UNCHANGED <<data, solution>>

\* The value checkCell returns is set only if a cell was fixed.
Returns == IF Singles # {} THEN {TRUE} ELSE BOOLEAN

\* Slip: one step down per cell.
KeepOnce(new) ==
  /\ data' = new
  /\ nominee' = [c \in Cells |-> nominee[c] - Cardinality({data[c]} \ {new[c]})]
  /\ countPossibility' =
       countPossibility - SumFunction([c \in Cells |-> Cardinality({data[c]} \ {new[c]})])
  /\ UNCHANGED <<checked, countCell, solution, found>>

\* The candidates become new, a subset of data; nominee and
\* countPossibility go one step down per candidate removed.
Keep(new) ==
  /\ data' = new
  /\ nominee' = [c \in Cells |-> nominee[c] - Cardinality(data[c] \ new[c])]
  /\ countPossibility' =
       countPossibility - SumFunction([c \in Cells |-> Cardinality(data[c] \ new[c])])
  /\ UNCHANGED <<checked, countCell, solution, found>>

\* Slip: val is used as an index.
EliminatedShifted ==
  [c \in Cells |-> IF c \in Unfixed THEN data[c] \ {checked[d] + 1 : d \in Seen(c)}
                   ELSE data[c]]

\* checkPossible: the values of the fixed cells leave the unfixed cells they see.
Eliminated ==
  [c \in Cells |-> IF c \in Unfixed THEN data[c] \ {checked[d] : d \in Seen(c)}
                   ELSE data[c]]

\* One step of the three loops of hiddenSingle: a digit with one place in the
\* column or in the row of the cell takes the cell.
OnlyPlace(g, c, n) ==
  \/ {d \in SameColumn(c) : n \in g[d]} = {c}
  \/ {d \in SameRow(c) : n \in g[d]} = {c}
CellAt(p) == <<(p \div (N * N)) + 1, ((p \div N) % N) + 1>>
DigitAt(p) == (p % N) + 1

\* hiddenSingle: every step sees what the steps before it have removed.
Hidden ==
  LET after[p \in 0 .. N * N * N] ==
        IF p = 0 THEN data
        ELSE LET g == after[p - 1]
                 c == CellAt(p - 1)
                 n == DigitAt(p - 1)
             IN  IF c \in Unfixed /\ n \in g[c] /\ OnlyPlace(g, c, n)
                   THEN [g EXCEPT ![c] = {n}] ELSE g
  IN  after[N * N * N]

checkCell ==
  \/ /\ pc = "checkCell1" /\ FixCells
     /\ pc' = "checkPossible1"
     /\ UNCHANGED <<res, shown>>
  \/ /\ pc = "checkCell2" /\ FixCells
     /\ res' \in Returns
     /\ pc' = IF res' THEN "checkPossible2" ELSE "hiddenSingle"
     /\ UNCHANGED shown
  \/ /\ pc = "checkCell3" /\ FixCells
     /\ pc' = "show2"
     /\ UNCHANGED <<res, shown>>

checkPossible ==
  /\ pc \in {"checkPossible1", "checkPossible2"}
  /\ Keep(Eliminated)
  /\ pc' = IF pc = "checkPossible1" THEN "show1" ELSE "show2"
  /\ UNCHANGED <<res, shown>>

hiddenSingle ==
  /\ pc = "hiddenSingle"
  /\ Keep(Hidden)
  /\ pc' = "checkCell3"
  /\ UNCHANGED <<res, shown>>

\* Slip: cells that are not fixed are printed as well.
currentValueOfAll ==
  /\ pc \in {"show1", "show2"}
  /\ shown' = [c \in Cells |-> IF data[c] = {} THEN 0
                 ELSE CHOOSE n \in data[c] : \A m \in data[c] : n >= m]
  /\ pc' = IF pc = "show1" THEN "checkCell2" ELSE "exec"
  /\ UNCHANGED <<data, checked, nominee, countCell, countPossibility, res,
                 solution, found>>

\* currentValue prints the last candidate of a fixed cell, from data; a fixed
\* cell without one shows what the stack held.
currentValue ==
  /\ pc \in {"show1", "show2"}
  /\ \E u \in {0} \cup Digits :
       shown' = [c \in Cells |->
                   IF c \in Unfixed THEN 0
                   ELSE IF data[c] = {} THEN u
                   ELSE CHOOSE n \in data[c] : \A m \in data[c] : n >= m]
  /\ pc' = IF pc = "show1" THEN "checkCell2" ELSE "exec"
  /\ UNCHANGED <<data, checked, nominee, countCell, countPossibility, res,
                 solution, found>>

Next == start \/ checkCell \/ checkPossible \/ hiddenSingle \/ currentValue
Spec == Init /\ [][Next]_vars

-----------------------------------------------------------------------------

TypeOK ==
  /\ data \in [Cells -> SUBSET Digits]
  /\ checked \in [Cells -> 0 .. N]
  /\ nominee \in [Cells -> -N .. N]
  /\ countCell \in 0 .. N * N
  /\ countPossibility \in -(N * N * N) .. N * N * N
  /\ pc \in {"start", "checkCell1", "checkPossible1", "show1", "checkCell2",
             "checkPossible2", "hiddenSingle", "checkCell3", "show2", "exec"}
  /\ res \in BOOLEAN
  /\ shown \in [Cells -> 0 .. N]
  /\ solution \in Grid
  /\ found \subseteq Cells

\* countPossibility is kept by four methods in step with nominee: it is always
\* the sum of the cells' numbers of possibilities.
CountsAgree == pc # "start" => countPossibility = SumFunction(nominee)

\* nominee is the number of candidates left in every cell that is not fixed,
\* until checkCell fixes one.
NomineeCounts ==
  pc # "start" /\ found = {} =>
    \A c \in Unfixed : nominee[c] = Cardinality(data[c])

\* Eliminating and looking for hidden singles never lose the solution of the
\* puzzle, until checkCell fixes a cell.
SolutionKept ==
  pc # "start" /\ found = {} => \A c \in Cells : solution[c] \in data[c]

\* Every digit that main prints is the digit of the solution, although
\* checkCell fixes cells to the wrong number.
ShownIsSolution == \A c \in Cells : shown[c] \in {0, solution[c]}

\* The board stays sound and what is printed of it is right.
BoardSound == TypeOK /\ CountsAgree /\ NomineeCounts /\ SolutionKept /\ ShownIsSolution

\* "check for sloved cell; and turn it into fixxed cell": a cell that is fixed
\* is fixed to its candidate.
FixedToCandidate ==
  pc # "start" => \A c \in Cells : c \in found => checked[c] \in data[c]
=============================================================================
