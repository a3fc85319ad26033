------------------------------ MODULE MCSamples ------------------------------
(***************************************************************************)
(* The small programs of the repository, each by itself: a behaviour is    *)
(* one of ParentChildren, BalanceLoad, Solver or SelectServer.             *)
(***************************************************************************)
EXTENDS ParentChildren, Integers, FiniteSets
CONSTANTS
  Programs,                       \* the programs looked at
  NumDevice, Lists, CPU, GPU, Inputs, MaxTime, \* BalanceLoad
  Box, Puzzles, ClueCounts,       \* Solver; how many cells are given
  Clients, MaxSent                \* SelectServer
VARIABLES
  prog,
  list_device,
  data, checked, nominee, countCell, countPossibility, step, res, shown, solution, found,
  loc, connectfd, rfds, at, backlog, accepted, peer, sent, echoed, inbuf, late

\* A part of the table of init_config; p960 to p1080 is in neither table, and
\* the last two are transformations that only one kind of device offers.
Trans == {"1080-720", "480-480", "960-1080", "cpu", "gpu"}
MCCPU == [t \in Trans |-> CASE t = "1080-720" -> 90 [] t = "480-480" -> 150
                            [] t = "cpu" -> 100 [] OTHER -> -1]
MCGPU == [t \in Trans |-> CASE t = "1080-720" -> 360 [] t = "480-480" -> 600
                            [] t = "gpu" -> 400 [] OTHER -> -1]
MCInputs == {[trans |-> t, frames |-> 120 * 40] : t \in Trans}

Device(g, r) == [gpu |-> g, remaining_time |-> r]

\* init_device, and the same devices with a GPU in front.
InitDevice == [n \in 0 .. 4 |-> CASE n = 0 -> Device(FALSE, 50)
                 [] n = 1 -> Device(TRUE, 100) [] n = 2 -> Device(TRUE, 50)
                 [] n = 3 -> Device(TRUE, 300) [] n = 4 -> Device(TRUE, 200)]
GpuFirst == [n \in 0 .. 4 |-> InitDevice[4 - n]]
TwoLists == {InitDevice, GpuFirst}

\* The two 4x4 grids that are not the same up to a renaming of digits and an
\* exchange of rows, columns, bands and stacks.
Rows1 == <<<<1, 2, 3, 4>>, <<3, 4, 1, 2>>, <<2, 1, 4, 3>>, <<4, 3, 2, 1>>>>
Rows2 == <<<<1, 2, 3, 4>>, <<3, 4, 1, 2>>, <<2, 3, 4, 1>>, <<4, 1, 2, 3>>>>
GridOf(rows) == [c \in (1 .. 4) \X (1 .. 4) |-> rows[c[1]][c[2]]]
Clues(k) == {S \in SUBSET ((1 .. 4) \X (1 .. 4)) : Cardinality(S) = k}
MCPuzzles == {[solution |-> GridOf(r), given |-> S] :
                r \in {Rows1, Rows2}, S \in UNION {Clues(k) : k \in ClueCounts}}

Balance == INSTANCE BalanceLoad
Sudoku == INSTANCE Solver WITH pc <- step
Server == INSTANCE SelectServer WITH pc <- loc, i <- at

\* The assumptions of the three modules hold of these instances.
ASSUME SampleAssumptions ==
  Balance!BalanceAssumption /\ Sudoku!SolverAssumption /\ Server!SelectAssumption

sudoku == <<data, checked, nominee, countCell, countPossibility, step, res, shown, solution, found>>
server == <<loc, connectfd, rfds, at, backlog, accepted, peer, sent, echoed, inbuf, late>>
all == <<prog, vars, list_device, sudoku, server>>

NoLoad == [n \in 0 .. NumDevice - 1 |-> Device(FALSE, 0)]
NoSudoku ==
  /\ data = 0 /\ checked = 0 /\ nominee = 0 /\ countCell = 0 /\ countPossibility = 0 /\ step = "off"
  /\ res = FALSE /\ shown = 0 /\ solution = 0 /\ found = {}

InitSamples ==
  /\ prog \in Programs
  /\ Init /\ Server!Init
  /\ IF prog = "balance" THEN Balance!Init ELSE list_device = NoLoad
  /\ IF prog = "solver" THEN Sudoku!Init ELSE NoSudoku

\* Steps of one program leave the others where they are.
OfParent(A) == prog = "parent" /\ A /\ UNCHANGED <<prog, list_device, sudoku, server>>
OfBalance(A) == prog = "balance" /\ A /\ UNCHANGED <<prog, vars, sudoku, server>>
OfSolver(A) == prog = "solver" /\ A /\ UNCHANGED <<prog, vars, list_device, server>>
OfServer(A) == prog = "server" /\ A /\ UNCHANGED <<prog, vars, list_device, sudoku>>

\* The parent has ended with all its children; the solver is at exec.
Over ==
  /\ \/ prog = "parent" /\ pc = "done" /\ \A c \in Children : ~Live(c)
     \/ prog = "solver" /\ step = "exec"
  /\ UNCHANGED all

NextSamples == OfParent(Next) \/ OfBalance(Balance!Next) \/ OfSolver(Sudoku!Next) \/ OfServer(Server!Next) \/ Over

\* The fairness of ParentChildren and of SelectServer.
SpecSamples ==
  /\ InitSamples /\ [][NextSamples]_all
  /\ WF_all(OfParent(Parent)) /\ \A c \in Children : WF_all(OfParent(Child(c)))
  /\ WF_all(OfServer(loc \notin Server!Ends /\ Server!Server))

\* SegmentIsFreed of ParentChildren: the shared memory is freed in every run.
ParentFreesSegment == prog = "parent" => SegmentIsFreed

\* EndsEarliest of BalanceLoad: balanceDevices gives a job to the device that
\* ends it first.
EndsEarliest == Balance!EndsEarliest

\* BoardSound of Solver: no method loses the solution of the puzzle.
BoardSound == prog = "solver" => Sudoku!BoardSound

\* NeverHangsAlone of SelectServer: recv never blocks the only thread.
NeverHangsAlone == Server!NeverHangsAlone

\* SoleClientIsServed of SelectServer: a sole client gets every byte back.
SoleClientIsServed == Server!SoleClientIsServed

\* FixedToCandidate of Solver: checkCell fixes a cell to its candidate.
FixedToCandidate == prog = "solver" => Sudoku!FixedToCandidate
=============================================================================
