--------------------------- MODULE ParentChildren ---------------------------
(***************************************************************************)
(* parent/parent.c: a parent forks NumChild children; every child writes   *)
(* its pid into its own slot of a System V shared memory segment and       *)
(* exits; the parent waits for ONE child, sleeps two seconds, prints all   *)
(* the slots and removes the segment.                                      *)
(*                                                                         *)
(* The pid of child c is represented by c + 1; 0 is the value the kernel   *)
(* gives the words of a fresh segment.                                     *)
(***************************************************************************)
EXTENDS Naturals, Sequences

CONSTANT NumChild               \* argv[1][0] - '0'

ASSUME NumChildAssumption == NumChild \in Nat \ {0}

Children == 0 .. NumChild - 1
PidOf(c) == c + 1

VARIABLES
  pc,        \* the parent: "fork", "sleep", "list", "done"
  i,         \* the loop index of the parent
  child,     \* what became of each child
  slot,      \* the shared memory segment
  printed,   \* the pids the parent printed
  removed    \* shmctl(IPC_RMID) has been called

vars == <<pc, i, child, slot, printed, removed>>

ChildStates == {"none", "failed", "started", "written", "zombie", "reaped"}

Live(c) == child[c] \in {"started", "written"}

Init ==
  /\ pc = "fork"
  /\ i = 0
  /\ child = [c \in Children |-> "none"]
  /\ slot = [c \in Children |-> 0]
  /\ printed = << >>
  /\ removed = FALSE

\* Slip: the fork loop written with i <= num_child.
ForkOneTooMany ==
  /\ pc = "fork"
  /\ i <= NumChild
  /\ child' = child
  /\ i' = i + 1
  /\ UNCHANGED <<pc, slot, printed, removed>>

\* One iteration of the fork loop.  fork() = -1 is not 0, so a failed fork
\* takes the parent's branch: the loop goes on and the slot stays empty.
Fork ==
  /\ pc = "fork"
  /\ i < NumChild
  /\ \E s \in {"started", "failed"} : child' = [child EXCEPT ![i] = s]
  /\ i' = i + 1
  /\ UNCHANGED <<pc, slot, printed, removed>>

\* wait(&status): reaps one child that has ended; returns at once if there
\* is no child at all.
Wait ==
  /\ pc = "fork"
  /\ i = NumChild
  /\ \/ \E c \in Children :
          /\ child[c] = "zombie"
          /\ child' = [child EXCEPT ![c] = "reaped"]
     \/ /\ \A c \in Children : child[c] = "failed"
        /\ UNCHANGED child
  /\ pc' = "sleep"
  /\ UNCHANGED <<i, slot, printed, removed>>

\* sleep(2): the children may or may not run meanwhile.
Sleep ==
  /\ pc = "sleep"
  /\ pc' = "list"
  /\ i' = 0
  /\ UNCHANGED <<child, slot, printed, removed>>

PrintSlot ==
  /\ pc = "list"
  /\ i < NumChild
  /\ printed' = Append(printed, slot[i])
  /\ i' = i + 1
  /\ UNCHANGED <<pc, child, slot, removed>>

\* Slip: the segment is detached but never removed.
FinishWithoutRemove ==
  /\ pc = "list"
  /\ i = NumChild
  /\ pc' = "done"
  /\ child' = [c \in Children |->
                 IF child[c] = "zombie" THEN "reaped" ELSE child[c]]
  /\ UNCHANGED <<i, slot, printed, removed>>

\* shmdt, shmctl(IPC_RMID) and return from main; init adopts and reaps what
\* is left.
Finish ==
  /\ pc = "list"
  /\ i = NumChild
  /\ pc' = "done"
  /\ removed' = TRUE
  /\ child' = [c \in Children |->
                 IF child[c] = "zombie" THEN "reaped" ELSE child[c]]
  /\ UNCHANGED <<i, slot, printed>>

\* Slip: the pid is stored in the child's private copy, not in the segment.
WriteSlotPrivately(c) ==
  /\ child[c] = "started"
  /\ child' = [child EXCEPT ![c] = "written"]
  /\ UNCHANGED <<pc, i, slot, printed, removed>>

\* The child: shared_memory[i] = getpid(), then break out of the loop ...
WriteSlot(c) ==
  /\ child[c] = "started"
  /\ slot' = [slot EXCEPT ![c] = PidOf(c)]
  /\ child' = [child EXCEPT ![c] = "written"]
  /\ UNCHANGED <<pc, i, printed, removed>>

\* ... and return 0 from main: a zombie until somebody waits for it.
Exit(c) ==
  /\ child[c] = "written"
  /\ child' = [child EXCEPT ![c] = IF pc = "done" THEN "reaped" ELSE "zombie"]
  /\ UNCHANGED <<pc, i, slot, printed, removed>>

Parent == Fork \/ Wait \/ Sleep \/ PrintSlot \/ Finish
Child(c) == WriteSlot(c) \/ Exit(c)

Next == Parent \/ \E c \in Children : Child(c)

\* The kernel schedules the parent and every child.
Spec ==
  /\ Init
  /\ [][Next]_vars
  /\ WF_vars(Parent)
  /\ \A c \in Children : WF_vars(Child(c))

-----------------------------------------------------------------------------

TypeOK ==
  /\ pc \in {"fork", "sleep", "list", "done"}
  /\ i \in 0 .. NumChild
  /\ child \in [Children -> ChildStates]
  /\ slot \in [Children -> 0 .. NumChild]
  /\ printed \in Seq(0 .. NumChild)
  /\ removed \in BOOLEAN

\* The list printed by main is never all zeros when a child was started:
\* the one wait() ends only after a child has written its slot, and the
\* slots are read after it.
ListShowsAChild ==
  (pc = "done" /\ \E c \in Children : child[c] # "failed")
    => \E k \in 1 .. Len(printed) : printed[k] # 0

\* The inductive strengthening of ListShowsAChild: a child that got past its
\* write has filled its slot, and one such child was reaped by the wait and is
\* not yet passed, or was printed, by the listing loop.
Shown(c) ==
  /\ child[c] = "reaped"
  /\ slot[c] = PidOf(c)
  /\ pc = "list" => (c < i => printed[c + 1] = PidOf(c))
  /\ pc = "done" => printed[c + 1] = PidOf(c)

ListInv ==
  /\ \A c \in Children :
       child[c] \in {"written", "zombie", "reaped"} => slot[c] = PidOf(c)
  /\ pc \in {"fork", "sleep"} => printed = << >>
  /\ pc = "list" => Len(printed) = i
  /\ pc = "done" => Len(printed) = NumChild
  /\ pc # "fork" => \/ \E c \in Children : Shown(c)
                   \/ \A c \in Children : child[c] = "failed"

\* The segment is freed once it has been removed and nobody is attached to
\* it any more: this happens in every run.
SegmentFreed == removed /\ pc = "done" /\ \A c \in Children : ~Live(c)
SegmentIsFreed == <>SegmentFreed

=============================================================================
