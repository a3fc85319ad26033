------------------------------ MODULE TaskMap ------------------------------
(***************************************************************************)
(* What the task database of atop (procdbase.c) amounts to between two     *)
(* samples: a map from a key, a pid with the process or the thread level,  *)
(* to the start time of the task last recorded under it.  One sample is    *)
(* one step, whatever the order of the lookups and deletions it is made of.*)
(***************************************************************************)
EXTENDS Integers

CONSTANTS Keys, Times

VARIABLE tasks   \* a partial function from Keys to Times

\* A start time may be rounded to the next second.
Near(a, b) == a - b \in -1 .. 1

Init == tasks = << >>

Partial == UNION {[K -> Times] : K \in SUBSET Keys}

\* A task is recorded under a key that has none.
Record(k) == k \notin DOMAIN tasks /\ k \in DOMAIN tasks'

\* The task of a key was seen again; its start time may be a second off.
Keep(k) == k \in DOMAIN tasks /\ k \in DOMAIN tasks' /\ Near(tasks[k], tasks'[k])

Forget(k) == k \notin DOMAIN tasks'

\* In one sample any key changes in one of these ways.  No key goes from one
\* task to another: the old task is forgotten first.
Next ==
  /\ tasks' \in Partial
  /\ \A k \in Keys : Record(k) \/ Keep(k) \/ Forget(k)

Spec == Init /\ [][Next]_tasks
=============================================================================
