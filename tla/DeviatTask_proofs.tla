------------------------- MODULE DeviatTask_proofs -------------------------
(* Proofs about the task database of atop (procdbase.c) and the loops of     *)
(* deviattask (deviate.c), for any processes, reuses of pids, accounting     *)
(* records, sizes of the lists and number of hash queues.                    *)
EXTENDS DeviatTask, Vectors_proofs, FiniteSetTheorems

---------------------------------------------------------------------------
(* The inductive invariant.                                                  *)

Task == [pid : Pids, isproc : BOOLEAN, btime : Times, use : 0 .. MaxUse, name : Names]
Process == [name : Names, use : 0 .. MaxUse, tuse : 0 .. MaxUse, alive : BOOLEAN]
Ended == [pid : Pids \cup {NoPid}, isproc : {TRUE}, btime : Times, name : Names,
          use : 0 .. MaxUse, inc : Incs]
Traffic == [id : Pids, btime : Times, command : Names, net : 0 .. MaxUse, isused : BOOLEAN]
Shown == [pid : Pids \cup {NoPid}, isproc : BOOLEAN, btime : Times, wasinactive : BOOLEAN,
          new : BOOLEAN, use : Nat]
ShownEnded == [pid : Pids \cup {NoPid}, isproc : BOOLEAN, btime : Times, wasinactive : BOOLEAN,
               new : BOOLEAN, use : Nat, net : Int]
Queues == 0 .. NPHASH - 1

KernelInv ==
  /\ acct \in {"off", "v2", "v3"} /\ now \in Times
  /\ DOMAIN kern \subseteq Incs /\ kern \in [DOMAIN kern -> Process]
  /\ exits \in Seq(Ended) /\ netexits \in Seq(Traffic)
  /\ \A i, j \in Alive : i[1] = j[1] => i = j

BaseTypes ==
  /\ phash \in [Queues -> Seq(Task)] /\ presidue \in Seq(Task) /\ pr \in {Anchor} \cup Task
  /\ \A b \in Queues : \A k \in DOMAIN phash[b] : Bucket(phash[b][k].pid) = b

SampleTypes ==
  /\ phase \in {"idle", "photo", "present", "exited", "clean"}
  /\ pretime \in Times /\ c \in Nat \ {0}
  /\ present \in Seq(Task) /\ Len(present) <= MaxTask /\ gone \in Seq(Ended)
  /\ taskall \in Seq(Shown \cup ShownEnded) /\ prev \subseteq Task
  /\ devtstat \in [nprocall : Nat, nprocactive : Nat, ntaskactive : Nat]
  /\ charged \in [Incs -> Nat] /\ missed \subseteq Incs

\* Two entries of the same task, or of a task and a later one with its pid.
SameKey(e, f) == e.pid = f.pid /\ e.isproc = f.isproc
OneEach(s) == \A k, l \in DOMAIN s : SameKey(s[k], s[l]) => k = l
Single(S) == \A e, f \in S : SameKey(e, f) => e = f

\* What pdb_cleanresidue has still to visit.
Ahead(s, e) == {s[j] : j \in {l \in DOMAIN s : \E i \in DOMAIN s : i <= l /\ s[i] = e}}
ToVisit == IF phase = "clean" THEN Ahead(presidue, pr) ELSE ToSet(presidue)

\* A hash queue while a sample is compared with P, the database that it found:
\* a task with the pid of an earlier one is near to it, or it is in front of it;
\* and of two with one pid the one behind is still in V, what is to be visited.
QueueOK(q, P, V) ==
  \A k \in DOMAIN q :
    /\ \A p \in P : SameKey(q[k], p) =>
         Near(q[k].btime, p.btime) \/ \E l \in DOMAIN q : k < l /\ q[l] = p
    /\ \A l \in DOMAIN q : k < l /\ SameKey(q[k], q[l]) => q[l] \in V /\ q[k] # q[l]

\* A task that the first loop has not met yet has the entry that it had.
Unmet ==
  phase = "present" =>
    \A l \in c .. Len(present) : \A e \in prev \cup Stored :
      SameKey(e, present[l]) => e \in ToSet(presidue)

ChainInv ==
  /\ OneEach(present) /\ OneEach(presidue) /\ Single(prev)
  /\ ~Sampling => \A b \in Queues : OneEach(phash[b])
  /\ Sampling => ToSet(presidue) \subseteq prev \cap Stored
  /\ phase = "clean" => pr \in {Anchor} \cup ToSet(presidue)
  /\ Sampling => \A b \in Queues : QueueOK(phash[b], prev, ToVisit)
  /\ Unmet

\* The flags of taskall are those of the tasks met so far, and the counters
\* count them; a thread comes behind its process.
IsProcs == {k \in DOMAIN taskall : taskall[k].isproc}
ActiveProcs == {k \in DOMAIN taskall : taskall[k].isproc /\ ~taskall[k].wasinactive}
ActiveTasks == {k \in DOMAIN taskall : ~taskall[k].wasinactive}
ListInv ==
  /\ present # << >> => present[1].isproc
  /\ phase = "present" => /\ c <= Len(present) + 1 /\ Len(taskall) = c - 1
                          /\ \A k \in DOMAIN taskall : taskall[k].isproc = present[k].isproc
  /\ phase = "exited" => c <= Len(gone) + 1 /\ Len(taskall) = Len(present) + c - 1
  /\ Sampling => /\ devtstat.nprocall = Cardinality(IsProcs)
                 /\ devtstat.nprocactive = Cardinality(ActiveProcs)
                 /\ devtstat.ntaskactive = Cardinality(ActiveTasks)

TaskInv == KernelInv /\ BaseTypes /\ SampleTypes /\ ChainInv /\ ListInv

---------------------------------------------------------------------------
(* Sequences.                                                                *)

LEMMA LeastOf ==
  ASSUME NEW S \in SUBSET Nat, S # {}
  PROVE  Min(S) \in S /\ \A x \in S : Min(S) <= x
BY SmallestElement DEF Min

LEMMA GreatestOf ==
  ASSUME NEW n \in Nat, NEW S \in SUBSET (1 .. n), S # {}
  PROVE  Max(S) \in S /\ \A x \in S : x <= Max(S)
<1> DEFINE R == {n - x : x \in S}
<1>1. R \in SUBSET Nat /\ R # {}
  <2>1. \A x \in S : n - x \in Nat
    OBVIOUS
  <2> QED
    BY <2>1
<1>2. PICK m \in R : \A y \in R : m <= y
  BY <1>1, SmallestElement
<1>3. PICK z \in S : m = n - z
  BY <1>2
<1>4. \A x \in S : x <= z
  <2> SUFFICES ASSUME NEW x \in S PROVE x <= z
    OBVIOUS
  <2>1. n - x \in R /\ n - z <= n - x
    BY <1>2, <1>3
  <2> QED
    BY <2>1
<1> QED
  BY <1>4 DEF Max

\* RemoveAt, a deletion from a list.
LEMMA RemoveAtFacts ==
  ASSUME NEW T, NEW s \in Seq(T), NEW n \in 1 .. Len(s)
  PROVE  /\ RemoveAt(s, n) \in Seq(T) /\ Len(RemoveAt(s, n)) = Len(s) - 1
         /\ \A k \in 1 .. Len(s) - 1 : RemoveAt(s, n)[k] = IF k < n THEN s[k] ELSE s[k + 1]
<1> DEFINE p == SubSeq(s, 1, n - 1)
           q == SubSeq(s, n + 1, Len(s))
<1>1. p \in Seq(T) /\ Len(p) = n - 1 /\ \A k \in 1 .. n - 1 : p[k] = s[k]
  BY SubSeqProperties
<1>2. q \in Seq(T) /\ Len(q) = Len(s) - n /\ \A k \in 1 .. Len(s) - n : q[k] = s[k + n]
  BY SubSeqProperties
<1>3. p \o q \in Seq(T) /\ Len(p \o q) = Len(s) - 1
      /\ \A k \in 1 .. Len(s) - 1 : (p \o q)[k] = IF k < n THEN p[k] ELSE q[k - (n - 1)]
  <2> HIDE DEF p, q
  <2>1. p \o q \in Seq(T) /\ Len(p \o q) = Len(p) + Len(q)
    BY <1>1, <1>2, ConcatProperties
  <2>2. \A k \in 1 .. Len(p) + Len(q) : (p \o q)[k] = IF k <= Len(p) THEN p[k] ELSE q[k - Len(p)]
    BY <1>1, <1>2, ConcatProperties
  <2>3. Len(p) + Len(q) = Len(s) - 1 /\ \A k \in 1 .. Len(s) - 1 : k <= Len(p) <=> k < n
    BY <1>1, <1>2
  <2> QED
    BY <1>1, <2>1, <2>2, <2>3
<1>4. \A k \in 1 .. Len(s) - 1 : k >= n => q[k - (n - 1)] = s[k + 1]
  <2> HIDE DEF p, q
  <2> SUFFICES ASSUME NEW k \in 1 .. Len(s) - 1, k >= n PROVE q[k - (n - 1)] = s[k + 1]
    OBVIOUS
  <2>1. k - (n - 1) \in 1 .. Len(s) - n /\ (k - (n - 1)) + n = k + 1
    OBVIOUS
  <2> QED
    BY <1>2, <2>1
<1> HIDE DEF p, q
<1>5. \A k \in 1 .. Len(s) - 1 : (p \o q)[k] = IF k < n THEN s[k] ELSE s[k + 1]
  <2> SUFFICES ASSUME NEW k \in 1 .. Len(s) - 1
               PROVE  (p \o q)[k] = IF k < n THEN s[k] ELSE s[k + 1]
    OBVIOUS
  <2>1. CASE k < n
    <3>1. k \in 1 .. n - 1
      BY <2>1
    <3> QED
      BY <1>1, <1>3, <2>1, <3>1
  <2>2. CASE ~(k < n)
    <3>1. k >= n
      BY <2>2
    <3> QED
      BY <1>3, <1>4, <2>2, <3>1
  <2> QED
    BY <2>1, <2>2
<1> QED
  BY <1>3, <1>5 DEF RemoveAt, p, q

\* What a deletion leaves, and where it was.
RemovedFrom(s, n, r) ==
  /\ \A k \in DOMAIN s : k < n => k \in DOMAIN r /\ r[k] = s[k]
  /\ \A k \in DOMAIN s : k > n => k - 1 \in DOMAIN r /\ r[k - 1] = s[k]
  /\ \A k, l \in DOMAIN r : k < l =>
       \E i, j \in DOMAIN s \ {n} : i < j /\ r[k] = s[i] /\ r[l] = s[j]
  /\ \A k \in DOMAIN r : \E i \in DOMAIN s \ {n} : r[k] = s[i]

LEMMA RemoveAtPlaces ==
  ASSUME NEW T, NEW s \in Seq(T), NEW n \in 1 .. Len(s)
  PROVE  RemovedFrom(s, n, RemoveAt(s, n))
<1> DEFINE r == RemoveAt(s, n)
<1>1. r \in Seq(T) /\ Len(r) = Len(s) - 1 /\ \A k \in 1 .. Len(s) - 1 : r[k] = IF k < n THEN s[k] ELSE s[k + 1]
  BY RemoveAtFacts
<1> HIDE DEF r
<1>2. DOMAIN r = 1 .. Len(s) - 1 /\ DOMAIN s = 1 .. Len(s) /\ Len(s) \in Nat
  BY <1>1
<1>3. \A k \in DOMAIN s : k < n => k \in DOMAIN r /\ r[k] = s[k]
  BY <1>1, <1>2
<1>4. \A k \in DOMAIN s : k > n => k - 1 \in DOMAIN r /\ r[k - 1] = s[k]
  BY <1>1, <1>2
<1>5. ASSUME NEW k \in DOMAIN r, NEW l \in DOMAIN r, k < l
      PROVE  \E i, j \in DOMAIN s \ {n} : i < j /\ r[k] = s[i] /\ r[l] = s[j]
  <2> DEFINE i == IF k < n THEN k ELSE k + 1
             j == IF l < n THEN l ELSE l + 1
  <2>1. i \in DOMAIN s \ {n} /\ j \in DOMAIN s \ {n} /\ i < j
    BY <1>2, <1>5
  <2>2. r[k] = s[i] /\ r[l] = s[j]
    BY <1>1, <1>2
  <2> QED
    BY <2>1, <2>2
<1>6. ASSUME NEW k \in DOMAIN r PROVE \E i \in DOMAIN s \ {n} : r[k] = s[i]
  <2> DEFINE i == IF k < n THEN k ELSE k + 1
  <2>1. i \in DOMAIN s \ {n} /\ r[k] = s[i]
    BY <1>1, <1>2
  <2> QED
    BY <2>1
<1> QED
  BY <1>3, <1>4, <1>5, <1>6 DEF r, RemovedFrom

\* RemoveFirst unchains an entry that is chained once at most.
LEMMA RemoveFirstFacts ==
  ASSUME NEW s \in Seq(Task), OneEach(s), NEW e
  PROVE  /\ RemoveFirst(s, e) \in Seq(Task) /\ OneEach(RemoveFirst(s, e))
         /\ ToSet(RemoveFirst(s, e)) = ToSet(s) \ {e}
         /\ e \notin ToSet(s) => RemoveFirst(s, e) = s
         /\ \A n \in DOMAIN s : s[n] = e => RemoveFirst(s, e) = RemoveAt(s, n)
<1>0. DOMAIN s = 1 .. Len(s) /\ Len(s) \in Nat
  OBVIOUS
<1>1. CASE e \notin ToSet(s)
  <2>1. RemoveFirst(s, e) = s
    BY <1>0, <1>1 DEF RemoveFirst, ToSet
  <2> QED
    BY <1>1, <2>1 DEF ToSet
<1>2. ASSUME NEW n \in DOMAIN s, s[n] = e
      PROVE  /\ RemoveFirst(s, e) \in Seq(Task) /\ OneEach(RemoveFirst(s, e))
             /\ ToSet(RemoveFirst(s, e)) = ToSet(s) \ {e}
             /\ RemoveFirst(s, e) = RemoveAt(s, n)
  <2> DEFINE I == {i \in 1 .. Len(s) : s[i] = e}
  <2>1. I = {n}
    BY <1>0, <1>2 DEF OneEach, SameKey
  <2>2. SelectInSeq(s, LAMBDA v : v = e) = Min(I)
    BY <2>1 DEF SelectInSeq
  <2>3. Min(I) = n
    <3>1. I \in SUBSET Nat /\ I # {}
      BY <1>0, <2>1
    <3> HIDE DEF I
    <3> QED
      BY <2>1, <3>1, LeastOf
  <2>4. RemoveFirst(s, e) = RemoveAt(s, n)
    BY <1>0, <1>2, <2>2, <2>3 DEF RemoveFirst
  <2> DEFINE r == RemoveAt(s, n)
  <2>5. /\ r \in Seq(Task)
        /\ \A k \in DOMAIN s : k < n => k \in DOMAIN r /\ r[k] = s[k]
        /\ \A k \in DOMAIN s : k > n => k - 1 \in DOMAIN r /\ r[k - 1] = s[k]
        /\ \A k, l \in DOMAIN r : k < l => \E i, j \in DOMAIN s \ {n} : i < j /\ r[k] = s[i] /\ r[l] = s[j]
        /\ \A k \in DOMAIN r : \E i \in DOMAIN s \ {n} : r[k] = s[i]
    <3>1. n \in 1 .. Len(s)
      BY <1>0
    <3>2. r \in Seq(Task)
      BY <3>1, RemoveAtFacts
    <3>3. RemovedFrom(s, n, r)
      BY <3>1, RemoveAtPlaces
    <3> QED
      BY <3>2, <3>3 DEF RemovedFrom
  <2> HIDE DEF r
  <2>6. OneEach(r)
    <3> SUFFICES ASSUME NEW k \in DOMAIN r, NEW l \in DOMAIN r, SameKey(r[k], r[l]), k < l PROVE FALSE
      <4>1. DOMAIN r \subseteq Int
        BY <2>5
      <4> QED
        BY <4>1 DEF OneEach, SameKey
    <3>1. PICK i \in DOMAIN s, j \in DOMAIN s : i < j /\ r[k] = s[i] /\ r[l] = s[j]
      BY <2>5
    <3> QED
      BY <1>0, <3>1 DEF OneEach
  <2>7. ToSet(r) = ToSet(s) \ {e}
    <3>1. ASSUME NEW x \in ToSet(r) PROVE x \in ToSet(s) \ {e}
      <4>1. PICK k \in DOMAIN r : x = r[k]
        BY DEF ToSet
      <4>2. PICK i \in DOMAIN s \ {n} : r[k] = s[i]
        BY <2>5
      <4>3. s[i] # e
        BY <1>0, <2>1, <4>2
      <4> QED
        BY <4>1, <4>2, <4>3 DEF ToSet
    <3>2. ASSUME NEW x \in ToSet(s), x # e PROVE x \in ToSet(r)
      <4>1. PICK k \in DOMAIN s : x = s[k]
        BY DEF ToSet
      <4>2. k < n \/ k > n
        BY <1>0, <1>2, <3>2, <4>1
      <4> QED
        BY <2>5, <4>1, <4>2 DEF ToSet
    <3> QED
      BY <3>1, <3>2
  <2> QED
    BY <2>4, <2>5, <2>6, <2>7 DEF r
<1> QED
  BY <1>1, <1>2 DEF ToSet

\* FlattenSeq: its first n sequences, one behind the other.
Separate(s) ==
  \A i, j \in DOMAIN s : \A k \in DOMAIN s[i], l \in DOMAIN s[j] :
    SameKey(s[i][k], s[j][l]) => i = j /\ k = l

FlatGood(s, n, f) ==
  /\ f \in Seq(Task)
  /\ \A i \in 1 .. n : \A j \in DOMAIN s[i] : \E k \in DOMAIN f : f[k] = s[i][j]
  /\ \A k \in DOMAIN f : \E i \in 1 .. n : \E j \in DOMAIN s[i] :
       f[k] = s[i][j] /\ (j > 1 => k > 1 /\ f[k - 1] = s[i][j - 1])
  /\ Separate(s) => OneEach(f)

FlatStep(s, f, i) == IF i = 1 THEN s[i] ELSE f[i - 1] \o s[i]

LEMMA FlatGrows ==
  ASSUME NEW s \in Seq(Seq(Task)), NEW n \in Nat, n + 1 <= Len(s), NEW f, FlatGood(s, n, f)
  PROVE  FlatGood(s, n + 1, f \o s[n + 1])
<1> DEFINE q == s[n + 1]
           g == f \o q
<1>0. /\ n + 1 \in DOMAIN s /\ q \in Seq(Task) /\ f \in Seq(Task) /\ DOMAIN s = 1 .. Len(s) /\ Len(s) \in Nat
      /\ Len(f) \in Nat /\ Len(q) \in Nat /\ DOMAIN f = 1 .. Len(f) /\ DOMAIN q = 1 .. Len(q)
  BY DEF FlatGood
<1> HIDE DEF q
<1>1. /\ g \in Seq(Task) /\ Len(g) = Len(f) + Len(q)
      /\ \A k \in 1 .. Len(f) + Len(q) : g[k] = IF k <= Len(f) THEN f[k] ELSE q[k - Len(f)]
  BY <1>0, ConcatProperties
<1> HIDE DEF g
<1>2. DOMAIN g = 1 .. Len(f) + Len(q)
  BY <1>0, <1>1
<1>3. \A k \in DOMAIN f : k \in DOMAIN g /\ g[k] = f[k]
  BY <1>0, <1>1, <1>2
<1>4. \A j \in DOMAIN q : Len(f) + j \in DOMAIN g /\ g[Len(f) + j] = q[j]
  <2> SUFFICES ASSUME NEW j \in DOMAIN q PROVE Len(f) + j \in DOMAIN g /\ g[Len(f) + j] = q[j]
    OBVIOUS
  <2>1. Len(f) + j \in DOMAIN g /\ ~(Len(f) + j <= Len(f)) /\ (Len(f) + j) - Len(f) = j
    BY <1>0, <1>2
  <2> QED
    BY <1>1, <1>2, <2>1
<1>5. ASSUME NEW k \in DOMAIN g
      PROVE  (k \in DOMAIN f /\ g[k] = f[k]) \/ (\E j \in DOMAIN q : k = Len(f) + j /\ g[k] = q[j])
  <2>1. CASE k <= Len(f)
    BY <1>0, <1>1, <1>2, <2>1
  <2>2. CASE ~(k <= Len(f))
    <3>1. k - Len(f) \in DOMAIN q /\ k = Len(f) + (k - Len(f))
      BY <1>0, <1>2, <2>2
    <3>2. g[k] = q[k - Len(f)]
      BY <1>1, <1>2, <2>2
    <3> QED
      BY <3>1, <3>2
  <2> QED
    BY <2>1, <2>2
<1>6. ASSUME NEW i \in 1 .. n + 1, NEW j \in DOMAIN s[i] PROVE \E k \in DOMAIN g : g[k] = s[i][j]
  <2>1. CASE i = n + 1
    BY <1>4, <2>1 DEF q
  <2>2. CASE i # n + 1
    <3>1. i \in 1 .. n
      BY <2>2
    <3>2. PICK k \in DOMAIN f : f[k] = s[i][j]
      BY <3>1 DEF FlatGood
    <3> QED
      BY <1>3, <3>2
  <2> QED
    BY <2>1, <2>2
<1>7. ASSUME NEW k \in DOMAIN g
      PROVE  \E i \in 1 .. n + 1 : \E j \in DOMAIN s[i] :
               g[k] = s[i][j] /\ (j > 1 => k > 1 /\ g[k - 1] = s[i][j - 1])
  <2>1. CASE k \in DOMAIN f /\ g[k] = f[k]
    <3>1. PICK i \in 1 .. n : \E j \in DOMAIN s[i] :
            f[k] = s[i][j] /\ (j > 1 => k > 1 /\ f[k - 1] = s[i][j - 1])
      BY <2>1 DEF FlatGood
    <3>2. PICK j \in DOMAIN s[i] : f[k] = s[i][j] /\ (j > 1 => k > 1 /\ f[k - 1] = s[i][j - 1])
      BY <3>1
    <3>3. k > 1 => g[k - 1] = f[k - 1]
      BY <1>0, <1>3, <2>1
    <3>4. i \in 1 .. n + 1
      OBVIOUS
    <3> QED
      BY <2>1, <3>2, <3>3, <3>4
  <2>2. ASSUME NEW j \in DOMAIN q, k = Len(f) + j, g[k] = q[j]
        PROVE  \E i \in 1 .. n + 1 : \E m \in DOMAIN s[i] :
                 g[k] = s[i][m] /\ (m > 1 => k > 1 /\ g[k - 1] = s[i][m - 1])
    <3>1. j > 1 => k > 1 /\ g[k - 1] = q[j - 1]
      <4> SUFFICES ASSUME j > 1 PROVE k > 1 /\ g[k - 1] = q[j - 1]
        OBVIOUS
      <4>1. j - 1 \in DOMAIN q /\ k - 1 = Len(f) + (j - 1) /\ k > 1
        <5>1. j \in 1 .. Len(q) /\ Len(f) \in Nat /\ Len(q) \in Nat
          BY <1>0
        <5>2. j - 1 \in 1 .. Len(q) /\ (Len(f) + j) - 1 = Len(f) + (j - 1) /\ Len(f) + j > 1
          BY <5>1
        <5> QED
          BY <1>0, <2>2, <5>2
      <4>2. g[Len(f) + (j - 1)] = q[j - 1]
        BY <1>4, <4>1
      <4> QED
        BY <4>1, <4>2
    <3>2. n + 1 \in 1 .. n + 1
      OBVIOUS
    <3> QED
      BY <2>2, <3>1, <3>2 DEF q
  <2> QED
    BY <1>5, <2>1, <2>2
<1>8. ASSUME Separate(s) PROVE OneEach(g)
  <2>1. ASSUME NEW k \in DOMAIN f, NEW j \in DOMAIN q, SameKey(f[k], q[j]) \/ SameKey(q[j], f[k]) PROVE FALSE
    <3>1. PICK i \in 1 .. n : \E m \in DOMAIN s[i] : f[k] = s[i][m]
      BY DEF FlatGood
    <3>2. PICK m \in DOMAIN s[i] : f[k] = s[i][m]
      BY <3>1
    <3>3. i \in DOMAIN s /\ i # n + 1
      BY <1>0
    <3>4. SameKey(s[i][m], s[n + 1][j])
      BY <2>1, <3>2 DEF q, SameKey
    <3> QED
      BY <1>0, <1>8, <3>3, <3>4 DEF Separate, q
  <2>2. OneEach(f)
    BY <1>8 DEF FlatGood
  <2>3. ASSUME NEW k \in DOMAIN q, NEW l \in DOMAIN q, SameKey(q[k], q[l]) PROVE k = l
    BY <1>0, <1>8, <2>3 DEF Separate, q
  <2> SUFFICES ASSUME NEW k \in DOMAIN g, NEW l \in DOMAIN g, SameKey(g[k], g[l]) PROVE k = l
    BY DEF OneEach
  <2>4. CASE k \in DOMAIN f /\ g[k] = f[k] /\ l \in DOMAIN f /\ g[l] = f[l]
    BY <2>2, <2>4 DEF OneEach
  <2>5. ASSUME NEW j \in DOMAIN q, k = Len(f) + j, g[k] = q[j] PROVE k = l
    <3>1. CASE l \in DOMAIN f /\ g[l] = f[l]
      BY <2>1, <2>5, <3>1
    <3>2. ASSUME NEW m \in DOMAIN q, l = Len(f) + m, g[l] = q[m] PROVE k = l
      BY <2>3, <2>5, <3>2
    <3> QED
      BY <1>5, <3>1, <3>2
  <2>6. ASSUME k \in DOMAIN f, g[k] = f[k], NEW m \in DOMAIN q, l = Len(f) + m, g[l] = q[m] PROVE k = l
    BY <2>1, <2>6
  <2> QED
    BY <1>5, <2>4, <2>5, <2>6
<1> QED
  BY <1>1, <1>6, <1>7, <1>8 DEF FlatGood, g, q

LEMMA FlatExists ==
  ASSUME NEW s, NEW n \in Nat
  PROVE  \E f : f = [i \in 1 .. n |-> FlatStep(s, f, i)]
<1> DEFINE Solved(m) == \E f : f = [i \in 1 .. m |-> FlatStep(s, f, i)]
           S == {m \in Nat : ~Solved(m)}
<1> SUFFICES ASSUME S # {} PROVE FALSE
  OBVIOUS
<1>1. PICK m \in S : \A x \in S : m <= x
  <2>1. S \in SUBSET Nat
    OBVIOUS
  <2> HIDE DEF S
  <2> QED
    BY <2>1, SmallestElement
<1>2. m \in Nat /\ ~Solved(m)
  OBVIOUS
<1>3. m # 0
  <2> SUFFICES ASSUME m = 0 PROVE FALSE
    OBVIOUS
  <2> DEFINE f == [i \in 1 .. 0 |-> 0]
  <2>1. f = [i \in 1 .. 0 |-> FlatStep(s, f, i)]
    OBVIOUS
  <2> QED
    BY <1>2, <2>1
<1>4. m - 1 \in Nat /\ Solved(m - 1)
  BY <1>1, <1>2, <1>3
<1>5. PICK f : f = [i \in 1 .. m - 1 |-> FlatStep(s, f, i)]
  BY <1>4
<1> DEFINE g == [i \in 1 .. m |-> IF i < m THEN f[i] ELSE FlatStep(s, f, m)]
<1>6. ASSUME NEW i \in 1 .. m PROVE g[i] = FlatStep(s, g, i)
  <2>1. i # 1 => i - 1 \in 1 .. m /\ i - 1 < m /\ g[i - 1] = f[i - 1]
    BY <1>2
  <2>2. FlatStep(s, g, i) = FlatStep(s, f, i)
    <3> HIDE DEF g
    <3> QED
      BY <2>1 DEF FlatStep
  <2>3. CASE i < m
    <3>1. i \in 1 .. m - 1
      BY <1>2, <2>3
    <3>2. f[i] = FlatStep(s, f, i)
      BY <1>5, <3>1
    <3> QED
      BY <2>2, <2>3, <3>2
  <2>4. CASE i = m
    BY <2>2, <2>4
  <2> QED
    BY <1>2, <2>3, <2>4
<1>7. g = [i \in 1 .. m |-> FlatStep(s, g, i)]
  <2>1. g = [i \in 1 .. m |-> g[i]]
    OBVIOUS
  <2> HIDE DEF g
  <2> QED
    BY <1>6, <2>1
<1> QED
  BY <1>2, <1>7

LEMMA FlattenFacts ==
  ASSUME NEW s \in Seq(Seq(Task))
  PROVE  FlatGood(s, Len(s), FlattenSeq(s))
<1>1. CASE Len(s) = 0
  <2>1. FlattenSeq(s) = s /\ s = << >>
    BY <1>1 DEF FlattenSeq
  <2>2. << >> \in Seq(Task) /\ DOMAIN << >> = {}
    OBVIOUS
  <2> QED
    BY <1>1, <2>1, <2>2 DEF FlatGood, OneEach
<1>2. CASE Len(s) # 0
  <2> DEFINE f == CHOOSE h : h = [i \in 1 .. Len(s) |-> FlatStep(s, h, i)]
             S == {n \in 1 .. Len(s) : ~FlatGood(s, n, f[n])}
  <2>1. f = [i \in 1 .. Len(s) |-> FlatStep(s, f, i)]
    <3>1. Len(s) \in Nat
      OBVIOUS
    <3>2. \E h : h = [i \in 1 .. Len(s) |-> FlatStep(s, h, i)]
      BY <3>1, FlatExists
    <3> QED
      BY <3>2
  <2>2. FlattenSeq(s) = f[Len(s)]
    BY <1>2 DEF FlattenSeq, FlatStep
  <2> HIDE DEF f
  <2>3. ASSUME S # {} PROVE FALSE
    <3>1. PICK n \in S : \A x \in S : n <= x
      <4>1. S \in SUBSET Nat
        OBVIOUS
      <4> HIDE DEF S
      <4> QED
        BY <2>3, <4>1, SmallestElement
    <3>2. n \in 1 .. Len(s) /\ ~FlatGood(s, n, f[n]) /\ f[n] = FlatStep(s, f, n)
      BY <2>1
    <3>3. CASE n = 1
      <4>1. f[n] = s[1] /\ s[1] \in Seq(Task) /\ 1 \in DOMAIN s
        BY <3>2, <3>3 DEF FlatStep
      <4>2. FlatGood(s, 1, s[1])
        <5>1. \A k \in DOMAIN s[1] : ~(k > 1) \/ k - 1 \in DOMAIN s[1]
          BY <4>1
        <5>2. Separate(s) => OneEach(s[1])
          BY <4>1 DEF Separate, OneEach
        <5>3. 1 .. 1 = {1}
          OBVIOUS
        <5> QED
          BY <4>1, <5>1, <5>2, <5>3 DEF FlatGood
      <4> QED
        BY <3>2, <3>3, <4>1, <4>2
    <3>4. CASE n # 1
      <4>1. n - 1 \in 1 .. Len(s) /\ n - 1 \in Nat /\ (n - 1) + 1 = n /\ n <= Len(s) /\ n - 1 < n
        BY <3>2, <3>4
      <4>2. n - 1 \notin S
        BY <3>1, <4>1
      <4>3. FlatGood(s, n - 1, f[n - 1])
        BY <4>1, <4>2
      <4>4. f[n] = f[n - 1] \o s[n]
        BY <3>2, <3>4 DEF FlatStep
      <4>5. FlatGood(s, (n - 1) + 1, f[n - 1] \o s[(n - 1) + 1])
        BY <4>1, <4>3, FlatGrows
      <4> QED
        BY <3>2, <4>1, <4>4, <4>5
    <3> QED
      BY <3>3, <3>4
  <2>4. Len(s) \in 1 .. Len(s)
    BY <1>2
  <2> QED
    BY <2>2, <2>3, <2>4
<1> QED
  BY <1>1, <1>2

---------------------------------------------------------------------------
(* photoproc.                                                                *)

\* The entries of a process and of its thread.
ProcEntry(i) == Entry(i, TRUE)
ThreadEntry(i) == Entry(i, FALSE)

LEMMA EntryFacts ==
  ASSUME KernelInv, NEW i \in Alive
  PROVE  /\ i \in Incs /\ i[1] \in Pids /\ i[2] \in Times /\ i = <<i[1], i[2]>>
         /\ ProcEntry(i) \in Task /\ Inc(ProcEntry(i)) = i /\ ProcEntry(i).pid = i[1]
         /\ ProcEntry(i).isproc = TRUE /\ ProcEntry(i).use = kern[i].use
         /\ ThreadEntry(i) \in Task /\ Inc(ThreadEntry(i)) = i /\ ThreadEntry(i).pid = i[1]
         /\ ThreadEntry(i).isproc = FALSE
<1>1. i \in Incs /\ i[1] \in Pids /\ i[2] \in Times /\ i = <<i[1], i[2]>> /\ kern[i] \in Process
  BY DEF KernelInv, Alive, Incs
<1>2. kern[i].use \in 0 .. MaxUse /\ kern[i].tuse \in 0 .. MaxUse /\ kern[i].name \in Names
  BY <1>1 DEF Process
<1>3. ProcEntry(i) = [pid |-> i[1], isproc |-> TRUE, btime |-> i[2], use |-> kern[i].use, name |-> kern[i].name]
  BY DEF ProcEntry, Entry, procstat, procstatus, procio
<1>4. ThreadEntry(i) = [pid |-> i[1], isproc |-> FALSE, btime |-> i[2], use |-> kern[i].tuse, name |-> kern[i].name]
  BY DEF ThreadEntry, Entry, procstat, procstatus, procio
<1>5. ProcEntry(i) \in Task /\ ThreadEntry(i) \in Task
  BY <1>1, <1>2, <1>3, <1>4 DEF Task
<1>6. Inc(ProcEntry(i)) = i /\ Inc(ThreadEntry(i)) = i
  BY <1>1, <1>3, <1>4 DEF Inc
<1> QED
  BY <1>1, <1>3, <1>4, <1>5, <1>6

LEMMA ListedFacts ==
  ASSUME KernelInv, NEW p \in 1 .. PidMax
  PROVE  /\ Listed(p) \in Seq(Task)
         /\ \A k \in DOMAIN Listed(p) :
              \E i \in Alive : /\ i[1] = p
                              /\ \/ k = 1 /\ Listed(p)[k] = ProcEntry(i)
                                 \/ k = 2 /\ Listed(p)[k] = ThreadEntry(i)
         /\ \A i \in Alive : i[1] = p => 1 \in DOMAIN Listed(p) /\ Listed(p)[1] = ProcEntry(i)
<1> DEFINE this == {i \in Alive : i[1] = p}
<1>1. CASE this = {}
  <2>1. Listed(p) = << >>
    BY <1>1 DEF Listed
  <2> QED
    BY <1>1, <2>1
<1>2. CASE this # {}
  <2>1. PICK i : i = (CHOOSE x \in this : TRUE)
    OBVIOUS
  <2>2. i \in Alive /\ i[1] = p
    BY <1>2, <2>1
  <2>3. Listed(p) = Entries(i)
    BY <1>2, <2>1 DEF Listed
  <2>4. ProcEntry(i) \in Task /\ ThreadEntry(i) \in Task
    BY <2>2, EntryFacts
  <2>5. \A j \in Alive : j[1] = p => j = i
    BY <2>2 DEF KernelInv
  <2>6. CASE i[1] \in Threaded
    <3> DEFINE q == <<ProcEntry(i), ThreadEntry(i)>>
    <3>1. Listed(p) = q
      BY <2>3, <2>6 DEF Entries, ProcEntry, ThreadEntry
    <3>2. q \in Seq(Task) /\ DOMAIN q = {1, 2} /\ q[1] = ProcEntry(i) /\ q[2] = ThreadEntry(i)
      BY <2>4
    <3> HIDE DEF q
    <3> QED
      BY <2>2, <2>5, <3>1, <3>2
  <2>7. CASE i[1] \notin Threaded
    <3> DEFINE q == <<ProcEntry(i)>>
    <3>1. Listed(p) = q
      BY <2>3, <2>7 DEF Entries, ProcEntry, ThreadEntry
    <3>2. q \in Seq(Task) /\ DOMAIN q = {1} /\ q[1] = ProcEntry(i)
      BY <2>4
    <3> HIDE DEF q
    <3> QED
      BY <2>2, <2>5, <3>1, <3>2
  <2> QED
    BY <2>6, <2>7
<1> QED
  BY <1>1, <1>2

\* The list of a sample: every task once, a thread behind its process.
LEMMA PhotoFacts ==
  ASSUME KernelInv
  PROVE  /\ photoproc \in Seq(Task) /\ Len(photoproc) <= MaxTask /\ OneEach(photoproc)
         /\ photoproc # << >> => photoproc[1].isproc
         /\ \A k \in DOMAIN photoproc : \E i \in Alive : photoproc[k] \in {ProcEntry(i), ThreadEntry(i)}
         /\ \A k \in DOMAIN photoproc : \E i \in Alive, l \in DOMAIN photoproc :
              Inc(photoproc[k]) = i /\ photoproc[l] = ProcEntry(i)
<1> DEFINE s == [p \in 1 .. PidMax |-> Listed(p)]
           all == FlattenSeq(s)
           m == IF Len(all) < MaxTask THEN Len(all) ELSE MaxTask
<1>0. PidMax \in Nat /\ MaxTask \in Nat
  BY TaskAssumption
<1>1. s \in Seq(Seq(Task)) /\ Len(s) = PidMax /\ DOMAIN s = 1 .. PidMax /\ \A p \in 1 .. PidMax : s[p] = Listed(p)
  <2>1. s \in [1 .. PidMax -> Seq(Task)]
    BY ListedFacts
  <2>2. s \in Seq(Seq(Task)) /\ Len(s) = PidMax
    BY <1>0, <2>1, FunctionIsSeq
  <2> QED
    BY <2>2
<1> HIDE DEF s
<1>2. FlatGood(s, PidMax, all)
  BY <1>1, FlattenFacts
<1>3. Separate(s)
  <2> SUFFICES ASSUME NEW p \in 1 .. PidMax, NEW q \in 1 .. PidMax, NEW k \in DOMAIN s[p], NEW l \in DOMAIN s[q],
                      SameKey(s[p][k], s[q][l])
               PROVE  p = q /\ k = l
    BY <1>1 DEF Separate
  <2>0. s[p] = Listed(p) /\ s[q] = Listed(q)
    BY <1>1
  <2>1. PICK i \in Alive : /\ i[1] = p
                          /\ \/ k = 1 /\ s[p][k] = ProcEntry(i)
                             \/ k = 2 /\ s[p][k] = ThreadEntry(i)
    BY <2>0, ListedFacts
  <2>2. PICK j \in Alive : /\ j[1] = q
                          /\ \/ l = 1 /\ s[q][l] = ProcEntry(j)
                             \/ l = 2 /\ s[q][l] = ThreadEntry(j)
    BY <2>0, ListedFacts
  <2>3. \A x \in Alive : /\ ProcEntry(x).pid = x[1] /\ ThreadEntry(x).pid = x[1]
                         /\ ProcEntry(x).isproc = TRUE /\ ThreadEntry(x).isproc = FALSE
    BY EntryFacts
  <2> QED
    BY <2>1, <2>2, <2>3 DEF SameKey
<1>4. all \in Seq(Task) /\ OneEach(all) /\ Len(all) \in Nat /\ DOMAIN all = 1 .. Len(all)
  BY <1>2, <1>3 DEF FlatGood
<1>5. ASSUME NEW k \in DOMAIN all
      PROVE  \E i \in Alive : all[k] = ProcEntry(i) \/ (k # 1 /\ all[k] = ThreadEntry(i))
  <2>1. PICK p \in 1 .. PidMax : \E j \in DOMAIN s[p] : all[k] = s[p][j] /\ (j > 1 => k > 1)
    BY <1>2 DEF FlatGood
  <2>2. PICK j \in DOMAIN s[p] : all[k] = s[p][j] /\ (j > 1 => k > 1)
    BY <2>1
  <2>3. PICK i \in Alive : /\ i[1] = p
                          /\ \/ j = 1 /\ s[p][j] = ProcEntry(i)
                             \/ j = 2 /\ s[p][j] = ThreadEntry(i)
    BY <1>1, ListedFacts
  <2> QED
    BY <2>2, <2>3
<1>13. ASSUME NEW k \in DOMAIN all
       PROVE  \E i \in Alive, l \in DOMAIN all : l <= k /\ Inc(all[k]) = i /\ all[l] = ProcEntry(i)
  <2>1. PICK p \in 1 .. PidMax : \E j \in DOMAIN s[p] : all[k] = s[p][j] /\ (j > 1 => k > 1 /\ all[k - 1] = s[p][j - 1])
    BY <1>2 DEF FlatGood
  <2>2. PICK j \in DOMAIN s[p] : all[k] = s[p][j] /\ (j > 1 => k > 1 /\ all[k - 1] = s[p][j - 1])
    BY <2>1
  <2>3. PICK i \in Alive : /\ i[1] = p
                          /\ \/ j = 1 /\ s[p][j] = ProcEntry(i)
                             \/ j = 2 /\ s[p][j] = ThreadEntry(i)
    BY <1>1, ListedFacts
  <2>4. Inc(all[k]) = i /\ s[p][1] = ProcEntry(i)
    <3>1. Inc(ProcEntry(i)) = i /\ Inc(ThreadEntry(i)) = i
      BY EntryFacts
    <3>2. Listed(p)[1] = ProcEntry(i)
      BY <2>3, ListedFacts
    <3>3. s[p] = Listed(p)
      BY <1>1
    <3> QED
      BY <2>2, <2>3, <3>1, <3>2, <3>3
  <2>5. CASE j = 1
    BY <1>4, <2>2, <2>4, <2>5
  <2>6. CASE j = 2
    <3>1. k > 1 /\ all[k - 1] = s[p][1]
      BY <2>2, <2>6
    <3>2. k - 1 \in DOMAIN all /\ k - 1 <= k
      BY <1>4, <3>1
    <3> QED
      BY <2>4, <3>1, <3>2
  <2> QED
    BY <2>3, <2>5, <2>6
<1> HIDE DEF all
<1>6. m \in 0 .. Len(all) /\ m <= MaxTask
  BY <1>0, <1>4
<1> DEFINE ph == SubSeq(all, 1, m)
<1>7. ph \in Seq(Task) /\ Len(ph) = m /\ \A k \in 1 .. m : ph[k] = all[k]
  <2> HIDE DEF m
  <2>1. \A k \in 1 .. m : all[k] \in Task
    BY <1>4, <1>6
  <2> QED
    BY <1>4, <1>6, <2>1, SubSeqProperties
<1>8. photoproc = ph
  BY DEF photoproc, all, s
<1> HIDE DEF ph, m
<1>9. DOMAIN ph = 1 .. m /\ 1 .. m \subseteq DOMAIN all /\ m \in Nat
  BY <1>4, <1>6, <1>7
<1>10. OneEach(ph)
  BY <1>4, <1>7, <1>9 DEF OneEach
<1>11. \A k \in DOMAIN ph : \E i \in Alive : ph[k] = ProcEntry(i) \/ (k # 1 /\ ph[k] = ThreadEntry(i))
  BY <1>5, <1>7, <1>9
<1>12. ph # << >> => ph[1].isproc
  <2> SUFFICES ASSUME ph # << >> PROVE ph[1].isproc
    OBVIOUS
  <2>1. 1 \in DOMAIN ph
    BY <1>7, <1>9
  <2>2. PICK i \in Alive : ph[1] = ProcEntry(i)
    BY <1>11, <2>1
  <2> QED
    BY <2>2, EntryFacts
<1>14. ASSUME NEW k \in DOMAIN ph PROVE \E i \in Alive, l \in DOMAIN ph : Inc(ph[k]) = i /\ ph[l] = ProcEntry(i)
  <2>1. PICK i \in Alive, l \in DOMAIN all : l <= k /\ Inc(all[k]) = i /\ all[l] = ProcEntry(i)
    BY <1>9, <1>13
  <2>2. l \in DOMAIN ph
    BY <1>4, <1>9, <2>1
  <2> QED
    BY <1>7, <1>9, <2>1, <2>2
<1> QED
  BY <1>6, <1>7, <1>8, <1>10, <1>11, <1>12, <1>14

---------------------------------------------------------------------------
(* One hash queue.                                                           *)

\* pdb_deltask takes the first entry of a key.
LEMMA QueueRemove ==
  ASSUME NEW q \in Seq(Task), NEW P \in SUBSET Task, Single(P), NEW V \in SUBSET P, QueueOK(q, P, V),
         NEW k \in DOMAIN q, \A l \in DOMAIN q : SameKey(q[l], q[k]) => k <= l,
         NEW W, \A v \in V : ~SameKey(v, q[k]) => v \in W
  PROVE  QueueOK(RemoveAt(q, k), P, W)
<1> DEFINE r == RemoveAt(q, k)
<1>0. DOMAIN q = 1 .. Len(q) /\ Len(q) \in Nat /\ k \in 1 .. Len(q)
  OBVIOUS
<1>1. r \in Seq(Task) /\ Len(r) = Len(q) - 1 /\ \A n \in 1 .. Len(q) - 1 : r[n] = IF n < k THEN q[n] ELSE q[n + 1]
  <2>1. r \in Seq(Task) /\ Len(r) = Len(q) - 1
    BY <1>0, RemoveAtFacts
  <2>2. \A n \in 1 .. Len(q) - 1 : r[n] = IF n < k THEN q[n] ELSE q[n + 1]
    BY <1>0, RemoveAtFacts
  <2> QED
    BY <2>1, <2>2
<1>2. /\ \A n \in DOMAIN q : n < k => n \in DOMAIN r /\ r[n] = q[n]
      /\ \A n \in DOMAIN q : n > k => n - 1 \in DOMAIN r /\ r[n - 1] = q[n]
      /\ \A n, m \in DOMAIN r : n < m =>
           \E i, j \in DOMAIN q \ {k} : i < j /\ r[n] = q[i] /\ r[m] = q[j]
  <2>1. RemovedFrom(q, k, r)
    BY <1>0, RemoveAtPlaces
  <2> QED
    BY <2>1 DEF RemovedFrom
<1> HIDE DEF r
<1>3. DOMAIN r = 1 .. Len(q) - 1
  BY <1>0, <1>1
<1>4. ASSUME NEW n \in DOMAIN r, NEW p \in P, SameKey(r[n], p)
      PROVE  Near(r[n].btime, p.btime) \/ \E m \in DOMAIN r : n < m /\ r[m] = p
  <2> DEFINE i == IF n < k THEN n ELSE n + 1
  <2>1. i \in DOMAIN q /\ i # k /\ r[n] = q[i]
    BY <1>0, <1>1, <1>3
  <2>2. SUFFICES ASSUME NEW l \in DOMAIN q, i < l, q[l] = p
                 PROVE  \E m \in DOMAIN r : n < m /\ r[m] = p
    <3> HIDE DEF i
    <3> QED
      BY <1>4, <2>1 DEF QueueOK
  <2>3. l # k
    <3>1. SUFFICES ASSUME l = k PROVE FALSE
      OBVIOUS
    <3>2. SameKey(q[i], q[k])
      BY <1>4, <2>1, <2>2, <3>1
    <3>3. k <= i
      <4> HIDE DEF i
      <4> QED
        BY <2>1, <3>2
    <3> QED
      BY <1>0, <2>1, <2>2, <3>1, <3>3
  <2> DEFINE m == IF l < k THEN l ELSE l - 1
  <2>4. m \in DOMAIN r /\ r[m] = p
    BY <1>0, <1>2, <2>2, <2>3
  <2>5. n < m
    BY <1>0, <1>3, <2>2, <2>3
  <2> QED
    BY <2>4, <2>5
<1>5. ASSUME NEW n \in DOMAIN r, NEW m \in DOMAIN r, n < m, SameKey(r[n], r[m])
      PROVE  r[m] \in W /\ r[n] # r[m]
  <2>1. PICK i \in DOMAIN q \ {k}, j \in DOMAIN q \ {k} : i < j /\ r[n] = q[i] /\ r[m] = q[j]
    BY <1>2, <1>5
  <2>2. q[j] \in V /\ q[i] # q[j]
    BY <1>5, <2>1 DEF QueueOK
  <2>3. ~SameKey(q[j], q[k])
    <3> SUFFICES ASSUME SameKey(q[j], q[k]) PROVE FALSE
      OBVIOUS
    <3>1. SameKey(q[i], q[k]) /\ SameKey(q[k], q[i]) /\ SameKey(q[i], q[j])
      BY <1>5, <2>1 DEF SameKey
    <3>2. k < i
      BY <1>0, <2>1, <3>1
    <3>3. q[i] \in V
      BY <2>1, <3>1, <3>2 DEF QueueOK
    <3> QED
      BY <2>2, <3>1, <3>3 DEF Single
  <2> QED
    BY <2>1, <2>2, <2>3
<1> QED
  BY <1>4, <1>5 DEF QueueOK, r

\* pdb_addtask: the task of a key whose entry, if there is one, is of another time.
LEMMA QueueAdd ==
  ASSUME NEW q \in Seq(Task), NEW P \in SUBSET Task, NEW V, QueueOK(q, P, V), NEW cur \in Task,
         \A l \in DOMAIN q : SameKey(q[l], cur) => q[l] \in V /\ ~Near(q[l].btime, cur.btime),
         \A p \in P : SameKey(p, cur) => \E l \in DOMAIN q : q[l] = p
  PROVE  QueueOK(<<cur>> \o q, P, V)
<1> DEFINE r == <<cur>> \o q
<1>0. DOMAIN q = 1 .. Len(q) /\ Len(q) \in Nat
  OBVIOUS
<1>1. r \in Seq(Task) /\ Len(r) = Len(q) + 1 /\ r[1] = cur /\ \A n \in 1 .. Len(q) : r[n + 1] = q[n]
  OBVIOUS
<1> HIDE DEF r
<1>2. DOMAIN r = 1 .. Len(q) + 1
  BY <1>0, <1>1
<1>3. \A n \in DOMAIN r : n # 1 => n - 1 \in DOMAIN q /\ r[n] = q[n - 1]
  <2> SUFFICES ASSUME NEW n \in DOMAIN r, n # 1 PROVE n - 1 \in DOMAIN q /\ r[n] = q[n - 1]
    OBVIOUS
  <2>1. n - 1 \in 1 .. Len(q) /\ (n - 1) + 1 = n
    BY <1>0, <1>2
  <2> QED
    BY <1>0, <1>1, <2>1
<1>4. \A n \in DOMAIN q : n + 1 \in DOMAIN r /\ r[n + 1] = q[n] /\ 1 < n + 1
  BY <1>0, <1>1, <1>2
<1>5. ASSUME NEW n \in DOMAIN r, NEW p \in P, SameKey(r[n], p)
      PROVE  Near(r[n].btime, p.btime) \/ \E m \in DOMAIN r : n < m /\ r[m] = p
  <2>1. CASE n = 1
    <3>1. SameKey(p, cur)
      BY <1>1, <1>5, <2>1 DEF SameKey
    <3>2. PICK l \in DOMAIN q : q[l] = p
      BY <3>1
    <3> QED
      BY <1>4, <2>1, <3>2
  <2>2. CASE n # 1
    <3>1. n - 1 \in DOMAIN q /\ r[n] = q[n - 1]
      BY <1>3, <2>2
    <3>2. SUFFICES ASSUME NEW l \in DOMAIN q, n - 1 < l, q[l] = p
                   PROVE  \E m \in DOMAIN r : n < m /\ r[m] = p
      BY <1>5, <3>1 DEF QueueOK
    <3>3. n < l + 1
      BY <1>0, <1>2, <3>2
    <3> QED
      BY <1>4, <3>2, <3>3
  <2> QED
    BY <2>1, <2>2
<1>6. ASSUME NEW n \in DOMAIN r, NEW m \in DOMAIN r, n < m, SameKey(r[n], r[m])
      PROVE  r[m] \in V /\ r[n] # r[m]
  <2>0. m # 1 /\ n \in Int /\ m \in Int
    BY <1>0, <1>2, <1>6
  <2>1. m - 1 \in DOMAIN q /\ r[m] = q[m - 1]
    BY <1>3, <2>0
  <2>2. CASE n = 1
    <3>1. SameKey(q[m - 1], cur)
      BY <1>1, <1>6, <2>1, <2>2 DEF SameKey
    <3>2. q[m - 1] \in V /\ ~Near(q[m - 1].btime, cur.btime)
      BY <2>1, <3>1
    <3>3. Near(cur.btime, cur.btime)
      <4>1. cur.btime \in Int
        BY DEF Task, Times
      <4> QED
        BY <4>1 DEF Near
    <3> QED
      BY <1>1, <2>1, <2>2, <3>2, <3>3
  <2>3. CASE n # 1
    <3>1. n - 1 \in DOMAIN q /\ r[n] = q[n - 1] /\ n - 1 < m - 1
      BY <1>3, <1>6, <2>0, <2>3
    <3> QED
      BY <1>6, <2>1, <3>1 DEF QueueOK
  <2> QED
    BY <2>2, <2>3
<1> QED
  BY <1>5, <1>6 DEF QueueOK, r

LEMMA NearSymmetric ==
  ASSUME NEW x \in Int, NEW y \in Int, Near(x, y)
  PROVE  Near(y, x)
BY DEF Near

\* A task that is seen again takes the place of its entry.
LEMMA QueueRefresh ==
  ASSUME NEW q \in Seq(Task), NEW P \in SUBSET Task, Single(P), NEW V, QueueOK(q, P, V), NEW cur \in Task,
         NEW k \in DOMAIN q, SameKey(q[k], cur), q[k] \in P, Near(q[k].btime, cur.btime),
         \A l \in DOMAIN q : SameKey(q[l], cur) => l = k,
         NEW W, \A v \in V : v # q[k] => v \in W
  PROVE  QueueOK([q EXCEPT ![k] = cur], P, W)
<1> DEFINE r == [q EXCEPT ![k] = cur]
<1>1. DOMAIN r = DOMAIN q /\ r[k] = cur /\ \A n \in DOMAIN q : n # k => r[n] = q[n]
  OBVIOUS
<1> HIDE DEF r
<1>2. ASSUME NEW n \in DOMAIN r, NEW p \in P, SameKey(r[n], p)
      PROVE  Near(r[n].btime, p.btime) \/ \E m \in DOMAIN r : n < m /\ r[m] = p
  <2>1. CASE n = k
    <3>1. SameKey(q[k], p)
      BY <1>1, <1>2, <2>1 DEF SameKey
    <3>2. p = q[k]
      BY <3>1 DEF Single
    <3>3. cur.btime \in Int /\ q[k].btime \in Int
      BY DEF Task, Times
    <3> QED
      BY <1>1, <2>1, <3>2, <3>3, NearSymmetric
  <2>2. CASE n # k
    <3>1. r[n] = q[n] /\ n \in DOMAIN q
      BY <1>1, <2>2
    <3>2. SUFFICES ASSUME NEW l \in DOMAIN q, n < l, q[l] = p
                   PROVE  \E m \in DOMAIN r : n < m /\ r[m] = p
      BY <1>2, <3>1 DEF QueueOK
    <3>3. l # k
      <4> SUFFICES ASSUME l = k PROVE FALSE
        OBVIOUS
      <4>1. SameKey(q[n], cur)
        BY <1>2, <3>1, <3>2 DEF SameKey
      <4> QED
        BY <2>2, <3>1, <4>1
    <3> QED
      BY <1>1, <3>2, <3>3
  <2> QED
    BY <2>1, <2>2
<1>3. ASSUME NEW n \in DOMAIN r, NEW m \in DOMAIN r, n < m, SameKey(r[n], r[m])
      PROVE  r[m] \in W /\ r[n] # r[m]
  <2>0. n \in Int /\ m \in Int
    BY <1>1
  <2>1. n # k
    <3> SUFFICES ASSUME n = k PROVE FALSE
      OBVIOUS
    <3>1. m # k /\ r[m] = q[m]
      BY <1>1, <1>3, <2>0
    <3>2. SameKey(q[m], cur)
      BY <1>1, <1>3, <3>1 DEF SameKey
    <3> QED
      BY <1>1, <3>1, <3>2
  <2>2. m # k
    <3> SUFFICES ASSUME m = k PROVE FALSE
      OBVIOUS
    <3>1. SameKey(q[n], cur)
      BY <1>1, <1>3, <2>1 DEF SameKey
    <3> QED
      BY <1>1, <2>1, <3>1
  <2>3. q[m] \in V /\ q[n] # q[m]
    BY <1>1, <1>3, <2>1, <2>2 DEF QueueOK
  <2>4. q[m] # q[k]
    BY <1>1, <2>2
  <2> QED
    BY <1>1, <2>1, <2>2, <2>3, <2>4
<1> QED
  BY <1>2, <1>3 DEF QueueOK, r

---------------------------------------------------------------------------
(* The task database.                                                        *)

LEMMA BucketType ==
  ASSUME NEW x \in Nat
  PROVE  Bucket(x) \in Queues
<1>1. NPHASH \in Nat \ {0}
  BY TaskAssumption
<1>2. x % NPHASH \in 0 .. NPHASH - 1
  BY <1>1
<1> QED
  BY <1>2 DEF Bucket, Queues

StoredIn(h) == UNION {ToSet(h[b]) : b \in DOMAIN h}

LEMMA StoredAt ==
  ASSUME NEW h \in [Queues -> Seq(Task)], NEW e
  PROVE  e \in StoredIn(h) <=> \E b \in Queues : \E k \in DOMAIN h[b] : e = h[b][k]
BY DEF StoredIn, ToSet

LEMMA TaskFields ==
  ASSUME NEW e \in Task
  PROVE  /\ e.pid \in Pids /\ e.pid \in Nat /\ e.pid # NoPid /\ e.isproc \in BOOLEAN /\ e.btime \in Times
         /\ e.btime \in Int /\ e.use \in 0 .. MaxUse /\ e.name \in Names /\ e # Anchor
<1>1. e.pid \in Pids /\ e.isproc \in BOOLEAN /\ e.btime \in Times /\ e.use \in 0 .. MaxUse /\ e.name \in Names
  BY DEF Task
<1>2. e.pid \in Nat /\ e.pid # NoPid
  <2>1. PidMax \in Nat /\ Pids \subseteq 1 .. PidMax
    BY TaskAssumption
  <2>2. \A x \in Pids : x \in Nat /\ x # 0
    BY <2>1
  <2> QED
    BY <1>1, <2>2 DEF NoPid
<1>3. e.btime \in Int
  BY <1>1 DEF Times
<1>4. e # Anchor
  BY <1>2 DEF Anchor
<1> QED
  BY <1>1, <1>2, <1>3, <1>4

\* An entry is in the queue of its pid.
LEMMA StoredPlace ==
  ASSUME BaseTypes, NEW e \in Stored
  PROVE  /\ e \in Task /\ Bucket(e.pid) \in Queues
         /\ \E k \in DOMAIN phash[Bucket(e.pid)] : phash[Bucket(e.pid)][k] = e
<1>0. Stored = StoredIn(phash)
  BY DEF Stored, StoredIn
<1>1. PICK b \in Queues : \E k \in DOMAIN phash[b] : e = phash[b][k]
  BY <1>0, StoredAt DEF BaseTypes
<1>2. PICK k \in DOMAIN phash[b] : e = phash[b][k]
  BY <1>1
<1>3. e \in Task /\ Bucket(e.pid) = b
  BY <1>2 DEF BaseTypes
<1> QED
  BY <1>2, <1>3

LEMMA PlaceStored ==
  ASSUME BaseTypes, NEW b \in Queues, NEW k \in DOMAIN phash[b]
  PROVE  phash[b][k] \in Stored /\ phash[b][k] \in Task /\ Bucket(phash[b][k].pid) = b
<1>0. Stored = StoredIn(phash)
  BY DEF Stored, StoredIn
<1>1. phash[b][k] \in Stored
  BY <1>0, StoredAt DEF BaseTypes
<1> QED
  BY <1>1 DEF BaseTypes

\* pdb_gettask finds the first entry of the key with a near start time.
LEMMA GettaskFacts ==
  ASSUME BaseTypes, NEW x \in Pids, NEW b, NEW t
  PROVE  /\ Bucket(x) \in Queues
         /\ pdb_gettask(x, b, t) = 0 =>
              \A l \in DOMAIN phash[Bucket(x)] :
                ~(phash[Bucket(x)][l].pid = x /\ phash[Bucket(x)][l].isproc = b /\ Near(phash[Bucket(x)][l].btime, t))
         /\ pdb_gettask(x, b, t) # 0 =>
              LET k == pdb_gettask(x, b, t) IN
              /\ k \in DOMAIN phash[Bucket(x)] /\ phash[Bucket(x)][k].pid = x /\ phash[Bucket(x)][k].isproc = b
              /\ Near(phash[Bucket(x)][k].btime, t)
<1>0. x \in Nat
  BY TaskAssumption
<1>1. Bucket(x) \in Queues
  BY <1>0, BucketType
<1> DEFINE q == phash[Bucket(x)]
           I == {l \in 1 .. Len(q) : q[l].pid = x /\ q[l].isproc = b /\ Near(q[l].btime, t)}
<1>2. q \in Seq(Task) /\ DOMAIN q = 1 .. Len(q) /\ Len(q) \in Nat
  BY <1>1 DEF BaseTypes
<1>3. pdb_gettask(x, b, t) = IF I # {} THEN Min(I) ELSE 0
  BY DEF pdb_gettask, SelectInSeq
<1>4. I \in SUBSET Nat /\ \A l \in I : l # 0
  BY <1>2
<1>5. CASE I = {}
  <2>1. pdb_gettask(x, b, t) = 0
    BY <1>3, <1>5
  <2>2. \A l \in DOMAIN q : ~(q[l].pid = x /\ q[l].isproc = b /\ Near(q[l].btime, t))
    BY <1>2, <1>5
  <2> QED
    BY <1>1, <2>1, <2>2
<1>6. CASE I # {}
  <2>1. pdb_gettask(x, b, t) = Min(I)
    BY <1>3, <1>6
  <2>2. Min(I) \in I
    <3> HIDE DEF I
    <3> QED
      BY <1>4, <1>6, LeastOf
  <2>3. PICK k \in I : k = pdb_gettask(x, b, t)
    BY <2>1, <2>2
  <2>4. k \in DOMAIN q /\ q[k].pid = x /\ q[k].isproc = b /\ Near(q[k].btime, t) /\ k # 0
    BY <1>2, <1>4
  <2> QED
    BY <1>1, <2>3, <2>4
<1> QED
  BY <1>5, <1>6

\* pdb_deltask finds the first entry of the key.
LEMMA DoomedFacts ==
  ASSUME BaseTypes, NEW e \in Stored
  PROVE  LET q == phash[Bucket(e.pid)]
             k == Doomed(e.pid, e.isproc)
         IN /\ Bucket(e.pid) \in Queues /\ q \in Seq(Task) /\ k \in DOMAIN q /\ SameKey(q[k], e)
            /\ \A l \in DOMAIN q : SameKey(q[l], e) => k <= l
<1> DEFINE q == phash[Bucket(e.pid)]
           I == {l \in 1 .. Len(q) : q[l].pid = e.pid /\ q[l].isproc = e.isproc}
<1>1. /\ e \in Task /\ Bucket(e.pid) \in Queues
      /\ \E k \in DOMAIN q : q[k] = e
  BY StoredPlace
<1>2. q \in Seq(Task) /\ DOMAIN q = 1 .. Len(q) /\ Len(q) \in Nat
  BY <1>1 DEF BaseTypes
<1>3. I # {} /\ I \in SUBSET Nat
  BY <1>1, <1>2
<1>4. Doomed(e.pid, e.isproc) = Min(I)
  BY <1>3 DEF Doomed, SelectInSeq
<1>5. Min(I) \in I /\ \A x \in I : Min(I) <= x
  <2> HIDE DEF I
  <2> QED
    BY <1>3, LeastOf
<1>6. PICK k \in I : k = Doomed(e.pid, e.isproc) /\ \A x \in I : k <= x
  BY <1>4, <1>5
<1>7. k \in DOMAIN q /\ SameKey(q[k], e)
  BY <1>2 DEF SameKey
<1>8. \A l \in DOMAIN q : SameKey(q[l], e) => k <= l
  BY <1>2, <1>6 DEF SameKey
<1> QED
  BY <1>1, <1>2, <1>6, <1>7, <1>8

\* pdb_makeresidue chains every entry once.
LEMMA ResidueFacts ==
  ASSUME BaseTypes, \A b \in Queues : OneEach(phash[b])
  PROVE  /\ pdb_makeresidue \in Seq(Task) /\ OneEach(pdb_makeresidue) /\ ToSet(pdb_makeresidue) = Stored
<1> DEFINE s == [b \in 1 .. NPHASH |-> phash[b - 1]]
           f == FlattenSeq(s)
           r == Reverse(f)
<1>0. NPHASH \in Nat /\ \A b \in 1 .. NPHASH : b - 1 \in Queues
  BY TaskAssumption DEF Queues
<1>1. s \in Seq(Seq(Task)) /\ Len(s) = NPHASH /\ DOMAIN s = 1 .. NPHASH /\ \A b \in 1 .. NPHASH : s[b] = phash[b - 1]
  <2>1. s \in [1 .. NPHASH -> Seq(Task)]
    BY <1>0 DEF BaseTypes
  <2>2. s \in Seq(Seq(Task)) /\ Len(s) = NPHASH
    BY <1>0, <2>1, FunctionIsSeq
  <2> QED
    BY <2>2
<1>2. \A b \in Queues : b + 1 \in 1 .. NPHASH /\ s[b + 1] = phash[b]
  <2> SUFFICES ASSUME NEW b \in Queues PROVE b + 1 \in 1 .. NPHASH /\ s[b + 1] = phash[b]
    OBVIOUS
  <2>1. b + 1 \in 1 .. NPHASH /\ (b + 1) - 1 = b
    BY <1>0 DEF Queues
  <2> QED
    BY <1>1, <2>1
<1> HIDE DEF s
<1>3. FlatGood(s, NPHASH, f)
  BY <1>1, FlattenFacts
<1>4. Separate(s)
  <2> SUFFICES ASSUME NEW i \in 1 .. NPHASH, NEW j \in 1 .. NPHASH, NEW k \in DOMAIN s[i], NEW l \in DOMAIN s[j],
                      SameKey(s[i][k], s[j][l])
               PROVE  i = j /\ k = l
    BY <1>1 DEF Separate
  <2>0. s[i] = phash[i - 1] /\ s[j] = phash[j - 1] /\ i - 1 \in Queues /\ j - 1 \in Queues
    BY <1>0, <1>1
  <2>1. Bucket(s[i][k].pid) = i - 1 /\ Bucket(s[j][l].pid) = j - 1
    BY <2>0, PlaceStored
  <2>2. i - 1 = j - 1
    BY <2>1 DEF SameKey
  <2>3. i = j
    BY <1>0, <2>2
  <2>4. OneEach(s[i])
    BY <2>0
  <2> QED
    BY <2>3, <2>4 DEF OneEach
<1>5. f \in Seq(Task) /\ OneEach(f) /\ DOMAIN f = 1 .. Len(f) /\ Len(f) \in Nat
  BY <1>3, <1>4 DEF FlatGood
<1>6. ToSet(f) = Stored
  <2>1. ASSUME NEW e \in Stored PROVE e \in ToSet(f)
    <3>1. /\ Bucket(e.pid) \in Queues
          /\ \E k \in DOMAIN phash[Bucket(e.pid)] : phash[Bucket(e.pid)][k] = e
      BY StoredPlace
    <3>2. PICK b \in Queues : \E k \in DOMAIN phash[b] : phash[b][k] = e
      BY <3>1
    <3>3. PICK k \in DOMAIN phash[b] : phash[b][k] = e
      BY <3>2
    <3>4. b + 1 \in 1 .. NPHASH /\ k \in DOMAIN s[b + 1] /\ s[b + 1][k] = e
      BY <1>2, <3>3
    <3>5. \E n \in DOMAIN f : f[n] = s[b + 1][k]
      BY <1>3, <3>4 DEF FlatGood
    <3> QED
      BY <3>4, <3>5 DEF ToSet
  <2>2. ASSUME NEW n \in DOMAIN f PROVE f[n] \in Stored
    <3>1. PICK i \in 1 .. NPHASH : \E j \in DOMAIN s[i] : f[n] = s[i][j]
      BY <1>3 DEF FlatGood
    <3>2. PICK j \in DOMAIN s[i] : f[n] = s[i][j]
      BY <3>1
    <3>3. s[i] = phash[i - 1] /\ i - 1 \in Queues
      BY <1>0, <1>1
    <3> QED
      BY <3>2, <3>3, PlaceStored
  <2> QED
    BY <2>1, <2>2 DEF ToSet
<1>7. r \in [1 .. Len(f) -> Task] /\ \A n \in 1 .. Len(f) : r[n] = f[(Len(f) - n) + 1]
  <2> HIDE DEF f
  <2>1. \A n \in 1 .. Len(f) : (Len(f) - n) + 1 \in DOMAIN f
    BY <1>5
  <2> QED
    BY <1>5, <2>1 DEF Reverse
<1>8. r \in Seq(Task) /\ DOMAIN r = 1 .. Len(f)
  BY <1>5, <1>7, FunctionIsSeq
<1>9. pdb_makeresidue = r
  BY DEF pdb_makeresidue, s
<1> HIDE DEF r, f
<1>10. OneEach(r)
  <2> SUFFICES ASSUME NEW k \in 1 .. Len(f), NEW l \in 1 .. Len(f), SameKey(r[k], r[l]) PROVE k = l
    BY <1>8 DEF OneEach
  <2> DEFINE i == (Len(f) - k) + 1
             j == (Len(f) - l) + 1
  <2>1. i \in DOMAIN f /\ j \in DOMAIN f /\ r[k] = f[i] /\ r[l] = f[j]
    BY <1>5, <1>7
  <2>2. i = j
    <3> HIDE DEF i, j
    <3> QED
      BY <1>5, <2>1 DEF OneEach
  <2> QED
    BY <1>5, <2>2
<1>11. ToSet(r) = ToSet(f)
  <2>1. ASSUME NEW n \in DOMAIN r PROVE r[n] \in ToSet(f)
    <3>1. (Len(f) - n) + 1 \in DOMAIN f /\ r[n] = f[(Len(f) - n) + 1]
      BY <1>5, <1>7, <1>8
    <3> QED
      BY <3>1 DEF ToSet
  <2>2. ASSUME NEW n \in DOMAIN f PROVE f[n] \in ToSet(r)
    <3> DEFINE m == (Len(f) - n) + 1
    <3>1. m \in 1 .. Len(f) /\ (Len(f) - m) + 1 = n
      BY <1>5
    <3>2. m \in DOMAIN r /\ r[m] = f[(Len(f) - m) + 1]
      <4> HIDE DEF m
      <4> QED
        BY <1>7, <1>8, <3>1
    <3> HIDE DEF m
    <3> QED
      BY <3>1, <3>2 DEF ToSet
  <2> QED
    BY <2>1, <2>2 DEF ToSet
<1> QED
  BY <1>6, <1>8, <1>9, <1>10, <1>11

\* What pdb_deltask frees when it is called for e.
Victim(e) == phash[Bucket(e.pid)][Doomed(e.pid, e.isproc)]

LEMMA DeleteFacts ==
  ASSUME BaseTypes, NEW e \in Stored, NEW chain \in Seq(Task), OneEach(chain),
         pdb_deltask(e.pid, e.isproc, chain)
  PROVE  /\ Victim(e) \in Stored /\ SameKey(Victim(e), e)
         /\ phash' \in [Queues -> Seq(Task)]
         /\ \A b \in Queues : \A k \in DOMAIN phash'[b] : Bucket(phash'[b][k].pid) = b
         /\ \A b \in Queues : b # Bucket(e.pid) => phash'[b] = phash[b]
         /\ phash'[Bucket(e.pid)] = RemoveAt(phash[Bucket(e.pid)], Doomed(e.pid, e.isproc))
         /\ Stored' \subseteq Stored /\ \A f \in Stored : f # Victim(e) => f \in Stored'
         /\ presidue' \in Seq(Task) /\ OneEach(presidue') /\ ToSet(presidue') = ToSet(chain) \ {Victim(e)}
<1>1. PICK b \in Queues : b = Bucket(e.pid)
  BY StoredPlace
<1>2. PICK k : k = Doomed(e.pid, e.isproc)
  OBVIOUS
<1> DEFINE q == phash[b]
           r == RemoveAt(q, k)
<1>3. q \in Seq(Task) /\ k \in DOMAIN q /\ SameKey(q[k], e)
  BY <1>1, <1>2, DoomedFacts
<1>4. phash' = [phash EXCEPT ![b] = r] /\ presidue' = RemoveFirst(chain, q[k])
  BY <1>1, <1>2 DEF pdb_deltask
<1>5. Victim(e) = q[k] /\ q[k] \in Stored
  BY <1>1, <1>2, <1>3, PlaceStored DEF Victim
<1>6. r \in Seq(Task)
  <2>1. k \in 1 .. Len(q)
    BY <1>3
  <2> HIDE DEF q
  <2> QED
    BY <1>3, <2>1, RemoveAtFacts
<1>7. RemovedFrom(q, k, r)
  <2>1. k \in 1 .. Len(q)
    BY <1>3
  <2> HIDE DEF q
  <2> QED
    BY <1>3, <2>1, RemoveAtPlaces
<1> HIDE DEF r
<1>8. phash \in [Queues -> Seq(Task)]
  BY DEF BaseTypes
<1>9. phash' \in [Queues -> Seq(Task)] /\ phash'[b] = r /\ \A a \in Queues : a # b => phash'[a] = phash[a]
  BY <1>4, <1>6, <1>8
<1>10. \A a \in Queues : \A n \in DOMAIN phash'[a] : \E m \in DOMAIN phash[a] : phash'[a][n] = phash[a][m]
  BY <1>7, <1>9 DEF RemovedFrom
<1>11. \A a \in Queues : \A n \in DOMAIN phash'[a] : Bucket(phash'[a][n].pid) = a
  BY <1>10 DEF BaseTypes
<1>12. Stored = StoredIn(phash) /\ Stored' = StoredIn(phash')
  BY DEF Stored, StoredIn
<1>13. Stored' \subseteq Stored
  <2> SUFFICES ASSUME NEW f \in StoredIn(phash') PROVE f \in Stored
    BY <1>12
  <2>1. PICK a \in Queues : \E n \in DOMAIN phash'[a] : f = phash'[a][n]
    BY <1>9, StoredAt
  <2>2. PICK n \in DOMAIN phash'[a] : f = phash'[a][n]
    BY <2>1
  <2>3. PICK m \in DOMAIN phash[a] : f = phash[a][m]
    BY <1>10, <2>2
  <2> QED
    BY <2>3, PlaceStored
<1>14. ASSUME NEW f \in Stored, f # Victim(e) PROVE f \in Stored'
  <2>1. PICK a \in Queues : \E n \in DOMAIN phash[a] : f = phash[a][n]
    BY <1>8, <1>12, StoredAt
  <2>2. PICK n \in DOMAIN phash[a] : f = phash[a][n]
    BY <2>1
  <2>3. \E m \in DOMAIN phash'[a] : f = phash'[a][m]
    <3>1. CASE a # b
      BY <1>9, <2>2, <3>1
    <3>2. CASE a = b
      <4>1. n # k /\ n \in Int /\ k \in Int
        BY <1>3, <1>5, <1>14, <2>2, <3>2
      <4>2. n < k \/ n > k
        BY <4>1
      <4> QED
        BY <1>7, <1>9, <2>2, <3>2, <4>2 DEF RemovedFrom
    <3> QED
      BY <3>1, <3>2
  <2> QED
    BY <1>9, <1>12, <2>3, StoredAt
<1>15. presidue' \in Seq(Task) /\ OneEach(presidue') /\ ToSet(presidue') = ToSet(chain) \ {q[k]}
  BY <1>4, RemoveFirstFacts
<1> QED
  BY <1>1, <1>2, <1>3, <1>5, <1>9, <1>11, <1>13, <1>14, <1>15 DEF r

LEMMA DeleteQueues ==
  ASSUME BaseTypes, NEW e \in Stored, NEW chain \in Seq(Task), OneEach(chain),
         pdb_deltask(e.pid, e.isproc, chain),
         NEW P \in SUBSET Task, Single(P), NEW V \in SUBSET P, NEW W,
         \A b \in Queues : QueueOK(phash[b], P, V), \A v \in V : ~SameKey(v, e) => v \in W
  PROVE  \A b \in Queues : QueueOK(phash'[b], P, W)
<1> SUFFICES ASSUME NEW b \in Queues PROVE QueueOK(phash'[b], P, W)
  OBVIOUS
<1>1. /\ \A a \in Queues : a # Bucket(e.pid) => phash'[a] = phash[a]
      /\ phash'[Bucket(e.pid)] = RemoveAt(phash[Bucket(e.pid)], Doomed(e.pid, e.isproc))
  BY DeleteFacts
<1>2. CASE b = Bucket(e.pid)
  <2> DEFINE q == phash[b]
  <2>1. PICK k : k = Doomed(e.pid, e.isproc)
    OBVIOUS
  <2>2. q \in Seq(Task) /\ k \in DOMAIN q /\ SameKey(q[k], e) /\ \A l \in DOMAIN q : SameKey(q[l], e) => k <= l
    BY <1>2, <2>1, DoomedFacts
  <2>3. phash'[b] = RemoveAt(q, k)
    BY <1>1, <1>2, <2>1
  <2>4. QueueOK(q, P, V)
    OBVIOUS
  <2> HIDE DEF q
  <2>5. \A l \in DOMAIN q : SameKey(q[l], q[k]) => k <= l
    BY <2>2 DEF SameKey
  <2>6. \A v \in V : ~SameKey(v, q[k]) => v \in W
    BY <2>2 DEF SameKey
  <2>7. QueueOK(RemoveAt(q, k), P, W)
    BY <2>2, <2>4, <2>5, <2>6, QueueRemove
  <2> QED
    BY <2>3, <2>7
<1>3. CASE b # Bucket(e.pid)
  <2>1. phash'[b] = phash[b]
    BY <1>1, <1>3
  <2>2. \A k \in DOMAIN phash[b] : ~SameKey(phash[b][k], e)
    BY <1>3, PlaceStored DEF SameKey
  <2>3. QueueOK(phash[b], P, V)
    OBVIOUS
  <2>4. QueueOK(phash[b], P, W)
    BY <2>2, <2>3 DEF QueueOK
  <2> QED
    BY <2>1, <2>4
<1> QED
  BY <1>2, <1>3

---------------------------------------------------------------------------
(* The processes and their records.                                          *)

LEMMA AppendType ==
  ASSUME NEW T, NEW s \in Seq(T), NEW e \in T
  PROVE  Append(s, e) \in Seq(T)
OBVIOUS

LEMMA ForkKeeps ==
  ASSUME KernelInv, NEW p \in Pids, NEW name \in Names, Fork(p, name)
  PROVE  KernelInv'
<1> DEFINE new == [name |-> name, use |-> 0, tuse |-> 0, alive |-> TRUE]
<1>0. MaxUse \in Nat /\ now \in Times
  BY TaskAssumption DEF KernelInv
<1>1. <<p, now>> \in Incs /\ new \in Process
  BY <1>0 DEF Incs, Process
<1>2. /\ DOMAIN kern' = DOMAIN kern \cup {<<p, now>>}
      /\ \A i \in DOMAIN kern : kern'[i] = kern[i]
      /\ kern'[<<p, now>>] = new
  BY DEF Fork
<1> HIDE DEF new
<1>3. DOMAIN kern' \subseteq Incs
  BY <1>1, <1>2 DEF KernelInv
<1>4. kern' \in [DOMAIN kern' -> Process]
  <2>1. \A i \in DOMAIN kern' : kern'[i] \in Process
    BY <1>1, <1>2 DEF KernelInv
  <2>2. kern' = [i \in DOMAIN kern' |-> kern'[i]]
    BY DEF Fork
  <2> QED
    BY <2>1, <2>2
<1>5. Alive' \subseteq Alive \cup {<<p, now>>}
  BY <1>2 DEF Alive
<1>6. \A i, j \in Alive' : i[1] = j[1] => i = j
  <2>1. \A i \in Alive : i[1] # p
    BY DEF Fork
  <2>2. \A i, j \in Alive : i[1] = j[1] => i = j
    BY DEF KernelInv
  <2>3. <<p, now>>[1] = p
    OBVIOUS
  <2> QED
    BY <1>5, <2>1, <2>2, <2>3
<1> QED
  BY <1>3, <1>4, <1>6 DEF KernelInv, Fork

LEMMA RunKeeps ==
  ASSUME KernelInv, NEW i \in Alive, Run(i)
  PROVE  KernelInv'
<1>0. MaxUse \in Nat /\ i \in DOMAIN kern /\ kern[i] \in Process
  BY TaskAssumption DEF KernelInv, Alive
<1>1. PICK x \in Process : x.alive = kern[i].alive /\ kern' = [kern EXCEPT ![i] = x]
  <2>1. CASE kern[i].use < MaxUse /\ kern' = [kern EXCEPT ![i].use = @ + 1]
    <3> DEFINE x == [kern[i] EXCEPT !.use = @ + 1]
    <3>1. x \in Process /\ x.alive = kern[i].alive
      BY <1>0, <2>1 DEF Process
    <3> QED
      BY <2>1, <3>1
  <2>2. CASE kern[i].tuse < MaxUse /\ kern' = [kern EXCEPT ![i].tuse = @ + 1]
    <3> DEFINE x == [kern[i] EXCEPT !.tuse = @ + 1]
    <3>1. x \in Process /\ x.alive = kern[i].alive
      BY <1>0, <2>2 DEF Process
    <3> QED
      BY <2>2, <3>1
  <2> QED
    BY <2>1, <2>2 DEF Run
<1>2. kern' \in [DOMAIN kern -> Process] /\ DOMAIN kern' = DOMAIN kern
  BY <1>1 DEF KernelInv
<1>3. Alive' = Alive
  BY <1>0, <1>1, <1>2 DEF Alive
<1> QED
  BY <1>2, <1>3 DEF KernelInv, Run

LEMMA ExitKeeps ==
  ASSUME KernelInv, NEW i \in Alive, Exit(i)
  PROVE  KernelInv'
<1>0. MaxUse \in Nat /\ i \in DOMAIN kern /\ kern[i] \in Process /\ i \in Incs
  BY TaskAssumption DEF KernelInv, Alive
<1>1. i[1] \in Pids /\ i[2] \in Times
  BY <1>0 DEF Incs
<1>2. kern' \in [DOMAIN kern -> Process] /\ DOMAIN kern' = DOMAIN kern
  <2> DEFINE x == [kern[i] EXCEPT !.alive = FALSE]
  <2>1. x \in Process
    BY <1>0 DEF Process
  <2>2. kern' = [kern EXCEPT ![i] = x]
    BY DEF Exit
  <2> HIDE DEF x
  <2> QED
    BY <2>1, <2>2 DEF KernelInv
<1>3. Alive' \subseteq Alive
  <2>1. \A j \in DOMAIN kern : j # i => kern'[j] = kern[j]
    BY <1>0 DEF Exit, KernelInv
  <2> QED
    BY <1>2, <2>1 DEF Alive
<1>4. exits' \in Seq(Ended)
  <2>1. CASE acct = "off"
    BY <2>1 DEF Exit, KernelInv
  <2>2. CASE acct # "off"
    <3>1. PICK b \in {i[2], i[2] + 1} \cap Times, u \in {kern[i].use - 1, kern[i].use} \cap Nat :
            exits' = Append(exits, [pid |-> IF acct = "v3" THEN i[1] ELSE NoPid, isproc |-> TRUE,
                                    btime |-> b, name |-> kern[i].name, use |-> u, inc |-> i])
      BY <2>2 DEF Exit
    <3>2. u \in 0 .. MaxUse /\ kern[i].name \in Names
      BY <1>0 DEF Process
    <3>3. (IF acct = "v3" THEN i[1] ELSE NoPid) \in Pids \cup {NoPid}
      BY <1>1
    <3>4. [pid |-> IF acct = "v3" THEN i[1] ELSE NoPid, isproc |-> TRUE,
           btime |-> b, name |-> kern[i].name, use |-> u, inc |-> i] \in Ended
      BY <1>0, <3>2, <3>3 DEF Ended
    <3> QED
      BY <3>1, <3>4, AppendType DEF KernelInv
  <2> QED
    BY <2>1, <2>2
<1>5. netexits' \in Seq(Traffic)
  <2>1. [id |-> i[1], btime |-> i[2], command |-> kern[i].name, net |-> kern[i].use, isused |-> FALSE] \in Traffic
    BY <1>0, <1>1 DEF Traffic, Process
  <2> QED
    BY <2>1, AppendType DEF Exit, KernelInv
<1> QED
  BY <1>2, <1>3, <1>4, <1>5 DEF KernelInv, Exit

LEMMA WorldKeeps ==
  ASSUME KernelInv, World
  PROVE  KernelInv'
<1>1. ASSUME Tick PROVE KernelInv'
  <2>1. now' \in Times
    BY <1>1, TaskAssumption DEF Tick, KernelInv, Times
  <2>2. Alive' = Alive
    BY <1>1 DEF Tick, Alive
  <2> QED
    BY <1>1, <2>1, <2>2 DEF Tick, KernelInv
<1>2. \/ Tick
      \/ \E p \in Pids, name \in Names : Fork(p, name)
      \/ \E i \in Alive : Run(i)
      \/ \E i \in Alive : Exit(i)
  BY DEF World
<1> QED
  BY <1>1, <1>2, ForkKeeps, RunKeeps, ExitKeeps

\* A loop of deviattask changes of the records only which ones were used.
LEMMA RecordsKeep ==
  ASSUME KernelInv, UNCHANGED <<acct, now, kern>>, exits' \in Seq(Ended), netexits' \in Seq(Traffic)
  PROVE  KernelInv'
<1>1. Alive' = Alive
  BY DEF Alive
<1> QED
  BY <1>1 DEF KernelInv

---------------------------------------------------------------------------
(* The sample, step by step.                                                 *)

DataInv == BaseTypes /\ SampleTypes /\ ChainInv /\ ListInv

LEMMA DataStutters ==
  ASSUME DataInv, UNCHANGED <<phase, base, sample>>
  PROVE  DataInv'
<1>1. /\ UNCHANGED <<phase, phash, presidue, pr, pretime, present, gone, c, taskall>>
      /\ UNCHANGED <<devtstat, prev, charged, missed>>
  BY DEF base, sample
<1>2. BaseTypes' /\ SampleTypes'
  BY <1>1 DEF DataInv, BaseTypes, SampleTypes
<1>3. Sampling' = Sampling /\ Stored' = Stored /\ ToVisit' = ToVisit
  BY <1>1 DEF Sampling, Stored, ToVisit
<1>4. ChainInv'
  BY <1>1, <1>3 DEF DataInv, ChainInv, Unmet
<1>5. IsProcs' = IsProcs /\ ActiveProcs' = ActiveProcs /\ ActiveTasks' = ActiveTasks
  BY <1>1 DEF IsProcs, ActiveProcs, ActiveTasks
<1>6. ListInv'
  BY <1>1, <1>3, <1>5 DEF DataInv, ListInv
<1> QED
  BY <1>2, <1>4, <1>6 DEF DataInv

LEMMA PhotoKeeps ==
  ASSUME KernelInv, DataInv, Photo
  PROVE  DataInv'
<1>1. /\ phase = "idle" /\ phase' = "photo" /\ present' = photoproc
      /\ UNCHANGED <<phash, presidue, pr, pretime, gone, c, taskall, devtstat, prev, charged>>
  BY DEF Photo, base
<1>2. /\ present' \in Seq(Task) /\ Len(present') <= MaxTask /\ OneEach(present')
      /\ present' # << >> => present'[1].isproc
  BY <1>1, PhotoFacts
<1>3. missed' \subseteq Incs
  BY DEF Photo, KernelInv, Alive, DataInv, SampleTypes
<1>4. BaseTypes' /\ SampleTypes'
  BY <1>1, <1>2, <1>3 DEF DataInv, BaseTypes, SampleTypes
<1>5. ~Sampling /\ ~Sampling'
  BY <1>1 DEF Sampling
<1>6. ChainInv'
  BY <1>1, <1>2, <1>5 DEF DataInv, ChainInv, Unmet
<1>7. ListInv'
  BY <1>1, <1>2, <1>5 DEF DataInv, ListInv
<1> QED
  BY <1>4, <1>6, <1>7 DEF DataInv

\* Between two samples a key has one entry.
LEMMA StoredSingle ==
  ASSUME BaseTypes, \A b \in Queues : OneEach(phash[b])
  PROVE  Single(Stored)
<1> SUFFICES ASSUME NEW e \in Stored, NEW f \in Stored, SameKey(e, f) PROVE e = f
  BY DEF Single
<1>1. PICK b \in Queues : b = Bucket(e.pid)
  BY StoredPlace
<1>2. PICK k \in DOMAIN phash[b] : phash[b][k] = e
  BY <1>1, StoredPlace
<1>3. b = Bucket(f.pid)
  BY <1>1 DEF SameKey
<1>4. PICK l \in DOMAIN phash[b] : phash[b][l] = f
  BY <1>3, StoredPlace
<1> QED
  BY <1>2, <1>4 DEF OneEach

LEMMA DeviatStartKeeps ==
  ASSUME KernelInv, DataInv, DeviatStart
  PROVE  DataInv'
<1>1. /\ phase = "photo" /\ phase' = "present" /\ gone' = exits /\ presidue' = pdb_makeresidue
      /\ prev' = Stored /\ taskall' = << >> /\ c' = 1
      /\ devtstat' = [nprocall |-> 0, nprocactive |-> 0, ntaskactive |-> 0]
      /\ UNCHANGED <<phash, pr, pretime, present, charged, missed>>
  BY DEF DeviatStart
<1>2. ~Sampling /\ Sampling'
  BY <1>1 DEF Sampling
<1>3. BaseTypes /\ \A b \in Queues : OneEach(phash[b])
  BY <1>2 DEF DataInv, ChainInv
<1>4. presidue' \in Seq(Task) /\ OneEach(presidue') /\ ToSet(presidue') = Stored
  BY <1>1, <1>3, ResidueFacts
<1>5. Stored' = Stored /\ Single(Stored) /\ Stored \subseteq Task
  BY <1>1, <1>3, StoredSingle, StoredPlace DEF Stored
<1>6. BaseTypes'
  BY <1>1, <1>3, <1>4 DEF BaseTypes
<1>7. SampleTypes'
  BY <1>1, <1>5 DEF DataInv, SampleTypes, KernelInv
<1>8. ASSUME NEW b \in Queues PROVE QueueOK(phash[b], Stored, Stored)
  <2> DEFINE q == phash[b]
  <2>1. \A k \in DOMAIN q : q[k] \in Stored /\ q[k].btime \in Int
    BY <1>3, PlaceStored, TaskFields
  <2>2. \A k \in DOMAIN q : \A p \in Stored : SameKey(q[k], p) => Near(q[k].btime, p.btime)
    BY <1>5, <2>1 DEF Single, Near
  <2>3. OneEach(q) /\ DOMAIN q \subseteq Int
    BY <1>3 DEF BaseTypes
  <2> QED
    BY <2>1, <2>2, <2>3 DEF QueueOK, OneEach
<1>9. ToVisit' = Stored
  BY <1>1, <1>4 DEF ToVisit
<1>10. Unmet'
  BY <1>1, <1>4, <1>5 DEF Unmet
<1>11. ChainInv'
  <2>1. OneEach(present') /\ Single(prev') /\ prev' = Stored
    BY <1>1, <1>5 DEF DataInv, ChainInv
  <2>2. \A b \in Queues : QueueOK(phash'[b], prev', ToVisit')
    BY <1>1, <1>8, <1>9
  <2> QED
    BY <1>1, <1>2, <1>4, <1>5, <1>10, <2>1, <2>2 DEF ChainInv
<1>12. IsProcs' = {} /\ ActiveProcs' = {} /\ ActiveTasks' = {}
  BY <1>1 DEF IsProcs, ActiveProcs, ActiveTasks
<1>13. ListInv'
  <2>1. Len(taskall') = c' - 1 /\ DOMAIN taskall' = {} /\ c' <= Len(present') + 1
    BY <1>1 DEF DataInv, SampleTypes
  <2> QED
    BY <1>1, <1>12, <2>1, FS_EmptySet DEF DataInv, ListInv
<1> QED
  BY <1>6, <1>7, <1>11, <1>13 DEF DataInv

LEMMA PresentDoneKeeps ==
  ASSUME DataInv, PresentDone
  PROVE  DataInv'
<1>1. /\ phase = "present" /\ c > Len(present) /\ phase' = "exited" /\ c' = 1
      /\ UNCHANGED <<phash, presidue, pr, pretime, present, gone, taskall, devtstat, prev, charged, missed>>
  BY DEF PresentDone, base
<1>2. BaseTypes' /\ SampleTypes'
  BY <1>1 DEF DataInv, BaseTypes, SampleTypes
<1>3. Sampling /\ Sampling' /\ Stored' = Stored /\ ToVisit' = ToVisit
  BY <1>1 DEF Sampling, Stored, ToVisit
<1>4. ChainInv'
  BY <1>1, <1>3 DEF DataInv, ChainInv, Unmet
<1>5. IsProcs' = IsProcs /\ ActiveProcs' = ActiveProcs /\ ActiveTasks' = ActiveTasks
  BY <1>1 DEF IsProcs, ActiveProcs, ActiveTasks
<1>6. ListInv'
  <2>1. Len(present) \in Nat /\ Len(gone) \in Nat /\ c \in Nat /\ c <= Len(present) + 1 /\ Len(taskall) = c - 1
    BY <1>1 DEF DataInv, SampleTypes, ListInv
  <2>2. c' <= Len(gone) + 1 /\ Len(taskall) = Len(present) + c' - 1
    BY <1>1, <2>1
  <2> QED
    BY <1>1, <1>3, <1>5, <2>2 DEF DataInv, ListInv
<1> QED
  BY <1>2, <1>4, <1>6 DEF DataInv

LEMMA ExitedDoneKeeps ==
  ASSUME DataInv, ExitedDone
  PROVE  DataInv'
<1>1. /\ phase = "exited" /\ phase' = "clean" /\ pr' = Head(presidue \o <<Anchor>>)
      /\ UNCHANGED <<phash, presidue, pretime, present, gone, c, taskall, devtstat, prev, charged, missed>>
  BY DEF ExitedDone, sample
<1>2. presidue \in Seq(Task)
  BY DEF DataInv, BaseTypes
<1>3. pr' \in {Anchor} \cup ToSet(presidue) /\ Ahead(presidue, pr') = ToSet(presidue)
  <2>1. CASE presidue = << >>
    <3>1. pr' = Anchor
      BY <1>1, <2>1
    <3>2. DOMAIN presidue = {}
      BY <2>1
    <3> QED
      BY <3>1, <3>2 DEF Ahead, ToSet
  <2>2. CASE presidue # << >>
    <3>1. 1 \in DOMAIN presidue /\ DOMAIN presidue = 1 .. Len(presidue) /\ Len(presidue) \in Nat
      BY <1>2, <2>2
    <3>2. pr' = presidue[1]
      BY <1>1, <1>2, <2>2
    <3>3. {l \in DOMAIN presidue : \E i \in DOMAIN presidue : i <= l /\ presidue[i] = pr'} = DOMAIN presidue
      BY <3>1, <3>2
    <3> QED
      BY <3>1, <3>2, <3>3 DEF Ahead, ToSet
  <2> QED
    BY <2>1, <2>2
<1>4. pr' \in {Anchor} \cup Task
  BY <1>2, <1>3 DEF ToSet
<1>5. BaseTypes' /\ SampleTypes'
  BY <1>1, <1>4 DEF DataInv, BaseTypes, SampleTypes
<1>6. Sampling /\ Sampling' /\ Stored' = Stored /\ ToVisit' = ToVisit
  BY <1>1, <1>3 DEF Sampling, Stored, ToVisit
<1>7. ChainInv'
  BY <1>1, <1>3, <1>6 DEF DataInv, ChainInv, Unmet
<1>8. IsProcs' = IsProcs /\ ActiveProcs' = ActiveProcs /\ ActiveTasks' = ActiveTasks
  BY <1>1 DEF IsProcs, ActiveProcs, ActiveTasks
<1>9. ListInv'
  BY <1>1, <1>6, <1>8 DEF DataInv, ListInv
<1> QED
  BY <1>5, <1>7, <1>9 DEF DataInv

\* When the last entry was visited no key has two entries, and the task of a
\* key is near to the one that the sample found.
LEMMA Cleaned ==
  ASSUME DataInv, phase = "clean", pr = Anchor
  PROVE  /\ \A b \in Queues : OneEach(phash[b])
         /\ \A e \in Stored : \A p \in prev : SameKey(e, p) => Near(e.btime, p.btime)
<1>1. ToVisit = {}
  <2>1. \A i \in DOMAIN presidue : presidue[i] # Anchor
    BY TaskFields DEF DataInv, BaseTypes
  <2> QED
    BY <2>1 DEF ToVisit, Ahead
<1>2. \A b \in Queues : QueueOK(phash[b], prev, {})
  BY <1>1 DEF DataInv, ChainInv, Sampling
<1>3. \A b \in Queues : OneEach(phash[b])
  <2> SUFFICES ASSUME NEW b \in Queues, NEW k \in DOMAIN phash[b], NEW l \in DOMAIN phash[b],
                      SameKey(phash[b][k], phash[b][l]), k # l
               PROVE  FALSE
    BY DEF OneEach
  <2>1. k < l \/ l < k
    BY DEF DataInv, BaseTypes
  <2> QED
    BY <1>2, <2>1 DEF QueueOK, SameKey
<1>4. ASSUME NEW e \in Stored, NEW p \in prev, SameKey(e, p) PROVE Near(e.btime, p.btime)
  <2>0. BaseTypes
    BY DEF DataInv
  <2>1. PICK b \in Queues : b = Bucket(e.pid)
    BY <2>0, StoredPlace
  <2>2. PICK k \in DOMAIN phash[b] : phash[b][k] = e
    BY <2>0, <2>1, StoredPlace
  <2>3. SUFFICES ASSUME NEW l \in DOMAIN phash[b], k < l, phash[b][l] = p PROVE FALSE
    BY <1>2, <1>4, <2>2 DEF QueueOK
  <2> QED
    BY <1>2, <1>4, <2>2, <2>3 DEF QueueOK
<1> QED
  BY <1>3, <1>4

LEMMA DeviatDoneKeeps ==
  ASSUME KernelInv, DataInv, DeviatDone
  PROVE  DataInv'
<1>1. /\ phase = "clean" /\ pr = Anchor /\ phase' = "idle"
      /\ present' = << >> /\ gone' = << >> /\ taskall' = << >> /\ c' = 1
      /\ devtstat' = [nprocall |-> 0, nprocactive |-> 0, ntaskactive |-> 0]
      /\ prev' = {} /\ presidue' = << >> /\ pretime' = now
      /\ UNCHANGED <<phash, pr, charged, missed>>
  BY DEF DeviatDone
<1>2. BaseTypes'
  BY <1>1 DEF DataInv, BaseTypes
<1>3. SampleTypes'
  <2>1. Len(present') <= MaxTask
    BY <1>1, TaskAssumption
  <2> QED
    BY <1>1, <2>1 DEF DataInv, SampleTypes, KernelInv
<1>4. ~Sampling'
  BY <1>1 DEF Sampling
<1>5. \A b \in Queues : OneEach(phash'[b])
  BY <1>1, Cleaned
<1>6. OneEach(present') /\ OneEach(presidue') /\ Single(prev')
  BY <1>1 DEF OneEach, Single
<1>7. ChainInv'
  BY <1>1, <1>4, <1>5, <1>6 DEF ChainInv, Unmet
<1>8. ListInv'
  BY <1>1, <1>4 DEF ListInv
<1> QED
  BY <1>2, <1>3, <1>7, <1>8 DEF DataInv

\* What a deletion leaves to visit when pr has moved on.
LEMMA MovedOn ==
  ASSUME NEW s \in Seq(Task), OneEach(s), NEW n \in DOMAIN s, NEW v, SameKey(v, s[n]),
         NEW nx, nx = (s \o <<Anchor>>)[n + 1]
  PROVE  LET r == RemoveFirst(s, v) IN
         /\ nx \in {Anchor} \cup ToSet(r)
         /\ \A x \in Ahead(s, s[n]) : ~SameKey(x, s[n]) => x \in Ahead(r, nx)
<1> DEFINE r == RemoveFirst(s, v)
<1>0. DOMAIN s = 1 .. Len(s) /\ Len(s) \in Nat
  OBVIOUS
<1>1. PICK j \in {0, 1} : /\ \A k \in DOMAIN s : k > n => k - j \in DOMAIN r /\ r[k - j] = s[k]
                         /\ ToSet(r) = ToSet(s) \ {v}
  <2>1. CASE v \notin ToSet(s)
    <3>1. r = s
      BY <2>1, RemoveFirstFacts
    <3>2. \A k \in DOMAIN s : k - 0 = k
      BY <1>0
    <3> QED
      BY <2>1, <3>1, <3>2
  <2>2. CASE v \in ToSet(s)
    <3>1. v = s[n]
      <4>1. PICK m \in DOMAIN s : s[m] = v
        BY <2>2 DEF ToSet
      <4> QED
        BY <4>1 DEF OneEach
    <3>2. r = RemoveAt(s, n) /\ ToSet(r) = ToSet(s) \ {v}
      BY <3>1, RemoveFirstFacts
    <3>3. RemovedFrom(s, n, RemoveAt(s, n))
      BY <1>0, RemoveAtPlaces
    <3> QED
      BY <3>2, <3>3 DEF RemovedFrom
  <2> QED
    BY <2>1, <2>2
<1> HIDE DEF r
<1>2. CASE n = Len(s)
  <2>1. nx = Anchor
    BY <1>0, <1>2
  <2>2. ASSUME NEW x \in Ahead(s, s[n]) PROVE x = s[n]
    <3>1. PICK k \in DOMAIN s, i \in DOMAIN s : i <= k /\ s[i] = s[n] /\ x = s[k]
      BY DEF Ahead
    <3>2. i = n
      BY <3>1 DEF OneEach, SameKey
    <3> QED
      BY <1>0, <1>2, <3>1, <3>2
  <2> QED
    BY <2>1, <2>2 DEF r, SameKey
<1>3. CASE n # Len(s)
  <2>1. n + 1 \in DOMAIN s
    BY <1>0, <1>3
  <2>2. nx = s[n + 1]
    BY <1>0, <2>1, ConcatProperties
  <2>3. n + 1 > n /\ (n + 1) - j \in DOMAIN r /\ r[(n + 1) - j] = nx
    BY <1>0, <1>1, <2>1, <2>2
  <2>4. ASSUME NEW x \in Ahead(s, s[n]), ~SameKey(x, s[n]) PROVE x \in Ahead(r, nx)
    <3>1. PICK k \in DOMAIN s, i \in DOMAIN s : i <= k /\ s[i] = s[n] /\ x = s[k]
      BY DEF Ahead
    <3>2. i = n
      BY <3>1 DEF OneEach, SameKey
    <3>3. k > n
      BY <1>0, <2>4, <3>1, <3>2 DEF SameKey
    <3>4. k - j \in DOMAIN r /\ r[k - j] = x /\ (n + 1) - j <= k - j
      BY <1>0, <1>1, <3>1, <3>3
    <3> QED
      BY <2>3, <3>4 DEF Ahead
  <2>5. nx \in ToSet(r)
    BY <2>3 DEF ToSet
  <2> QED
    BY <2>4, <2>5 DEF r
<1> QED
  BY <1>2, <1>3

LEMMA CleanTaskKeeps ==
  ASSUME DataInv, CleanTask
  PROVE  DataInv'
<1>1. /\ phase = "clean" /\ pr # Anchor /\ UNCHANGED phase
      /\ UNCHANGED <<pretime, present, gone, c, taskall, devtstat, prev, charged, missed>>
      /\ pdb_deltask(pr.pid, pr.isproc, presidue)
  BY DEF CleanTask, sample
<1>2. /\ BaseTypes /\ Sampling /\ presidue \in Seq(Task) /\ OneEach(presidue) /\ Single(prev) /\ prev \subseteq Task
      /\ ToSet(presidue) \subseteq prev \cap Stored /\ pr \in ToSet(presidue)
      /\ \A b \in Queues : QueueOK(phash[b], prev, Ahead(presidue, pr))
  BY <1>1 DEF DataInv, ChainInv, BaseTypes, SampleTypes, Sampling, ToVisit
<1>3. PICK n \in DOMAIN presidue : presidue[n] = pr
  BY <1>2 DEF ToSet
<1>4. pr' = (presidue \o <<Anchor>>)[n + 1]
  <2> DEFINE I == {i \in 1 .. Len(presidue) : presidue[i] = pr}
  <2>0. DOMAIN presidue = 1 .. Len(presidue)
    BY <1>2
  <2>1. I = {n}
    BY <1>2, <1>3, <2>0 DEF OneEach, SameKey
  <2>2. SelectInSeq(presidue, LAMBDA v : v = pr) = Min(I)
    BY <2>1 DEF SelectInSeq
  <2>3. Min(I) = n
    <3>1. I \in SUBSET Nat /\ I # {}
      BY <2>0, <2>1
    <3> HIDE DEF I
    <3> QED
      BY <2>1, <3>1, LeastOf
  <2> QED
    BY <2>2, <2>3 DEF CleanTask
<1> DEFINE v == Victim(pr)
<1>5. /\ v \in Stored /\ SameKey(v, pr) /\ phash' \in [Queues -> Seq(Task)]
      /\ \A b \in Queues : \A k \in DOMAIN phash'[b] : Bucket(phash'[b][k].pid) = b
      /\ Stored' \subseteq Stored /\ \A f \in Stored : f # v => f \in Stored'
      /\ presidue' \in Seq(Task) /\ OneEach(presidue') /\ ToSet(presidue') = ToSet(presidue) \ {v}
  BY <1>1, <1>2, DeleteFacts
<1>6. presidue' = RemoveFirst(presidue, v)
  BY <1>1 DEF pdb_deltask, Victim
<1> HIDE DEF v
<1>7. /\ pr' \in {Anchor} \cup ToSet(presidue')
      /\ \A x \in Ahead(presidue, pr) : ~SameKey(x, pr) => x \in Ahead(presidue', pr')
  BY <1>2, <1>3, <1>4, <1>5, <1>6, MovedOn
<1>8. \A b \in Queues : QueueOK(phash'[b], prev, Ahead(presidue', pr'))
  <2>1. Ahead(presidue, pr) \subseteq prev
    BY <1>2 DEF Ahead, ToSet
  <2>2. pr \in Stored
    BY <1>2
  <2> QED
    BY <1>1, <1>2, <1>7, <2>1, <2>2, DeleteQueues
<1>9. BaseTypes' /\ SampleTypes'
  <2>1. pr' \in {Anchor} \cup Task
    BY <1>5, <1>7 DEF ToSet
  <2> QED
    BY <1>1, <1>5, <2>1 DEF DataInv, BaseTypes, SampleTypes
<1>10. Sampling' /\ ToVisit' = Ahead(presidue', pr') /\ Unmet'
  BY <1>1 DEF Sampling, ToVisit, Unmet
<1>11. ToSet(presidue') \subseteq prev \cap Stored'
  BY <1>2, <1>5
<1>12. OneEach(present') /\ Single(prev')
  BY <1>1 DEF DataInv, ChainInv
<1>13. ChainInv'
  <2>1. \A b \in Queues : QueueOK(phash'[b], prev', ToVisit')
    BY <1>1, <1>8, <1>10
  <2> QED
    BY <1>1, <1>5, <1>7, <1>10, <1>11, <1>12, <2>1 DEF ChainInv
<1>14. IsProcs' = IsProcs /\ ActiveProcs' = ActiveProcs /\ ActiveTasks' = ActiveTasks
  BY <1>1 DEF IsProcs, ActiveProcs, ActiveTasks
<1>15. ListInv'
  BY <1>1, <1>2, <1>10, <1>14 DEF DataInv, ListInv
<1> QED
  BY <1>9, <1>13, <1>15 DEF DataInv

\* Which entry a record is about.
LEMMA FormerIs ==
  ASSUME BaseTypes, NEW r \in Ended
  PROVE  /\ r.pid # NoPid /\ Former(r) # Anchor => Former(r).pid = r.pid /\ Former(r).isproc
         /\ r.pid # NoPid /\ Former(r) = Anchor =>
              \A e \in Stored : ~(e.isproc /\ e.pid = r.pid /\ Near(e.btime, r.btime))
         /\ r.pid # NoPid => Former(r) \in {Anchor} \cup Stored
         /\ r.pid = NoPid /\ Former(r) # Anchor => Former(r) \in ToSet(presidue)
<1>1. CASE r.pid # NoPid
  <2>1. r.pid \in Pids
    BY <1>1 DEF Ended
  <2>2. PICK level \in BOOLEAN : level = TRUE
    OBVIOUS
  <2>3. PICK k : k = pdb_gettask(r.pid, level, r.btime)
    OBVIOUS
  <2>4. PICK q : q = phash[Bucket(r.pid)]
    OBVIOUS
  <2>5. Former(r) = IF k = 0 THEN Anchor ELSE q[k]
    BY <1>1, <2>2, <2>4, <2>3 DEF Former
  <2>6. CASE k = 0
    <3>1. \A l \in DOMAIN q : ~(q[l].pid = r.pid /\ q[l].isproc = level /\ Near(q[l].btime, r.btime))
      BY <2>1, <2>4, <2>6, <2>3, GettaskFacts
    <3>2. ASSUME NEW e \in Stored, e.isproc, e.pid = r.pid, Near(e.btime, r.btime) PROVE FALSE
      <4>1. PICK l \in DOMAIN q : q[l] = e
        BY <2>4, <3>2, StoredPlace
      <4>2. e.isproc = level
        BY <2>2, <3>2, StoredPlace, TaskFields
      <4> QED
        BY <3>1, <3>2, <4>1, <4>2
    <3>3. Former(r) = Anchor
      BY <2>5, <2>6
    <3> QED
      BY <1>1, <3>2, <3>3
  <2>7. CASE k # 0
    <3>1. q[k].pid = r.pid /\ q[k].isproc = level /\ k \in DOMAIN q /\ Bucket(r.pid) \in Queues
      BY <2>1, <2>4, <2>7, <2>3, GettaskFacts
    <3>2. q[k] # Anchor /\ q[k] \in Stored
      BY <2>4, <3>1, PlaceStored, TaskFields
    <3> QED
      BY <1>1, <2>2, <2>5, <2>7, <3>1, <3>2
  <2> QED
    BY <2>6, <2>7
<1>2. CASE r.pid = NoPid
  <2>1. pdb_srchresidue(r) \in {0} \cup DOMAIN presidue
    <3> DEFINE I == {i \in 1 .. Len(presidue) : presidue[i].name = r.name /\ presidue[i].btime = r.btime}
               J == {i \in 1 .. Len(presidue) : presidue[i].name = r.name /\ Near(presidue[i].btime, r.btime)}
    <3>1. pdb_srchresidue(r) \in {0} \cup {Min(I) : x \in I} \cup {Min(J) : x \in J}
      BY DEF pdb_srchresidue, SelectInSeq
    <3>2. I \in SUBSET Nat /\ J \in SUBSET Nat /\ I \subseteq DOMAIN presidue /\ J \subseteq DOMAIN presidue
      BY DEF BaseTypes
    <3> HIDE DEF I, J
    <3> QED
      BY <3>1, <3>2, LeastOf
  <2>2. PICK k \in {0} \cup DOMAIN presidue : Former(r) = IF k = 0 THEN Anchor ELSE presidue[k]
    BY <1>2, <2>1 DEF Former
  <2> QED
    BY <1>2, <2>2 DEF ToSet
<1> QED
  BY <1>1, <1>2

\* The entry an exit record is about is one of the database.
LEMMA FormerFacts ==
  ASSUME BaseTypes, ToSet(presidue) \subseteq Stored, NEW r \in Ended
  PROVE  Former(r) \in {Anchor} \cup Stored
BY FormerIs

---------------------------------------------------------------------------
(* The list of the tasks and its counters.                                   *)

Report == Shown \cup ShownEnded
ProcsOf(t) == {k \in DOMAIN t : t[k].isproc}
ActiveProcsOf(t) == {k \in DOMAIN t : t[k].isproc /\ ~t[k].wasinactive}
ActiveOf(t) == {k \in DOMAIN t : ~t[k].wasinactive}

\* d is counted behind the n tasks before it.
LEMMA CountGrows ==
  ASSUME NEW n \in Nat, NEW S \in SUBSET (1 .. n), NEW x, x \notin S
  PROVE  /\ Cardinality(S) \in Nat /\ IsFiniteSet(S)
         /\ Cardinality(S \cup {x}) = Cardinality(S) + 1
<1>1. IsFiniteSet(1 .. n)
  BY FS_Interval
<1>2. IsFiniteSet(S)
  BY <1>1, FS_Subset
<1> QED
  BY <1>2, FS_CardinalityType, FS_AddElement

\* The counters of a list, one task longer.
CountsTo(t, d, u) ==
  /\ u = Append(t, d) /\ u \in Seq(Report) /\ Len(u) = Len(t) + 1
  /\ \A k \in DOMAIN t : k \in DOMAIN u /\ u[k] = t[k]
  /\ u[Len(t) + 1] = d
  /\ Cardinality(ProcsOf(t)) \in Nat /\ Cardinality(ActiveProcsOf(t)) \in Nat /\ Cardinality(ActiveOf(t)) \in Nat
  /\ Cardinality(ProcsOf(u)) = Cardinality(ProcsOf(t)) + (IF d.isproc THEN 1 ELSE 0)
  /\ Cardinality(ActiveProcsOf(u)) =
       Cardinality(ActiveProcsOf(t)) + (IF d.isproc /\ ~d.wasinactive THEN 1 ELSE 0)
  /\ Cardinality(ActiveOf(u)) = Cardinality(ActiveOf(t)) + (IF d.wasinactive THEN 0 ELSE 1)

LEMMA AppendCounts ==
  ASSUME NEW t \in Seq(Report), NEW d \in Report
  PROVE  CountsTo(t, d, Append(t, d))
<1> DEFINE u == Append(t, d)
           n == Len(t)
<1>1. /\ u \in Seq(Report) /\ Len(u) = n + 1 /\ n \in Nat /\ DOMAIN t = 1 .. n /\ DOMAIN u = 1 .. n + 1
      /\ u[n + 1] = d /\ \A k \in 1 .. n : u[k] = t[k]
  OBVIOUS
<1> HIDE DEF u, n
<1>2. DOMAIN u = DOMAIN t \cup {n + 1} /\ n + 1 \notin DOMAIN t
  BY <1>1
<1>3. ASSUME NEW S \in SUBSET (1 .. n)
      PROVE  Cardinality(S) \in Nat /\ Cardinality(S) + 0 = Cardinality(S)
             /\ Cardinality(S \cup {n + 1}) = Cardinality(S) + 1
  <2>1. n \in Nat /\ n + 1 \notin S
    BY <1>1
  <2>2. Cardinality(S) \in Nat /\ Cardinality(S \cup {n + 1}) = Cardinality(S) + 1
    BY <2>1, CountGrows
  <2> QED
    BY <2>2
<1>4. ProcsOf(t) \in SUBSET (1 .. n) /\ ActiveProcsOf(t) \in SUBSET (1 .. n) /\ ActiveOf(t) \in SUBSET (1 .. n)
  BY <1>1 DEF ProcsOf, ActiveProcsOf, ActiveOf
<1>5. ProcsOf(u) = IF d.isproc THEN ProcsOf(t) \cup {n + 1} ELSE ProcsOf(t)
  BY <1>1, <1>2 DEF ProcsOf
<1>6. ActiveProcsOf(u) = IF d.isproc /\ ~d.wasinactive THEN ActiveProcsOf(t) \cup {n + 1} ELSE ActiveProcsOf(t)
  BY <1>1, <1>2 DEF ActiveProcsOf
<1>7. ActiveOf(u) = IF d.wasinactive THEN ActiveOf(t) ELSE ActiveOf(t) \cup {n + 1}
  BY <1>1, <1>2 DEF ActiveOf
<1>8. Cardinality(ProcsOf(u)) = Cardinality(ProcsOf(t)) + (IF d.isproc THEN 1 ELSE 0)
  BY <1>3, <1>4, <1>5
<1>9. Cardinality(ActiveProcsOf(u)) =
       Cardinality(ActiveProcsOf(t)) + (IF d.isproc /\ ~d.wasinactive THEN 1 ELSE 0)
  BY <1>3, <1>4, <1>6
<1>10. Cardinality(ActiveOf(u)) = Cardinality(ActiveOf(t)) + (IF d.wasinactive THEN 0 ELSE 1)
  BY <1>3, <1>4, <1>7
<1> QED
  BY <1>1, <1>2, <1>3, <1>4, <1>8, <1>9, <1>10 DEF CountsTo, u, n

\* The list in which an active thread has made its process active.
Woken(t, p) == [t EXCEPT ![p].wasinactive = FALSE]

LEMMA WakingCounts ==
  ASSUME NEW t \in Seq(Report), NEW p \in DOMAIN t, t[p].isproc, t[p].wasinactive
  PROVE  /\ Woken(t, p) \in Seq(Report) /\ Len(Woken(t, p)) = Len(t) /\ DOMAIN Woken(t, p) = DOMAIN t
         /\ \A k \in DOMAIN t : Woken(t, p)[k].isproc = t[k].isproc
         /\ \A k \in DOMAIN t : k # p => Woken(t, p)[k] = t[k]
         /\ Cardinality(ProcsOf(Woken(t, p))) = Cardinality(ProcsOf(t))
         /\ Cardinality(ActiveProcsOf(Woken(t, p))) = Cardinality(ActiveProcsOf(t)) + 1
         /\ Cardinality(ActiveOf(Woken(t, p))) = Cardinality(ActiveOf(t)) + 1
<1> DEFINE u == Woken(t, p)
           x == [t[p] EXCEPT !.wasinactive = FALSE]
<1>1. t[p] \in Report /\ DOMAIN t = 1 .. Len(t) /\ Len(t) \in Nat
  OBVIOUS
<1>2. x \in Report /\ x.isproc = t[p].isproc /\ x.wasinactive = FALSE
  <2>1. CASE t[p] \in Shown
    <3>1. x \in Shown /\ x.isproc = t[p].isproc /\ x.wasinactive = FALSE
      BY <2>1 DEF Shown
    <3> QED
      BY <3>1 DEF Report
  <2>2. CASE t[p] \in ShownEnded
    <3>1. x \in ShownEnded /\ x.isproc = t[p].isproc /\ x.wasinactive = FALSE
      BY <2>2 DEF ShownEnded
    <3> QED
      BY <3>1 DEF Report
  <2> QED
    BY <1>1, <2>1, <2>2 DEF Report
<1>3. u = [t EXCEPT ![p] = x]
  BY DEF Woken
<1> HIDE DEF x, u
<1>4. /\ u \in Seq(Report) /\ Len(u) = Len(t) /\ DOMAIN u = DOMAIN t /\ u[p] = x
      /\ \A k \in DOMAIN t : k # p => u[k] = t[k]
  BY <1>1, <1>2, <1>3
<1>5. \A k \in DOMAIN t : u[k].isproc = t[k].isproc
  BY <1>2, <1>4
<1>6. ProcsOf(u) = ProcsOf(t)
  BY <1>4, <1>5 DEF ProcsOf
<1>7. ActiveProcsOf(u) = ActiveProcsOf(t) \cup {p} /\ p \notin ActiveProcsOf(t)
  BY <1>2, <1>4 DEF ActiveProcsOf
<1>8. ActiveOf(u) = ActiveOf(t) \cup {p} /\ p \notin ActiveOf(t)
  BY <1>2, <1>4 DEF ActiveOf
<1>9. ActiveProcsOf(t) \in SUBSET (1 .. Len(t)) /\ ActiveOf(t) \in SUBSET (1 .. Len(t))
  BY <1>1 DEF ActiveProcsOf, ActiveOf
<1>10. Cardinality(ActiveProcsOf(u)) = Cardinality(ActiveProcsOf(t)) + 1
  BY <1>1, <1>7, <1>9, CountGrows
<1>11. Cardinality(ActiveOf(u)) = Cardinality(ActiveOf(t)) + 1
  BY <1>1, <1>8, <1>9, CountGrows
<1> QED
  BY <1>4, <1>5, <1>6, <1>10, <1>11 DEF u

LEMMA ChargeType ==
  ASSUME charged \in [Incs -> Nat], NEW i \in Incs, NEW n \in Nat
  PROVE  Charge(i, n) \in [Incs -> Nat]
<1>1. MaxUse \in Nat
  BY TaskAssumption
<1> DEFINE x == IF charged[i] + n > MaxUse THEN MaxUse + 1 ELSE charged[i] + n
<1>2. x \in Nat
  BY <1>1
<1>3. Charge(i, n) = [charged EXCEPT ![i] = x]
  BY DEF Charge
<1> HIDE DEF x
<1> QED
  BY <1>2, <1>3

\* What is shown of a task that is present.
LEMMA DiffType ==
  ASSUME NEW cur \in Task, NEW pre \in 0 .. MaxUse, NEW inactive \in BOOLEAN, NEW new \in BOOLEAN
  PROVE  /\ calcdiff(cur, pre, inactive, new) \in Shown
         /\ calcdiff(cur, pre, inactive, new).isproc = cur.isproc
         /\ calcdiff(cur, pre, inactive, new).wasinactive = inactive
         /\ calcdiff(cur, pre, inactive, new).use \in Nat
         /\ calcdiff(cur, pre, inactive, new).use = IF inactive THEN 0 ELSE Ticks(cur.use, pre)
         /\ pre <= cur.use => Ticks(cur.use, pre) = cur.use - pre
<1>1. MaxUse \in Nat /\ MAX32BITVAL \in Nat /\ MaxUse <= MAX32BITVAL
  BY TaskAssumption
<1>2. cur.use \in 0 .. MaxUse /\ cur.pid \in Pids /\ cur.isproc \in BOOLEAN /\ cur.btime \in Times
  BY TaskFields
<1>3. Ticks(cur.use, pre) \in Nat /\ (pre <= cur.use => Ticks(cur.use, pre) = cur.use - pre)
  BY <1>1, <1>2 DEF Ticks, subcount, TotUsed
<1>4. PICK n \in Nat : n = IF inactive THEN 0 ELSE Ticks(cur.use, pre)
  BY <1>3
<1>5. calcdiff(cur, pre, inactive, new) =
        [pid |-> cur.pid, isproc |-> cur.isproc, btime |-> cur.btime, wasinactive |-> inactive, new |-> new, use |-> n]
  BY <1>4 DEF calcdiff
<1>6. calcdiff(cur, pre, inactive, new) \in Shown
  BY <1>2, <1>5 DEF Shown
<1> QED
  BY <1>3, <1>4, <1>5, <1>6

---------------------------------------------------------------------------
(* The loops of deviattask.                                                  *)

LEMMA SameCounts ==
  /\ IsProcs = ProcsOf(taskall) /\ ActiveProcs = ActiveProcsOf(taskall) /\ ActiveTasks = ActiveOf(taskall)
  /\ IsProcs' = ProcsOf(taskall') /\ ActiveProcs' = ActiveProcsOf(taskall') /\ ActiveTasks' = ActiveOf(taskall')
BY DEF IsProcs, ActiveProcs, ActiveTasks, ProcsOf, ActiveProcsOf, ActiveOf

\* What the second loop shows for the record r, and the entry it is compared with.
Before(r) == IF Former(r) = Anchor THEN Zero ELSE Former(r)
Ending(r) ==
  [pid |-> IF r.pid = NoPid THEN Before(r).pid ELSE r.pid, isproc |-> TRUE, btime |-> r.btime,
   wasinactive |-> FALSE, new |-> Before(r).pid = NoPid,
   use |-> IF r.use > Before(r).use THEN r.use - Before(r).use ELSE 0,
   net |-> netatop_exitfind(r, Before(r))]

LEMMA EndingType ==
  ASSUME KernelInv, BaseTypes, ToSet(presidue) \subseteq Stored, NEW r \in Ended
  PROVE  /\ Ending(r) \in Report /\ Ending(r).isproc = TRUE /\ Ending(r).wasinactive = FALSE
         /\ Ending(r).use \in Nat /\ Before(r).pid \in Pids \cup {NoPid} /\ Before(r).use \in 0 .. MaxUse
         /\ Ending(r).use = IF r.use > Before(r).use THEN r.use - Before(r).use ELSE 0
         /\ Ending(r).net = netatop_exitfind(r, Before(r))
<1>0. MaxUse \in Nat /\ r.use \in 0 .. MaxUse /\ r.pid \in Pids \cup {NoPid} /\ r.btime \in Times
  BY TaskAssumption DEF Ended
<1>1. Before(r).pid \in Pids \cup {NoPid} /\ Before(r).use \in 0 .. MaxUse
  <2>1. CASE Former(r) = Anchor
    <3>1. Before(r) = Zero
      BY <2>1 DEF Before
    <3>2. Zero.pid = NoPid /\ Zero.use = 0
      BY DEF Zero
    <3> QED
      BY <1>0, <3>1, <3>2
  <2>2. CASE Former(r) # Anchor
    <3>1. Former(r) \in Stored /\ Before(r) = Former(r)
      BY <2>2, FormerFacts DEF Before
    <3>2. Before(r) \in Task
      BY <3>1, StoredPlace
    <3> QED
      BY <3>2, TaskFields
  <2> QED
    BY <2>1, <2>2
<1>2. netatop_exitfind(r, Before(r)) \in Int
  <2> DEFINE found == ExitMatches(r, Before(r))
  <2>1. found \subseteq DOMAIN netexits
    BY DEF ExitMatches
  <2>2. DOMAIN netexits \subseteq Nat /\ \A k \in DOMAIN netexits : netexits[k].net \in Int
    <3>1. netexits \in Seq(Traffic)
      BY DEF KernelInv
    <3>2. \A x \in Traffic : x.net \in Int
      BY DEF Traffic
    <3> QED
      BY <3>1, <3>2
  <2>3. netatop_exitfind(r, Before(r)) =
          IF found = {} THEN 0 ELSE netexits[CHOOSE k \in found : \A l \in found : k <= l].net - Before(r).use
    BY Zenon DEF netatop_exitfind
  <2> HIDE DEF found
  <2>4. CASE found = {}
    BY <2>3, <2>4
  <2>5. CASE found # {}
    <3>1. \E k \in found : \A l \in found : k <= l
      BY <2>1, <2>2, <2>5, SmallestElement
    <3>2. PICK k : k = CHOOSE x \in found : \A l \in found : x <= l
      OBVIOUS
    <3>3. k \in found
      BY <3>1, <3>2
    <3>4. netexits[k].net \in Int
      BY <2>1, <2>2, <3>3
    <3> QED
      BY <1>1, <2>3, <2>5, <3>2, <3>4
  <2> QED
    BY <2>4, <2>5
<1>3. PICK u \in Nat : u = IF r.use > Before(r).use THEN r.use - Before(r).use ELSE 0
  BY <1>0, <1>1
<1>4. PICK p \in Pids \cup {NoPid} : p = IF r.pid = NoPid THEN Before(r).pid ELSE r.pid
  BY <1>0, <1>1
<1>5. PICK new \in BOOLEAN : new = (Before(r).pid = NoPid)
  OBVIOUS
<1>6. PICK net \in Int : net = netatop_exitfind(r, Before(r))
  BY <1>2
<1>7. Ending(r) = [pid |-> p, isproc |-> TRUE, btime |-> r.btime, wasinactive |-> FALSE, new |-> new, use |-> u, net |-> net]
  BY <1>3, <1>4, <1>5, <1>6 DEF Ending
<1>8. Ending(r) \in ShownEnded
  BY <1>0, <1>7 DEF ShownEnded
<1> QED
  BY <1>1, <1>3, <1>6, <1>7, <1>8 DEF Report

\* The parts of a pass of the second loop.
LEMMA ExitedTaskParts ==
  ASSUME ExitedTask
  PROVE  LET r == gone[c] IN
         /\ phase = "exited" /\ c <= Len(gone) /\ c' = c + 1
         /\ Former(r) = Anchor => UNCHANGED <<phash, presidue>>
         /\ Former(r) # Anchor =>
              \/ r.pid = NoPid /\ pdb_deltask(Former(r).pid, Former(r).isproc, presidue)
              \/ r.pid # NoPid /\ pdb_deltask(Former(r).pid, Former(r).isproc, Unchained(Former(r)))
         /\ netexits' = IF Byp THEN netexits
                        ELSE [k \in DOMAIN netexits |->
                                [netexits[k] EXCEPT !.isused = @ \/ k \in ExitMatches(r, Before(r))]]
         /\ taskall' = Append(taskall, Ending(r)) /\ charged' = Charge(r.inc, Ending(r).use)
         /\ devtstat' = [n \in DOMAIN devtstat |-> devtstat[n] + 1]
         /\ UNCHANGED <<acct, now, kern, exits, phase, pr, pretime, present, gone, prev, missed>>
<1> DEFINE r == gone[c]
<1>1. /\ phase = "exited" /\ c <= Len(gone) /\ c' = c + 1
      /\ devtstat' = [n \in DOMAIN devtstat |-> devtstat[n] + 1]
      /\ UNCHANGED <<acct, now, kern, exits, phase, pr, pretime, present, gone, prev, missed>>
  BY DEF ExitedTask
<1>2. /\ Former(r) = Anchor => UNCHANGED <<phash, presidue>>
      /\ Former(r) # Anchor =>
           pdb_deltask(Former(r).pid, Former(r).isproc, IF r.pid = NoPid THEN presidue ELSE Unchained(Former(r)))
  BY DEF ExitedTask
<1>3. /\ netexits' = IF Byp THEN netexits
                     ELSE [k \in DOMAIN netexits |->
                             [netexits[k] EXCEPT !.isused = @ \/ k \in ExitMatches(r, Before(r))]]
      /\ taskall' = Append(taskall, Ending(r)) /\ charged' = Charge(r.inc, Ending(r).use)
  BY DEF ExitedTask, Before, Ending
<1> QED
  BY <1>1, <1>2, <1>3

LEMMA ExitedTaskKeeps ==
  ASSUME KernelInv, DataInv, ExitedTask
  PROVE  KernelInv' /\ DataInv'
<1> DEFINE r == gone[c]
           old == Former(r)
<1>1. /\ phase = "exited" /\ c <= Len(gone) /\ c' = c + 1
      /\ old = Anchor => UNCHANGED <<phash, presidue>>
      /\ old # Anchor =>
           \/ r.pid = NoPid /\ pdb_deltask(old.pid, old.isproc, presidue)
           \/ r.pid # NoPid /\ pdb_deltask(old.pid, old.isproc, Unchained(old))
      /\ netexits' = IF Byp THEN netexits
                     ELSE [k \in DOMAIN netexits |->
                             [netexits[k] EXCEPT !.isused = @ \/ k \in ExitMatches(r, Before(r))]]
      /\ taskall' = Append(taskall, Ending(r)) /\ charged' = Charge(r.inc, Ending(r).use)
      /\ devtstat' = [n \in DOMAIN devtstat |-> devtstat[n] + 1]
      /\ UNCHANGED <<acct, now, kern, exits, phase, pr, pretime, present, gone, prev, missed>>
  BY ExitedTaskParts
<1>2. /\ BaseTypes /\ Sampling /\ presidue \in Seq(Task) /\ OneEach(presidue) /\ Single(prev) /\ prev \subseteq Task
      /\ ToSet(presidue) \subseteq prev \cap Stored
      /\ \A b \in Queues : QueueOK(phash[b], prev, ToSet(presidue))
  BY <1>1 DEF DataInv, ChainInv, BaseTypes, SampleTypes, Sampling, ToVisit
<1>3. r \in Ended
  <2>1. gone \in Seq(Ended) /\ c \in Nat \ {0}
    BY DEF DataInv, SampleTypes
  <2> QED
    BY <1>1, <2>1
<1>4. /\ Ending(r) \in Report /\ Ending(r).isproc = TRUE /\ Ending(r).wasinactive = FALSE
      /\ Ending(r).use \in Nat
  BY <1>2, <1>3, EndingType
<1>5. old \in {Anchor} \cup Stored
  BY <1>2, <1>3, FormerFacts
<1> HIDE DEF r, old
<1>6. KernelInv'
  <2>1. netexits' \in Seq(Traffic)
    <3>0. netexits \in Seq(Traffic)
      BY DEF KernelInv
    <3>1. CASE Byp
      BY <1>1, <3>0, <3>1
    <3>2. CASE ~Byp
      <4> DEFINE x(k) == [netexits[k] EXCEPT !.isused = @ \/ k \in ExitMatches(r, Before(r))]
      <4>1. ASSUME NEW k \in DOMAIN netexits PROVE x(k) \in Traffic
        <5>1. netexits[k] \in Traffic
          BY <3>0
        <5>2. PICK b \in BOOLEAN : b = (netexits[k].isused \/ k \in ExitMatches(r, Before(r)))
          OBVIOUS
        <5>3. x(k) = [netexits[k] EXCEPT !.isused = b]
          BY <5>2
        <5> QED
          BY <5>1, <5>3 DEF Traffic
      <4>2. netexits' = [k \in DOMAIN netexits |-> x(k)]
        BY <1>1, <3>2
      <4> HIDE DEF x
      <4>3. netexits' \in [1 .. Len(netexits) -> Traffic] /\ Len(netexits) \in Nat
        BY <3>0, <4>1, <4>2
      <4> QED
        BY <4>3, FunctionIsSeq
    <3> QED
      BY <3>1, <3>2
  <2>2. exits' \in Seq(Ended)
    BY <1>1 DEF KernelInv
  <2> QED
    BY <1>1, <2>1, <2>2, RecordsKeep
<1>7. /\ phash' \in [Queues -> Seq(Task)] /\ presidue' \in Seq(Task) /\ OneEach(presidue')
      /\ \A b \in Queues : \A k \in DOMAIN phash'[b] : Bucket(phash'[b][k].pid) = b
      /\ ToSet(presidue') \subseteq prev \cap Stored'
      /\ \A b \in Queues : QueueOK(phash'[b], prev, ToSet(presidue'))
  <2>1. CASE old = Anchor
    <3>1. phash' = phash /\ presidue' = presidue /\ Stored' = Stored
      BY <1>1, <2>1 DEF Stored
    <3> QED
      BY <1>2, <3>1 DEF BaseTypes
  <2>2. CASE old # Anchor
    <3>1. old \in Stored
      BY <1>5, <2>2
    <3>2. /\ Unchained(old) \in Seq(Task) /\ OneEach(Unchained(old)) /\ ToSet(Unchained(old)) = ToSet(presidue) \ {old}
      BY <1>2, RemoveFirstFacts DEF Unchained
    <3>3. PICK chain \in Seq(Task) : /\ OneEach(chain) /\ pdb_deltask(old.pid, old.isproc, chain)
                                    /\ ToSet(chain) \subseteq ToSet(presidue)
                                    /\ \A x \in ToSet(presidue) : x # old => x \in ToSet(chain)
      BY <1>1, <1>2, <2>2, <3>2
    <3>4. PICK v : v = Victim(old)
      OBVIOUS
    <3>5. /\ v \in Stored /\ SameKey(v, old) /\ phash' \in [Queues -> Seq(Task)]
          /\ \A b \in Queues : \A k \in DOMAIN phash'[b] : Bucket(phash'[b][k].pid) = b
          /\ Stored' \subseteq Stored /\ \A f \in Stored : f # v => f \in Stored'
          /\ presidue' \in Seq(Task) /\ OneEach(presidue') /\ ToSet(presidue') = ToSet(chain) \ {v}
      BY <1>2, <3>1, <3>3, <3>4, DeleteFacts
    <3>6. \A x \in ToSet(presidue) : ~SameKey(x, old) => x \in ToSet(presidue')
      BY <3>3, <3>5 DEF SameKey
    <3>7. ToSet(presidue) \subseteq prev
      BY <1>2
    <3>8. \A b \in Queues : QueueOK(phash'[b], prev, ToSet(presidue'))
      BY <1>2, <3>1, <3>3, <3>6, <3>7, DeleteQueues
    <3> QED
      BY <1>2, <3>3, <3>5, <3>8
  <2> QED
    BY <2>1, <2>2
<1>8. CountsTo(taskall, Ending(r), taskall')
  <2>1. taskall \in Seq(Report)
    BY DEF DataInv, SampleTypes, Report
  <2> QED
    BY <1>1, <1>4, <2>1, AppendCounts
<1>9. BaseTypes'
  BY <1>1, <1>7 DEF DataInv, BaseTypes
<1>10. devtstat' \in [nprocall : Nat, nprocactive : Nat, ntaskactive : Nat]
       /\ devtstat'.nprocall = devtstat.nprocall + 1 /\ devtstat'.nprocactive = devtstat.nprocactive + 1
       /\ devtstat'.ntaskactive = devtstat.ntaskactive + 1
  <2>1. devtstat \in [nprocall : Nat, nprocactive : Nat, ntaskactive : Nat]
    BY DEF DataInv, SampleTypes
  <2> QED
    BY <1>1, <2>1
<1>11. SampleTypes'
  <2>1. charged' \in [Incs -> Nat]
    <3>1. r.inc \in Incs /\ charged \in [Incs -> Nat]
      BY <1>3 DEF Ended, DataInv, SampleTypes
    <3> QED
      BY <1>1, <1>4, <3>1, ChargeType
  <2>2. taskall' \in Seq(Shown \cup ShownEnded)
    BY <1>8 DEF CountsTo, Report
  <2>3. c' \in Nat \ {0}
    BY <1>1 DEF DataInv, SampleTypes
  <2> QED
    BY <1>1, <1>10, <2>1, <2>2, <2>3 DEF DataInv, SampleTypes
<1>12. Sampling' /\ ToVisit' = ToSet(presidue') /\ Unmet'
  BY <1>1 DEF Sampling, ToVisit, Unmet
<1>13. ChainInv'
  <2>1. \A b \in Queues : QueueOK(phash'[b], prev', ToVisit')
    BY <1>1, <1>7, <1>12
  <2>2. OneEach(present') /\ Single(prev')
    BY <1>1 DEF DataInv, ChainInv
  <2> QED
    BY <1>1, <1>7, <1>12, <2>1, <2>2 DEF ChainInv
<1>14. ListInv'
  <2>1. /\ devtstat.nprocall = Cardinality(IsProcs) /\ devtstat.nprocactive = Cardinality(ActiveProcs)
        /\ devtstat.ntaskactive = Cardinality(ActiveTasks) /\ c <= Len(gone) + 1
        /\ Len(taskall) = Len(present) + c - 1
    BY <1>1, <1>2 DEF DataInv, ListInv
  <2>2. /\ devtstat'.nprocall = Cardinality(IsProcs') /\ devtstat'.nprocactive = Cardinality(ActiveProcs')
        /\ devtstat'.ntaskactive = Cardinality(ActiveTasks')
    BY <1>4, <1>8, <1>10, <2>1, SameCounts DEF CountsTo
  <2>3. c' <= Len(gone) + 1 /\ Len(taskall') = Len(present) + c' - 1
    <3>1. Len(gone) \in Nat /\ Len(present) \in Nat /\ c \in Nat /\ Len(taskall') = Len(taskall) + 1
      BY <1>8 DEF DataInv, SampleTypes, CountsTo
    <3> QED
      BY <1>1, <2>1, <3>1
  <2> QED
    BY <1>1, <1>12, <2>2, <2>3 DEF DataInv, ListInv
<1> QED
  BY <1>6, <1>9, <1>11, <1>13, <1>14 DEF DataInv

\* What the first loop finds of a task, and what it shows.
Found(cur) == pdb_gettask(cur.pid, cur.isproc, cur.btime)
Known(cur) == phash[Bucket(cur.pid)][Found(cur)]
Same(cur) == Found(cur) # 0 /\ Known(cur) = cur
Lasting(cur) ==
  calcdiff(cur, IF Found(cur) = 0 THEN 0 ELSE Known(cur).use, Same(cur), Found(cur) = 0)
Waking(cur) == ~Same(cur) /\ WakesProcess(cur)
Growth(cur) == IF Same(cur) THEN 0 ELSE IF Waking(cur) THEN 2 ELSE 1

LEMMA PresentTaskParts ==
  ASSUME PresentTask
  PROVE  LET cur == present[c] IN
         /\ phase = "present" /\ c <= Len(present) /\ c' = c + 1
         /\ Found(cur) = 0 => phash' = pdb_addtask(cur) /\ presidue' = presidue
         /\ Found(cur) # 0 =>
              /\ phash' = [phash EXCEPT ![Bucket(cur.pid)] = [@ EXCEPT ![Found(cur)] = cur]]
              /\ presidue' = Unchained(Known(cur))
         /\ taskall' = Append(IF Waking(cur) THEN Woken(taskall, ThisProc) ELSE taskall, Lasting(cur))
         /\ devtstat' = [devtstat EXCEPT
              !.nprocall = IF cur.isproc THEN @ + 1 ELSE @,
              !.ntaskactive = @ + Growth(cur),
              !.nprocactive = @ + ProcsActive(cur, Growth(cur), Waking(cur))]
         /\ charged' = IF cur.isproc THEN Charge(Inc(cur), Lasting(cur).use) ELSE charged
         /\ UNCHANGED <<world, phase, pr, pretime, present, gone, prev, missed>>
<1> DEFINE cur == present[c]
<1>1. /\ phase = "present" /\ c <= Len(present) /\ c' = c + 1
      /\ UNCHANGED <<world, phase, pr, pretime, present, gone, prev, missed>>
  BY Zenon DEF PresentTask
<1>2. /\ Found(cur) = 0 => phash' = pdb_addtask(cur) /\ presidue' = presidue
      /\ Found(cur) # 0 =>
           /\ phash' = [phash EXCEPT ![Bucket(cur.pid)] = [@ EXCEPT ![Found(cur)] = cur]]
           /\ presidue' = Unchained(Known(cur))
  BY DEF PresentTask, Found, Known, Refreshed
<1>3. taskall' = Append(IF Waking(cur) THEN Woken(taskall, ThisProc) ELSE taskall, Lasting(cur))
  BY Zenon DEF PresentTask, Found, Known, Same, Waking, Woken, Lasting
<1>4. devtstat' = [devtstat EXCEPT
              !.nprocall = IF cur.isproc THEN @ + 1 ELSE @,
              !.ntaskactive = @ + Growth(cur),
              !.nprocactive = @ + ProcsActive(cur, Growth(cur), Waking(cur))]
  BY Zenon DEF PresentTask, Found, Known, Same, Waking, Growth
<1>5. charged' = IF cur.isproc THEN Charge(Inc(cur), Lasting(cur).use) ELSE charged
  BY Zenon DEF PresentTask, Found, Known, Same, Waking, Lasting
<1> QED
  BY <1>1, <1>2, <1>3, <1>4, <1>5

LEMMA LastingFacts ==
  ASSUME BaseTypes, NEW cur \in Task
  PROVE  /\ Lasting(cur) \in Report /\ Lasting(cur).isproc = cur.isproc
         /\ Lasting(cur).wasinactive <=> Same(cur)
         /\ Lasting(cur).use \in Nat
         /\ Found(cur) # 0 => Known(cur) \in Stored /\ SameKey(Known(cur), cur) /\ Near(Known(cur).btime, cur.btime)
         /\ Found(cur) # 0 => Bucket(cur.pid) \in Queues /\ Found(cur) \in DOMAIN phash[Bucket(cur.pid)]
         /\ Found(cur) = 0 /\ ~Same(cur) => Lasting(cur).use = cur.use
         /\ Found(cur) # 0 /\ Known(cur).use <= cur.use => Lasting(cur).use = cur.use - Known(cur).use
<1>1. PICK k : k = Found(cur)
  OBVIOUS
<1>2. k # 0 => /\ Bucket(cur.pid) \in Queues /\ k \in DOMAIN phash[Bucket(cur.pid)]
               /\ Known(cur) = phash[Bucket(cur.pid)][k]
               /\ SameKey(Known(cur), cur) /\ Near(Known(cur).btime, cur.btime)
  <2>1. cur.pid \in Pids
    BY TaskFields
  <2> QED
    BY <1>1, <2>1, GettaskFacts DEF Found, Known, SameKey
<1>3. k # 0 => Known(cur) \in Stored /\ Known(cur) \in Task
  BY <1>2, PlaceStored
<1>4. MaxUse \in Nat /\ cur.use \in 0 .. MaxUse
  BY TaskAssumption, TaskFields
<1>5. PICK pre \in 0 .. MaxUse : pre = IF k = 0 THEN 0 ELSE Known(cur).use
  BY <1>3, <1>4, TaskFields
<1>6. PICK same \in BOOLEAN : same <=> Same(cur)
  OBVIOUS
<1>7. PICK new \in BOOLEAN : new <=> (k = 0)
  OBVIOUS
<1>8. Lasting(cur) = calcdiff(cur, pre, same, new)
  <2>1. same = Same(cur) /\ new = (Found(cur) = 0)
    BY <1>1, <1>6, <1>7 DEF Same
  <2>2. pre = IF Found(cur) = 0 THEN 0 ELSE Known(cur).use
    BY <1>1, <1>5
  <2>3. calcdiff(cur, pre, Same(cur), Found(cur) = 0) = calcdiff(cur, pre, same, new)
    BY <2>1, Zenon
  <2> QED
    BY <2>2, <2>3, Zenon DEF Lasting
<1> DEFINE d == calcdiff(cur, pre, same, new)
<1>9. /\ d \in Shown /\ d.isproc = cur.isproc /\ d.wasinactive = same /\ d.use \in Nat
      /\ d.use = IF same THEN 0 ELSE Ticks(cur.use, pre)
      /\ pre <= cur.use => Ticks(cur.use, pre) = cur.use - pre
  BY DiffType
<1> HIDE DEF d
<1>10. Found(cur) = 0 /\ ~Same(cur) => d.use = cur.use
  BY <1>1, <1>4, <1>5, <1>6, <1>9
<1>11. Found(cur) # 0 /\ Known(cur).use <= cur.use => d.use = cur.use - Known(cur).use
  <2> SUFFICES ASSUME Found(cur) # 0, Known(cur).use <= cur.use PROVE d.use = cur.use - Known(cur).use
    OBVIOUS
  <2>1. CASE same
    <3>1. Known(cur) = cur /\ d.use = 0
      BY <1>6, <1>9, <2>1 DEF Same
    <3> QED
      BY <1>4, <3>1
  <2>2. CASE ~same
    BY <1>1, <1>5, <1>9, <2>2
  <2> QED
    BY <2>1, <2>2
<1> QED
  BY <1>1, <1>2, <1>3, <1>6, <1>8, <1>9, <1>10, <1>11 DEF d, Report

\* A thread is behind the entry of its process.
LEMMA ThisProcFacts ==
  ASSUME DataInv, phase = "present", c <= Len(present), ~present[c].isproc
  PROVE  ThisProc \in DOMAIN taskall /\ taskall[ThisProc].isproc
<1> DEFINE I == {k \in 1 .. Len(taskall) : taskall[k].isproc}
<1>0. /\ c \in Nat \ {0} /\ Len(present) \in Nat /\ taskall \in Seq(Report) /\ DOMAIN taskall = 1 .. Len(taskall)
      /\ Len(taskall) \in Nat
  BY DEF DataInv, SampleTypes, Report
<1>1. /\ Len(taskall) = c - 1 /\ \A k \in DOMAIN taskall : taskall[k].isproc = present[k].isproc
      /\ present # << >> => present[1].isproc
  BY DEF DataInv, ListInv
<1>2. 1 \in I
  <2>1. present # << >>
    BY <1>0
  <2>2. c # 1
    BY <1>1, <2>1
  <2>3. 1 \in DOMAIN taskall
    BY <1>0, <1>1, <2>2
  <2> QED
    BY <1>0, <1>1, <2>1, <2>3
<1>3. ThisProc = Max(I)
  BY <1>2 DEF ThisProc, SelectLastInSeq
<1>4. Max(I) \in I
  <2>1. I \in SUBSET (1 .. Len(taskall)) /\ I # {}
    BY <1>2
  <2> HIDE DEF I
  <2> QED
    BY <1>0, <2>1, GreatestOf
<1>5. PICK m \in I : m = ThisProc
  BY <1>3, <1>4
<1> QED
  BY <1>0, <1>5

\* The database and RESIDUE after a pass of the first loop.
LEMMA PresentBase ==
  ASSUME DataInv, PresentTask
  PROVE  /\ phash' \in [Queues -> Seq(Task)] /\ presidue' \in Seq(Task) /\ OneEach(presidue')
         /\ \A b \in Queues : \A k \in DOMAIN phash'[b] : Bucket(phash'[b][k].pid) = b
         /\ ToSet(presidue') \subseteq prev \cap Stored'
         /\ \A b \in Queues : QueueOK(phash'[b], prev, ToSet(presidue'))
         /\ Unmet'
         /\ LET cur == present[c] IN
            /\ Stored' \subseteq Stored \cup {cur} /\ cur \in Stored'
            /\ \A e \in Stored : ~SameKey(e, cur) => e \in Stored'
            /\ ToSet(presidue') \subseteq ToSet(presidue)
            /\ Found(cur) # 0 => ToSet(presidue') = ToSet(presidue) \ {Known(cur)}
            /\ Found(cur) # 0 => Known(cur) \in ToSet(presidue)
<1>1. PICK cur \in Task : cur = present[c] /\ c \in 1 .. Len(present)
  <2>1. c \in 1 .. Len(present) /\ present \in Seq(Task)
    BY PresentTaskParts DEF DataInv, SampleTypes
  <2> QED
    BY <2>1
<1>2. /\ phase = "present" /\ c' = c + 1
      /\ Found(cur) = 0 => phash' = pdb_addtask(cur) /\ presidue' = presidue
      /\ Found(cur) # 0 =>
           /\ phash' = [phash EXCEPT ![Bucket(cur.pid)] = [@ EXCEPT ![Found(cur)] = cur]]
           /\ presidue' = Unchained(Known(cur))
      /\ UNCHANGED <<phase, present, prev>>
  BY <1>1, PresentTaskParts
<1>3. /\ BaseTypes /\ Sampling /\ presidue \in Seq(Task) /\ OneEach(presidue) /\ Single(prev) /\ prev \subseteq Task
      /\ ToSet(presidue) \subseteq prev /\ ToSet(presidue) \subseteq Stored /\ OneEach(present)
      /\ \A b \in Queues : QueueOK(phash[b], prev, ToSet(presidue))
      /\ phash \in [Queues -> Seq(Task)] /\ Unmet
      /\ \A b \in Queues : \A k \in DOMAIN phash[b] : Bucket(phash[b][k].pid) = b
  BY <1>2 DEF DataInv, ChainInv, BaseTypes, SampleTypes, Sampling, ToVisit
<1>4. \A e \in prev \cup Stored : SameKey(e, cur) => e \in ToSet(presidue)
  <2>1. c \in c .. Len(present)
    BY <1>1
  <2> QED
    BY <1>1, <1>2, <1>3, <2>1 DEF Unmet
<1>5. PICK b \in Queues : b = Bucket(cur.pid)
  BY TaskFields, BucketType
<1> DEFINE q == phash[b]
           Q == phash'[b]
<1>6. q \in Seq(Task) /\ DOMAIN q \subseteq Int /\ \A l \in DOMAIN q : q[l] \in Stored
  BY <1>3, PlaceStored DEF BaseTypes
<1>7. /\ phash' \in [Queues -> Seq(Task)] /\ presidue' \in Seq(Task) /\ OneEach(presidue')
      /\ \A a \in Queues : a # b => phash'[a] = phash[a]
      /\ \A l \in DOMAIN Q : Q[l] = cur \/ Q[l] \in Stored
      /\ \A e \in Stored : e \in ToSet(presidue') \/ ~SameKey(e, cur) => e \in StoredIn(phash')
      /\ cur \in StoredIn(phash')
      /\ QueueOK(Q, prev, ToSet(presidue'))
      /\ ToSet(presidue') \subseteq ToSet(presidue)
      /\ \A e \in ToSet(presidue) : ~SameKey(e, cur) => e \in ToSet(presidue')
      /\ Found(cur) # 0 => ToSet(presidue') = ToSet(presidue) \ {Known(cur)}
  <2>1. CASE Found(cur) = 0
    <3>1. phash' = [phash EXCEPT ![b] = <<cur>> \o q] /\ presidue' = presidue
      BY <1>2, <1>5, <2>1 DEF pdb_addtask
    <3>2. Q = <<cur>> \o q /\ \A a \in Queues : a # b => phash'[a] = phash[a]
      BY <1>3, <3>1
    <3>3. \A l \in DOMAIN q : SameKey(q[l], cur) => q[l] \in ToSet(presidue) /\ ~Near(q[l].btime, cur.btime)
      <4>1. \A l \in DOMAIN q : ~(q[l].pid = cur.pid /\ q[l].isproc = cur.isproc /\ Near(q[l].btime, cur.btime))
        <5>1. cur.pid \in Pids
          BY TaskFields
        <5> QED
          BY <1>3, <1>5, <2>1, <5>1, GettaskFacts DEF Found
      <4> QED
        BY <1>4, <1>6, <4>1 DEF SameKey
    <3>4. ASSUME NEW p \in prev, SameKey(p, cur) PROVE \E l \in DOMAIN q : q[l] = p
      <4>1. p \in Stored
        BY <1>3, <1>4, <3>4
      <4>2. Bucket(p.pid) = b
        BY <1>5, <3>4 DEF SameKey
      <4> QED
        BY <1>3, <4>1, <4>2, StoredPlace
    <3>5. QueueOK(q, prev, ToSet(presidue))
      BY <1>3
    <3> HIDE DEF q
    <3>6. QueueOK(<<cur>> \o q, prev, ToSet(presidue))
      BY <1>3, <1>6, <3>3, <3>4, <3>5, QueueAdd
    <3>7. <<cur>> \o q \in Seq(Task) /\ \A l \in DOMAIN (<<cur>> \o q) : (<<cur>> \o q)[l] = cur \/ (<<cur>> \o q)[l] \in Stored
      <4>0. Len(q) \in Nat /\ DOMAIN q = 1 .. Len(q)
        BY <1>6
      <4>1. <<cur>> \o q \in Seq(Task) /\ Len(<<cur>> \o q) = Len(q) + 1 /\ (<<cur>> \o q)[1] = cur
            /\ \A l \in 1 .. Len(q) : (<<cur>> \o q)[l + 1] = q[l]
        BY <1>6
      <4>2. \A l \in DOMAIN (<<cur>> \o q) : l # 1 => l - 1 \in 1 .. Len(q) /\ (l - 1) + 1 = l
        BY <4>0, <4>1
      <4> QED
        BY <1>6, <4>0, <4>1, <4>2
    <3>8. phash' \in [Queues -> Seq(Task)]
      BY <1>3, <3>1, <3>7
    <3>9. ASSUME NEW e \in Stored PROVE e \in StoredIn(phash')
      <4>0. Stored = StoredIn(phash)
        BY DEF Stored, StoredIn
      <4>1. PICK a \in Queues : \E l \in DOMAIN phash[a] : e = phash[a][l]
        BY <1>3, <4>0, StoredAt
      <4>2. PICK l \in DOMAIN phash[a] : e = phash[a][l]
        BY <4>1
      <4>3. \E m \in DOMAIN phash'[a] : e = phash'[a][m]
        <5>1. CASE a = b
          <6>1. l \in 1 .. Len(q) /\ Len(q) \in Nat /\ e = q[l]
            BY <1>6, <4>2, <5>1 DEF q
          <6>2. l + 1 \in DOMAIN (<<cur>> \o q) /\ (<<cur>> \o q)[l + 1] = e
            BY <1>6, <6>1
          <6> QED
            BY <3>2, <5>1, <6>2
        <5>2. CASE a # b
          BY <3>2, <4>2, <5>2
        <5> QED
          BY <5>1, <5>2
      <4> QED
        BY <3>8, <4>3, StoredAt
    <3>10. cur \in StoredIn(phash')
      <4>1. 1 \in DOMAIN (<<cur>> \o q) /\ (<<cur>> \o q)[1] = cur
        BY <1>6
      <4> QED
        BY <3>2, <3>8, <4>1, StoredAt
    <3> QED
      BY <1>3, <2>1, <3>1, <3>2, <3>6, <3>7, <3>8, <3>9, <3>10
  <2>2. CASE Found(cur) # 0
    <3>1. PICK k \in DOMAIN q : k = Found(cur) /\ q[k] = Known(cur) /\ SameKey(q[k], cur) /\ Near(q[k].btime, cur.btime)
      BY <1>3, <1>5, <2>2, LastingFacts DEF Known
    <3> DEFINE u == [q EXCEPT ![k] = cur]
    <3>2. phash' = [phash EXCEPT ![b] = u] /\ presidue' = RemoveFirst(presidue, q[k])
      BY <1>2, <1>5, <2>2, <3>1 DEF Unchained
    <3>3. u \in Seq(Task) /\ DOMAIN u = DOMAIN q /\ u[k] = cur /\ \A l \in DOMAIN q : l # k => u[l] = q[l]
      BY <1>6, <3>1
    <3> HIDE DEF u
    <3>4. phash' \in [Queues -> Seq(Task)] /\ Q = u /\ \A a \in Queues : a # b => phash'[a] = phash[a]
      BY <1>3, <3>2, <3>3
    <3>5. presidue' \in Seq(Task) /\ OneEach(presidue') /\ ToSet(presidue') = ToSet(presidue) \ {q[k]}
      BY <1>3, <3>2, RemoveFirstFacts
    <3>6. \A l \in DOMAIN q : SameKey(q[l], cur) => l = k
      <4> SUFFICES ASSUME NEW l \in DOMAIN q, SameKey(q[l], cur), l # k PROVE FALSE
        OBVIOUS
      <4>1. q[l] \in prev /\ q[k] \in prev /\ SameKey(q[l], q[k]) /\ SameKey(q[k], q[l])
        BY <1>3, <1>4, <1>6, <3>1 DEF SameKey
      <4>2. q[l] = q[k]
        BY <1>3, <4>1 DEF Single
      <4>3. l < k \/ k < l
        BY <1>6
      <4>4. QueueOK(q, prev, ToSet(presidue))
        BY <1>3
      <4> HIDE DEF q
      <4> QED
        BY <4>1, <4>2, <4>3, <4>4 DEF QueueOK
    <3>7. QueueOK(u, prev, ToSet(presidue'))
      <4>1. QueueOK(q, prev, ToSet(presidue)) /\ q[k] \in prev
        BY <1>3, <1>4, <1>6, <3>1
      <4>2. \A v \in ToSet(presidue) : v # q[k] => v \in ToSet(presidue')
        BY <3>5
      <4> HIDE DEF q
      <4> QED
        BY <1>3, <1>6, <3>1, <3>6, <4>1, <4>2, QueueRefresh DEF u
    <3>8. ASSUME NEW e \in Stored, e \in ToSet(presidue') \/ ~SameKey(e, cur) PROVE e \in StoredIn(phash')
      <4>0. Stored = StoredIn(phash)
        BY DEF Stored, StoredIn
      <4>1. PICK a \in Queues : \E l \in DOMAIN phash[a] : e = phash[a][l]
        BY <1>3, <4>0, StoredAt
      <4>2. PICK l \in DOMAIN phash[a] : e = phash[a][l]
        BY <4>1
      <4>3. e # q[k]
        BY <3>1, <3>5, <3>8
      <4>4. l \in DOMAIN phash'[a] /\ e = phash'[a][l]
        BY <3>3, <3>4, <4>2, <4>3
      <4> QED
        BY <3>4, <4>4, StoredAt
    <3>9. \A l \in DOMAIN Q : Q[l] = cur \/ Q[l] \in Stored
      BY <1>6, <3>3, <3>4
    <3>10. \A e \in ToSet(presidue) : ~SameKey(e, cur) => e \in ToSet(presidue')
      BY <3>1, <3>5
    <3>11. cur \in StoredIn(phash')
      BY <3>3, <3>4, StoredAt
    <3> QED
      BY <3>1, <3>4, <3>5, <3>7, <3>8, <3>9, <3>10, <3>11
  <2> QED
    BY <2>1, <2>2
<1> HIDE DEF q, Q
<1>8. Stored' = StoredIn(phash')
  BY DEF Stored, StoredIn
<1>9. \A a \in Queues : \A l \in DOMAIN phash'[a] :
         Bucket(phash'[a][l].pid) = a /\ (phash'[a][l] = cur \/ phash'[a][l] \in Stored)
  <2> SUFFICES ASSUME NEW a \in Queues, NEW l \in DOMAIN phash'[a]
               PROVE  Bucket(phash'[a][l].pid) = a /\ (phash'[a][l] = cur \/ phash'[a][l] \in Stored)
    OBVIOUS
  <2>1. CASE a # b
    <3>1. phash'[a] = phash[a]
      BY <1>7, <2>1
    <3> QED
      BY <1>3, <3>1, PlaceStored
  <2>2. CASE a = b
    <3>1. phash'[a][l] = cur \/ (phash'[a][l] \in Stored)
      BY <1>7, <2>2 DEF Q
    <3>2. Bucket(phash'[a][l].pid) = a
      <4>1. CASE phash'[a][l] = cur
        BY <1>5, <2>2, <4>1
      <4>2. CASE Found(cur) = 0 /\ phash'[a][l] # cur
        <5>1. phash' = [phash EXCEPT ![b] = <<cur>> \o phash[b]]
          BY <1>2, <1>5, <4>2 DEF pdb_addtask
        <5>2. phash'[a] = <<cur>> \o phash[b] /\ phash[b] \in Seq(Task)
          BY <1>3, <2>2, <5>1
        <5>3. l - 1 \in DOMAIN phash[b] /\ phash'[a][l] = phash[b][l - 1]
          <6>1. PICK s \in Seq(Task) : s = phash[b]
            BY <5>2
          <6>2. l \in DOMAIN (<<cur>> \o s) /\ (<<cur>> \o s)[l] # cur
            BY <4>2, <5>2, <6>1
          <6>3. l \in 1 .. Len(s) + 1 /\ l # 1
            BY <6>2
          <6>4. l - 1 \in DOMAIN s /\ (<<cur>> \o s)[l] = s[l - 1]
            BY <6>3
          <6> QED
            BY <5>2, <6>1, <6>4
        <5> QED
          BY <1>3, <2>2, <5>3
      <4>3. CASE Found(cur) # 0 /\ phash'[a][l] # cur
        <5>1. phash' = [phash EXCEPT ![b] = [phash[b] EXCEPT ![Found(cur)] = cur]]
          BY <1>2, <1>5, <4>3
        <5>2. phash'[a] = [phash[b] EXCEPT ![Found(cur)] = cur]
          BY <1>3, <2>2, <5>1
        <5>3. l \in DOMAIN phash[b] /\ phash'[a][l] = phash[b][l]
          BY <4>3, <5>2
        <5> QED
          BY <1>3, <2>2, <5>3
      <4> QED
        BY <4>1, <4>2, <4>3
    <3> QED
      BY <3>1, <3>2
  <2> QED
    BY <2>1, <2>2
<1>10. Stored' \subseteq Stored \cup {cur}
  <2> SUFFICES ASSUME NEW e \in StoredIn(phash') PROVE e \in Stored \cup {cur}
    BY <1>8
  <2>1. \E a \in Queues : \E l \in DOMAIN phash'[a] : e = phash'[a][l]
    BY <1>7, StoredAt
  <2> QED
    BY <1>9, <2>1
<1>11. ToSet(presidue') \subseteq prev \cap Stored'
  BY <1>3, <1>7, <1>8
<1>12. \A a \in Queues : QueueOK(phash'[a], prev, ToSet(presidue'))
  <2> SUFFICES ASSUME NEW a \in Queues PROVE QueueOK(phash'[a], prev, ToSet(presidue'))
    OBVIOUS
  <2>1. CASE a = b
    BY <1>7, <2>1 DEF Q
  <2>2. CASE a # b
    <3>1. phash'[a] = phash[a]
      BY <1>7, <2>2
    <3>2. \A l \in DOMAIN phash[a] : ~SameKey(phash[a][l], cur)
      BY <1>3, <1>5, <2>2 DEF SameKey
    <3>3. QueueOK(phash[a], prev, ToSet(presidue))
      BY <1>3
    <3>4. QueueOK(phash[a], prev, ToSet(presidue'))
      BY <1>7, <3>2, <3>3 DEF QueueOK
    <3> QED
      BY <3>1, <3>4
  <2> QED
    BY <2>1, <2>2
<1>13. Unmet'
  <2> SUFFICES ASSUME NEW l \in c + 1 .. Len(present), NEW e \in prev \cup Stored', SameKey(e, present[l])
               PROVE  e \in ToSet(presidue')
    BY <1>2 DEF Unmet
  <2>1. l \in DOMAIN present /\ l # c /\ c \in DOMAIN present /\ l \in c .. Len(present)
    <3>1. DOMAIN present = 1 .. Len(present) /\ Len(present) \in Nat
      BY DEF DataInv, SampleTypes
    <3> QED
      BY <1>1, <3>1
  <2>2. ~SameKey(cur, present[l])
    BY <1>1, <1>3, <2>1 DEF OneEach
  <2>3. e # cur /\ ~SameKey(e, cur)
    BY <2>2 DEF SameKey
  <2>4. e \in prev \cup Stored
    BY <1>10, <2>3
  <2>5. e \in ToSet(presidue)
    BY <1>2, <1>3, <2>1, <2>4 DEF Unmet
  <2> QED
    BY <1>7, <2>3, <2>5
<1>14. Found(cur) # 0 => Known(cur) \in ToSet(presidue)
  BY <1>3, <1>4, LastingFacts
<1> QED
  BY <1>1, <1>7, <1>8, <1>9, <1>10, <1>11, <1>12, <1>13, <1>14

\* The list of the tasks and its counters after a pass of the first loop.
LEMMA PresentLists ==
  ASSUME DataInv, PresentTask
  PROVE  /\ taskall' \in Seq(Report) /\ Len(taskall') = c /\ c <= Len(present)
         /\ \A k \in DOMAIN taskall' : taskall'[k].isproc = present[k].isproc
         /\ devtstat' \in [nprocall : Nat, nprocactive : Nat, ntaskactive : Nat]
         /\ devtstat'.nprocall = Cardinality(IsProcs')
         /\ devtstat'.nprocactive = Cardinality(ActiveProcs')
         /\ devtstat'.ntaskactive = Cardinality(ActiveTasks')
         /\ charged' \in [Incs -> Nat]
<1>1. PICK cur \in Task : cur = present[c] /\ c \in 1 .. Len(present)
  <2>1. c \in 1 .. Len(present) /\ present \in Seq(Task)
    BY PresentTaskParts DEF DataInv, SampleTypes
  <2> QED
    BY <2>1
<1> DEFINE t == IF Waking(cur) THEN Woken(taskall, ThisProc) ELSE taskall
           d == Lasting(cur)
           procs == ProcsActive(cur, Growth(cur), Waking(cur))
<1>2. /\ phase = "present" /\ taskall' = Append(t, d)
      /\ devtstat' = [devtstat EXCEPT
           !.nprocall = IF cur.isproc THEN @ + 1 ELSE @,
           !.ntaskactive = @ + Growth(cur), !.nprocactive = @ + procs]
      /\ charged' = IF cur.isproc THEN Charge(Inc(cur), d.use) ELSE charged
  BY <1>1, PresentTaskParts
<1>3. /\ BaseTypes /\ taskall \in Seq(Report) /\ Len(taskall) = c - 1 /\ charged \in [Incs -> Nat]
      /\ \A k \in DOMAIN taskall : taskall[k].isproc = present[k].isproc
      /\ devtstat \in [nprocall : Nat, nprocactive : Nat, ntaskactive : Nat]
      /\ devtstat.nprocall = Cardinality(ProcsOf(taskall))
      /\ devtstat.nprocactive = Cardinality(ActiveProcsOf(taskall))
      /\ devtstat.ntaskactive = Cardinality(ActiveOf(taskall))
  BY <1>2, SameCounts DEF DataInv, SampleTypes, ListInv, Sampling, Report
<1>4. d \in Report /\ d.isproc = cur.isproc /\ (d.wasinactive <=> Same(cur)) /\ d.use \in Nat
  BY <1>3, LastingFacts
<1>5. Waking(cur) => /\ ~cur.isproc /\ ~Same(cur) /\ ThisProc \in DOMAIN taskall
                     /\ taskall[ThisProc].isproc /\ taskall[ThisProc].wasinactive
  BY <1>1, <1>2, ThisProcFacts DEF Waking, WakesProcess
<1>6. PICK w \in {0, 1} : w = IF Waking(cur) THEN 1 ELSE 0
  OBVIOUS
<1>7. /\ t \in Seq(Report) /\ Len(t) = c - 1 /\ DOMAIN t = DOMAIN taskall
      /\ \A k \in DOMAIN t : t[k].isproc = taskall[k].isproc
      /\ Cardinality(ProcsOf(t)) = devtstat.nprocall
      /\ Cardinality(ActiveProcsOf(t)) = devtstat.nprocactive + w
      /\ Cardinality(ActiveOf(t)) = devtstat.ntaskactive + w
  <2>1. CASE Waking(cur)
    <3>1. PICK p \in DOMAIN taskall : p = ThisProc /\ taskall[p].isproc /\ taskall[p].wasinactive
      BY <1>5, <2>1
    <3>2. t = Woken(taskall, p) /\ w = 1
      BY <1>6, <2>1, <3>1
    <3> HIDE DEF t
    <3> QED
      BY <1>3, <3>1, <3>2, WakingCounts
  <2>2. CASE ~Waking(cur)
    <3>1. t = taskall /\ w = 0
      BY <1>6, <2>2
    <3> HIDE DEF t
    <3> QED
      BY <1>3, <3>1
  <2> QED
    BY <2>1, <2>2
<1> HIDE DEF t, d
<1>8. CountsTo(t, d, taskall')
  BY <1>2, <1>4, <1>7, AppendCounts
<1>9. Growth(cur) = (IF d.wasinactive THEN 0 ELSE 1) + w
  BY <1>4, <1>5, <1>6 DEF Growth
<1>10. procs = (IF d.isproc /\ ~d.wasinactive THEN 1 ELSE 0) + w
  <2>1. CASE Waking(cur)
    <3>1. procs = 1 /\ w = 1 /\ ~d.isproc
      BY <1>4, <1>5, <1>6, <2>1 DEF ProcsActive
    <3> QED
      BY <3>1
  <2>2. CASE ~Waking(cur)
    <3>1. procs = (IF cur.isproc THEN Growth(cur) ELSE 0) /\ w = 0
      BY <1>6, <2>2 DEF ProcsActive
    <3> QED
      BY <1>4, <1>9, <3>1
  <2> QED
    BY <2>1, <2>2
<1> HIDE DEF procs
<1>11. /\ Growth(cur) \in Nat /\ procs \in Nat
  BY <1>9, <1>10
<1>12. /\ devtstat' \in [nprocall : Nat, nprocactive : Nat, ntaskactive : Nat]
       /\ devtstat'.nprocall = devtstat.nprocall + (IF cur.isproc THEN 1 ELSE 0)
       /\ devtstat'.ntaskactive = devtstat.ntaskactive + Growth(cur)
       /\ devtstat'.nprocactive = devtstat.nprocactive + procs
  <2>1. PICK n \in {0, 1} : n = IF cur.isproc THEN 1 ELSE 0
    OBVIOUS
  <2>2. devtstat.nprocall \in Nat /\ devtstat.nprocactive \in Nat /\ devtstat.ntaskactive \in Nat
    BY <1>3
  <2>3. (IF cur.isproc THEN devtstat.nprocall + 1 ELSE devtstat.nprocall) = devtstat.nprocall + n
    BY <2>1, <2>2
  <2>4. devtstat' = [nprocall |-> devtstat.nprocall + n, nprocactive |-> devtstat.nprocactive + procs,
                     ntaskactive |-> devtstat.ntaskactive + Growth(cur)]
    BY <1>2, <1>3, <2>3
  <2> QED
    BY <1>11, <2>1, <2>2, <2>4
<1>13. devtstat.nprocall \in Nat /\ devtstat.nprocactive \in Nat /\ devtstat.ntaskactive \in Nat
  BY <1>3
<1>14. devtstat'.nprocall = Cardinality(IsProcs')
  <2>1. Cardinality(IsProcs') = devtstat.nprocall + (IF d.isproc THEN 1 ELSE 0)
    BY <1>7, <1>8, SameCounts DEF CountsTo
  <2> QED
    BY <1>4, <1>12, <2>1
<1>15. devtstat'.nprocactive = Cardinality(ActiveProcs')
  <2>1. Cardinality(ActiveProcs') = (devtstat.nprocactive + w) + (IF d.isproc /\ ~d.wasinactive THEN 1 ELSE 0)
    BY <1>7, <1>8, SameCounts DEF CountsTo
  <2> QED
    BY <1>10, <1>12, <1>13, <2>1
<1>16. devtstat'.ntaskactive = Cardinality(ActiveTasks')
  <2>1. Cardinality(ActiveTasks') = (devtstat.ntaskactive + w) + (IF d.wasinactive THEN 0 ELSE 1)
    BY <1>7, <1>8, SameCounts DEF CountsTo
  <2> QED
    BY <1>9, <1>12, <1>13, <2>1
<1>17. taskall' \in Seq(Report) /\ Len(taskall') = c
  BY <1>1, <1>7, <1>8 DEF CountsTo
<1>18. ASSUME NEW k \in DOMAIN taskall' PROVE taskall'[k].isproc = present[k].isproc
  <2>1. CASE k = c
    <3>1. taskall'[c] = d
      <4>1. Len(t) + 1 = c
        BY <1>1, <1>7
      <4> QED
        BY <1>8, <4>1 DEF CountsTo
    <3> QED
      BY <1>1, <1>4, <2>1, <3>1
  <2>2. CASE k # c
    <3>1. k \in DOMAIN taskall
      BY <1>1, <1>3, <1>17, <2>2
    <3>2. taskall'[k] = t[k]
      BY <1>7, <1>8, <3>1 DEF CountsTo
    <3> QED
      BY <1>3, <1>7, <3>1, <3>2
  <2> QED
    BY <2>1, <2>2
<1>19. charged' \in [Incs -> Nat]
  <2>1. Inc(cur) \in Incs
    BY TaskFields DEF Inc, Incs
  <2>2. Charge(Inc(cur), d.use) \in [Incs -> Nat]
    BY <1>3, <1>4, <2>1, ChargeType
  <2> QED
    BY <1>2, <1>3, <2>2
<1> QED
  BY <1>1, <1>12, <1>14, <1>15, <1>16, <1>17, <1>18, <1>19

LEMMA PresentTaskKeeps ==
  ASSUME KernelInv, DataInv, PresentTask
  PROVE  KernelInv' /\ DataInv'
<1>1. /\ phase = "present" /\ c' = c + 1
      /\ UNCHANGED <<acct, now, kern, exits, netexits, phase, pr, pretime, present, gone, prev, missed>>
  BY PresentTaskParts DEF world
<1>2. KernelInv'
  BY <1>1, RecordsKeep DEF KernelInv
<1>3. /\ phash' \in [Queues -> Seq(Task)] /\ presidue' \in Seq(Task) /\ OneEach(presidue')
      /\ \A b \in Queues : \A k \in DOMAIN phash'[b] : Bucket(phash'[b][k].pid) = b
      /\ ToSet(presidue') \subseteq prev \cap Stored'
      /\ \A b \in Queues : QueueOK(phash'[b], prev, ToSet(presidue'))
      /\ Unmet'
  BY PresentBase
<1>4. /\ taskall' \in Seq(Report) /\ Len(taskall') = c /\ c <= Len(present)
      /\ \A k \in DOMAIN taskall' : taskall'[k].isproc = present[k].isproc
      /\ devtstat' \in [nprocall : Nat, nprocactive : Nat, ntaskactive : Nat]
      /\ devtstat'.nprocall = Cardinality(IsProcs')
      /\ devtstat'.nprocactive = Cardinality(ActiveProcs')
      /\ devtstat'.ntaskactive = Cardinality(ActiveTasks')
      /\ charged' \in [Incs -> Nat]
  BY PresentLists
<1>5. c \in Nat \ {0} /\ c' \in Nat \ {0} /\ c' - 1 = c /\ Len(present) \in Nat /\ c' <= Len(present) + 1
  BY <1>1, <1>4 DEF DataInv, SampleTypes
<1>6. BaseTypes'
  BY <1>1, <1>3 DEF DataInv, BaseTypes
<1>7. SampleTypes'
  BY <1>1, <1>4, <1>5 DEF DataInv, SampleTypes, Report
<1>8. Sampling' /\ ToVisit' = ToSet(presidue')
  BY <1>1 DEF Sampling, ToVisit
<1>9. ChainInv'
  <2>1. \A b \in Queues : QueueOK(phash'[b], prev', ToVisit')
    BY <1>1, <1>3, <1>8
  <2>2. OneEach(present') /\ Single(prev')
    BY <1>1 DEF DataInv, ChainInv
  <2> QED
    BY <1>1, <1>3, <1>8, <2>1, <2>2 DEF ChainInv
<1>10. ListInv'
  BY <1>1, <1>4, <1>5, <1>8 DEF DataInv, ListInv
<1> QED
  BY <1>2, <1>6, <1>7, <1>9, <1>10 DEF DataInv

---------------------------------------------------------------------------
(* The invariant.                                                            *)

LEMMA TaskInit ==
  ASSUME Init
  PROVE  TaskInv
<1>1. MaxTime \in Nat /\ MaxTask \in Nat /\ MaxUse \in Nat /\ 0 \in Times
  BY TaskAssumption DEF Times
<1>2. KernelInv
  BY <1>1 DEF Init, KernelInv, Alive
<1>3. BaseTypes
  BY DEF Init, BaseTypes, Queues
<1>4. SampleTypes
  BY <1>1 DEF Init, SampleTypes
<1>5. ~Sampling
  BY DEF Init, Sampling
<1>6. OneEach(<< >>) /\ Single({}) /\ \A b \in Queues : phash[b] = << >>
  BY DEF Init, OneEach, Single, Queues
<1>7. ChainInv
  BY <1>5, <1>6 DEF Init, ChainInv, Unmet
<1>8. ListInv
  BY <1>5 DEF Init, ListInv
<1> QED
  BY <1>2, <1>3, <1>4, <1>7, <1>8 DEF TaskInv

LEMMA TaskStep ==
  ASSUME TaskInv, [Next]_vars
  PROVE  TaskInv'
<1>0. KernelInv /\ DataInv
  BY DEF TaskInv, DataInv
<1> SUFFICES KernelInv' /\ DataInv'
  BY DEF TaskInv, DataInv
<1>1. CASE World
  <2>1. UNCHANGED <<phase, base, sample>>
    BY <1>1 DEF World
  <2> QED
    BY <1>0, <1>1, <2>1, WorldKeeps, DataStutters
<1>2. CASE Photo
  <2>1. KernelInv'
    BY <1>0, <1>2, RecordsKeep DEF Photo, world, KernelInv
  <2> QED
    BY <1>0, <1>2, <2>1, PhotoKeeps
<1>3. CASE DeviatStart
  <2>1. KernelInv'
    BY <1>0, <1>3, RecordsKeep DEF DeviatStart, KernelInv
  <2> QED
    BY <1>0, <1>3, <2>1, DeviatStartKeeps
<1>4. CASE PresentTask
  BY <1>0, <1>4, PresentTaskKeeps
<1>5. CASE PresentDone
  <2>1. KernelInv'
    BY <1>0, <1>5, RecordsKeep DEF PresentDone, world, KernelInv
  <2> QED
    BY <1>0, <1>5, <2>1, PresentDoneKeeps
<1>6. CASE ExitedTask
  BY <1>0, <1>6, ExitedTaskKeeps
<1>7. CASE ExitedDone
  <2>1. KernelInv'
    BY <1>0, <1>7, RecordsKeep DEF ExitedDone, world, KernelInv
  <2> QED
    BY <1>0, <1>7, <2>1, ExitedDoneKeeps
<1>8. CASE CleanTask
  <2>1. KernelInv'
    BY <1>0, <1>8, RecordsKeep DEF CleanTask, world, KernelInv
  <2> QED
    BY <1>0, <1>8, <2>1, CleanTaskKeeps
<1>9. CASE DeviatDone
  <2>1. KernelInv'
    BY <1>0, <1>9, RecordsKeep DEF DeviatDone, KernelInv
  <2> QED
    BY <1>0, <1>9, <2>1, DeviatDoneKeeps
<1>10. CASE UNCHANGED vars
  <2>1. KernelInv'
    BY <1>0, <1>10, RecordsKeep DEF vars, world, KernelInv
  <2>2. UNCHANGED <<phase, base, sample>>
    BY <1>10 DEF vars
  <2> QED
    BY <1>0, <2>1, <2>2, DataStutters
<1> QED
  BY <1>1, <1>2, <1>3, <1>4, <1>5, <1>6, <1>7, <1>8, <1>9, <1>10 DEF Next

(* The inductive invariant holds of every behaviour of deviattask.           *)
THEOREM TaskInvariant == Spec => []TaskInv
<1>1. Init => TaskInv
  BY TaskInit
<1>2. TaskInv /\ [Next]_vars => TaskInv'
  BY TaskStep
<1> QED
  BY <1>1, <1>2, PTL DEF Spec

(* The hash table, the RESIDUE chain and the lists made from a sample agree  *)
(* at every step: pdb_cleanresidue never follows an entry that was freed,    *)
(* between two samples a key has one entry, and procall and procactive are   *)
(* allocated as large as they are filled, for any processes and pids reused. *)
THEOREM TaskDatabaseSound == Spec => []DatabaseSound
<1>1. ASSUME TaskInv PROVE DatabaseSound
  <2>0. KernelInv /\ BaseTypes /\ SampleTypes /\ ChainInv /\ ListInv
    BY <1>1 DEF TaskInv
  <2>1. TypeOK
    <3>1. devtstat \in [{"nprocall", "nprocactive", "ntaskactive"} -> Nat]
      BY <2>0 DEF SampleTypes
    <3>2. DOMAIN phash = Queues
      BY <2>0 DEF BaseTypes
    <3> QED
      BY <2>0, <3>1, <3>2 DEF TypeOK, KernelInv, BaseTypes, SampleTypes
  <2>2. ResidueIsStored
    <3>1. ~Sampling => Single(Stored)
      BY <2>0, StoredSingle DEF ChainInv
    <3> QED
      BY <2>0, <3>1 DEF ResidueIsStored, ChainInv, Single, SameKey
  <2>3. ListsFit
    BY <2>0 DEF ListsFit, ListInv, Sampling, IsProcs, ActiveProcs, ActiveTasks
  <2> QED
    BY <2>1, <2>2, <2>3 DEF DatabaseSound
<1> QED
  BY <1>1, TaskInvariant, PTL

---------------------------------------------------------------------------
(* The map from keys to tasks.                                               *)

KeyOf(e) == <<e.pid, e.isproc>>
MapOf(S) == [k \in {KeyOf(e) : e \in S} |-> (CHOOSE e \in S : KeyOf(e) = k).btime]
Keys == Pids \X BOOLEAN

LEMMA MapFacts ==
  ASSUME NEW S \in SUBSET Task
  PROVE  /\ MapOf(S) \in UNION {[K -> Times] : K \in SUBSET Keys}
         /\ DOMAIN MapOf(S) = {KeyOf(e) : e \in S}
         /\ \A k \in DOMAIN MapOf(S) : \E e \in S : KeyOf(e) = k /\ MapOf(S)[k] = e.btime
<1> DEFINE D == {KeyOf(e) : e \in S}
<1>1. ASSUME NEW k \in D PROVE \E e \in S : KeyOf(e) = k /\ MapOf(S)[k] = e.btime
  <2>1. \E e \in S : KeyOf(e) = k
    OBVIOUS
  <2>2. PICK e : e = CHOOSE x \in S : KeyOf(x) = k
    OBVIOUS
  <2>3. e \in S /\ KeyOf(e) = k
    BY <2>1, <2>2
  <2>4. MapOf(S)[k] = e.btime
    BY <2>2 DEF MapOf
  <2> QED
    BY <2>3, <2>4
<1>2. DOMAIN MapOf(S) = D /\ MapOf(S) = [k \in D |-> MapOf(S)[k]]
  BY DEF MapOf
<1>3. \A k \in D : MapOf(S)[k] \in Times
  BY <1>1, TaskFields
<1>4. D \in SUBSET Keys
  <2>1. \A e \in S : KeyOf(e) \in Keys
    BY TaskFields DEF KeyOf, Keys
  <2> QED
    BY <2>1
<1> HIDE DEF D
<1>5. MapOf(S) \in [D -> Times]
  BY <1>2, <1>3
<1>6. \A k \in DOMAIN MapOf(S) : \E e \in S : KeyOf(e) = k /\ MapOf(S)[k] = e.btime
  BY <1>1, <1>2
<1> QED
  BY <1>2, <1>4, <1>5, <1>6 DEF D

LEMMA RecordedMap ==
  RecordedTasks = MapOf(Recorded) /\ RecordedTasks' = MapOf(Recorded')
BY DEF RecordedTasks, MapOf, KeyOf

\* Only the end of a sample changes what is recorded.
LEMMA RecordedKept ==
  ASSUME TaskInv, [Next]_vars, ~DeviatDone
  PROVE  Recorded' = Recorded
<1>1. CASE World
  BY <1>1 DEF World, Recorded, Sampling, Stored, base, sample
<1>2. CASE Photo
  BY <1>2 DEF Photo, Recorded, Sampling, Stored, base
<1>3. CASE DeviatStart
  BY <1>3 DEF DeviatStart, Recorded, Sampling
<1>4. CASE PresentTask
  <2>1. phase = "present" /\ phase' = phase /\ prev' = prev
    BY <1>4, PresentTaskParts
  <2> QED
    BY <2>1 DEF Recorded, Sampling
<1>5. CASE PresentDone
  BY <1>5 DEF PresentDone, Recorded, Sampling
<1>6. CASE ExitedTask
  <2>1. phase = "exited" /\ phase' = phase /\ prev' = prev
    BY <1>6, ExitedTaskParts
  <2> QED
    BY <2>1 DEF Recorded, Sampling
<1>7. CASE ExitedDone
  BY <1>7 DEF ExitedDone, Recorded, Sampling, sample
<1>8. CASE CleanTask
  <2>1. phase = "clean" /\ phase' = phase /\ prev' = prev
    BY <1>8 DEF CleanTask, sample
  <2> QED
    BY <2>1 DEF Recorded, Sampling
<1>9. CASE UNCHANGED vars
  BY <1>9 DEF vars, Recorded, Sampling, Stored, base, sample
<1> QED
  BY <1>1, <1>2, <1>3, <1>4, <1>5, <1>6, <1>7, <1>8, <1>9 DEF Next

\* One sample: a key that has a task before and after has the same one.
LEMMA SampleMaps ==
  ASSUME TaskInv, DeviatDone
  PROVE  Map!Next
<1>1. /\ phase = "clean" /\ pr = Anchor /\ phase' = "idle" /\ phash' = phash
  BY DEF DeviatDone
<1>2. Recorded = prev /\ Recorded' = Stored
  BY <1>1 DEF Recorded, Sampling, Stored
<1>3. DataInv /\ BaseTypes /\ prev \in SUBSET Task /\ Stored \in SUBSET Task
  <2>1. DataInv /\ BaseTypes /\ prev \in SUBSET Task
    BY DEF TaskInv, DataInv, SampleTypes
  <2> QED
    BY <2>1, StoredPlace
<1>4. \A e \in Stored : \A p \in prev : SameKey(e, p) => Near(e.btime, p.btime)
  BY <1>1, <1>3, Cleaned
<1> DEFINE f == MapOf(prev)
           g == MapOf(Stored)
<1>5. RecordedTasks = f /\ RecordedTasks' = g
  BY <1>2, RecordedMap
<1>6. g \in UNION {[K -> Times] : K \in SUBSET Keys}
  BY <1>3, MapFacts
<1>7. ASSUME NEW k \in DOMAIN f, k \in DOMAIN g PROVE f[k] - g[k] \in -1 .. 1
  <2>1. PICK p \in prev : KeyOf(p) = k /\ f[k] = p.btime
    BY <1>3, MapFacts
  <2>2. PICK e \in Stored : KeyOf(e) = k /\ g[k] = e.btime
    BY <1>3, <1>7, MapFacts
  <2>3. SameKey(e, p)
    BY <2>1, <2>2 DEF KeyOf, SameKey
  <2>4. Near(p.btime, e.btime)
    BY <1>3, <1>4, <2>3, TaskFields, NearSymmetric
  <2> QED
    BY <2>1, <2>2, <2>4 DEF Near
<1> HIDE DEF f, g
<1>8. Map!Partial = UNION {[K -> Times] : K \in SUBSET Keys}
  BY DEF Map!Partial, Keys
<1>9. ASSUME NEW k PROVE Map!Record(k) \/ Map!Keep(k) \/ Map!Forget(k)
  BY <1>5, <1>7 DEF Map!Record, Map!Keep, Map!Forget, Map!Near
<1> QED
  BY <1>5, <1>6, <1>8, <1>9 DEF Map!Next

(* deviattask implements TaskMap: one sample is one step of the map from a   *)
(* pid, on the process or the thread level, to the start time of its task,   *)
(* and a pid that came back within a sample keeps its old task, for any      *)
(* number of hash queues and any order of lookups, additions and deletions.  *)
THEOREM TaskMapImplemented == Spec => ImplementsMap
<1>1. ASSUME Init PROVE Map!Init
  <2>1. Recorded = {}
    <3>1. ~Sampling /\ phash \in [Queues -> {<< >>}]
      BY <1>1 DEF Init, Sampling, Queues
    <3>2. \A e \in Stored : FALSE
      BY <3>1 DEF Stored, ToSet
    <3> QED
      BY <3>1, <3>2 DEF Recorded
  <2>2. RecordedTasks = << >>
    BY <2>1 DEF RecordedTasks
  <2> QED
    BY <2>2 DEF Map!Init
<1>2. ASSUME TaskInv, [Next]_vars PROVE [Map!Next]_RecordedTasks
  <2>1. CASE DeviatDone
    BY <1>2, <2>1, SampleMaps
  <2>2. CASE ~DeviatDone
    <3>1. RecordedTasks' = RecordedTasks
      BY <1>2, <2>2, RecordedKept, RecordedMap
    <3> QED
      BY <3>1
  <2> QED
    BY <2>1, <2>2
<1> QED
  BY <1>1, <1>2, TaskInvariant, PTL DEF Spec, ImplementsMap, Map!Spec

---------------------------------------------------------------------------
(* What is shown for a process: the invariant.                               *)

\* A process with a pid of its own, in every list since it started; and one
\* whose entry no record of another process can be taken for.
Unique(i) == i \notin missed /\ \A j \in DOMAIN kern \ {i} : j[1] # i[1]
Traced(i) == acct # "v2" \/ kern[i].alive
Own(e, i) == e.isproc /\ e.pid = i[1]
IsOf(e, i) == e.isproc /\ Inc(e) = i

\* How far the two loops are.
MetTo == IF phase = "present" THEN c - 1 ELSE IF phase \in {"exited", "clean"} THEN Len(present) ELSE 0
DoneTo == IF phase = "exited" THEN c - 1 ELSE IF phase = "clean" THEN Len(gone) ELSE 0
Pending(i) ==
  \/ \E k \in DOMAIN exits : exits[k].inc = i
  \/ \E g \in DOMAIN gone : g > DoneTo /\ gone[g].inc = i
Awaited(i) == \E k \in DOMAIN present : k > MetTo /\ IsOf(present[k], i)
Coming(i) == kern[i].alive \/ Pending(i) \/ Awaited(i)

\* A record of the end of a process, and its network record.
RecordOK(r) ==
  /\ acct # "off" /\ r.pid = IF acct = "v3" THEN r.inc[1] ELSE NoPid
  /\ r.inc \in DOMAIN kern /\ ~kern[r.inc].alive /\ r.use <= kern[r.inc].use /\ Near(r.inc[2], r.btime)
  /\ \E k \in DOMAIN netexits : netexits[k].id = r.inc[1]
OneRecord(s) == \A k, l \in DOMAIN s : s[k].inc = s[l].inc => k = l

\* An entry, and a task of the sample, is of a process that the kernel knows.
SourceInv ==
  /\ \A e \in Stored : Inc(e) \in DOMAIN kern /\ (e.isproc => e.use <= kern[Inc(e)].use)
  /\ \A k \in DOMAIN present :
       /\ Inc(present[k]) \in DOMAIN kern
       /\ present[k].isproc => present[k].use = kern[Inc(present[k])].use
       /\ \/ acct = "off" \/ kern[Inc(present[k])].alive
          \/ \E l \in DOMAIN exits : exits[l].inc = Inc(present[k])
          \/ \E l \in DOMAIN gone : gone[l].inc = Inc(present[k])
  /\ \A i \in DOMAIN kern : phase # "idle" /\ kern[i].alive /\ i \notin missed =>
       \E k \in DOMAIN present : IsOf(present[k], i)
  /\ \A i \in Incs \ DOMAIN kern : charged[i] = 0
  /\ phase = "idle" => present = << >>

RecordInv ==
  /\ \A k \in DOMAIN exits : RecordOK(exits[k])
  /\ \A k \in DOMAIN gone : RecordOK(gone[k])
  /\ OneRecord(exits) /\ OneRecord(gone)
  /\ Sampling => exits = << >>
  /\ ~Sampling => gone = << >>
  /\ \A k \in DOMAIN netexits :
       LET i == <<netexits[k].id, netexits[k].btime>>
       IN i \in DOMAIN kern /\ ~kern[i].alive /\ netexits[k].net = kern[i].use

\* The entry of i is what was shown of it; without one nothing was shown yet.
EntryInv(i) ==
  /\ \A e, f \in Stored : Own(e, i) /\ Own(f, i) => e = f
  /\ Traced(i) => \A e \in Stored : Own(e, i) => charged[i] = e.use
  /\ Traced(i) /\ Coming(i) /\ (\A e \in Stored : ~Own(e, i)) => charged[i] = 0
  /\ acct # "v2" => charged[i] <= kern[i].use

\* The task of i that the first loop has met.
MetInv(i) ==
  \A k \in DOMAIN present : k <= MetTo /\ IsOf(present[k], i) =>
    /\ \A e \in ToSet(presidue) : ~Own(e, i)
    /\ (\A g \in DOMAIN gone : gone[g].inc # i) => charged[i] = present[k].use
    /\ phase # "clean" /\ acct # "v2" /\ (\A g \in DOMAIN gone : g <= DoneTo => gone[g].inc # i) =>
         present[k] \in Stored

\* A process of which the sample has only the record has the entry that it had.
LeftInv(i) ==
  Sampling /\ acct # "v2" /\ Pending(i) /\ (\A k \in DOMAIN present : ~IsOf(present[k], i)) =>
    \A e \in prev : Own(e, i) => e \in Stored

NetInv ==
  /\ Sampling => Stored \subseteq prev \cup ToSet(present)
  /\ Byp => \A g \in DOMAIN gone : g <= DoneTo /\ Unique(gone[g].inc) =>
       taskall[Len(present) + g].net = kern[gone[g].inc].use - LastSeen(gone[g].inc)

ShareInv ==
  /\ SourceInv /\ RecordInv /\ NetInv
  /\ \A i \in DOMAIN kern : Unique(i) => EntryInv(i) /\ MetInv(i) /\ LeftInv(i)

---------------------------------------------------------------------------
(* What is shown for a process: the kernel.                                  *)

\* What the kernel may do to the processes: the dead stay as they are.
KernGrows ==
  /\ acct' = acct /\ DOMAIN kern \subseteq DOMAIN kern'
  /\ \A i \in DOMAIN kern :
       /\ kern[i].use <= kern'[i].use /\ (kern'[i].alive => kern[i].alive)
       /\ ~kern[i].alive => kern'[i] = kern[i]

LEMMA KernTypes ==
  ASSUME TaskInv, NEW i \in DOMAIN kern
  PROVE  /\ i \in Incs /\ i[1] \in Pids /\ i[2] \in Times /\ i = <<i[1], i[2]>> /\ kern[i] \in Process
         /\ kern[i].use \in 0 .. MaxUse /\ kern[i].use \in Nat /\ kern[i].alive \in BOOLEAN /\ kern[i].name \in Names
         /\ charged[i] \in Nat
<1>1. i \in Incs /\ kern[i] \in Process /\ charged \in [Incs -> Nat]
  BY DEF TaskInv, KernelInv, SampleTypes
<1>2. i[1] \in Pids /\ i[2] \in Times /\ i = <<i[1], i[2]>>
  BY <1>1 DEF Incs
<1>3. kern[i].use \in 0 .. MaxUse /\ kern[i].alive \in BOOLEAN /\ kern[i].name \in Names
  BY <1>1 DEF Process
<1>4. kern[i].use \in Nat
  BY <1>3, TaskAssumption
<1> QED
  BY <1>1, <1>2, <1>3, <1>4

\* The steps of the kernel, one by one.
LEMMA WorldCases ==
  ASSUME TaskInv, World
  PROVE  /\ UNCHANGED <<phase, phash, presidue, pr, pretime, present, gone, c>>
         /\ UNCHANGED <<taskall, devtstat, prev, charged, missed, acct>>
         /\ phase \in {"idle", "photo"}
         /\ \/ phase = "idle" /\ UNCHANGED <<kern, exits, netexits>>
            \/ phase = "idle" /\ \E p \in Pids, name \in Names : Fork(p, name)
            \/ phase = "idle" /\ \E i \in Alive : Run(i)
            \/ \E i \in Alive : Exit(i)
<1>1. UNCHANGED <<phase, base, sample>> /\ phase \in {"idle", "photo"}
  BY DEF World
<1>2. \/ phase = "idle" /\ Tick
      \/ phase = "idle" /\ \E p \in Pids, name \in Names : Fork(p, name)
      \/ phase = "idle" /\ \E i \in Alive : Run(i)
      \/ \E i \in Alive : Exit(i)
  BY DEF World
<1>3. acct' = acct
  BY <1>2 DEF Tick, Fork, Run, Exit
<1>4. Tick => UNCHANGED <<kern, exits, netexits>>
  BY DEF Tick
<1> QED
  BY <1>1, <1>2, <1>3, <1>4 DEF base, sample

LEMMA ForkGrows ==
  ASSUME TaskInv, NEW p \in Pids, NEW name \in Names, Fork(p, name)
  PROVE  /\ KernGrows /\ exits' = exits /\ netexits' = netexits
         /\ DOMAIN kern' = DOMAIN kern \cup {<<p, now>>} /\ <<p, now>> \notin DOMAIN kern
         /\ \A i \in DOMAIN kern : kern'[i] = kern[i]
         /\ kern'[<<p, now>>].use = 0 /\ kern'[<<p, now>>].alive
<1>1. /\ acct' = acct /\ exits' = exits /\ netexits' = netexits
      /\ DOMAIN kern' = DOMAIN kern \cup {<<p, now>>} /\ <<p, now>> \notin DOMAIN kern
      /\ \A i \in DOMAIN kern : kern'[i] = kern[i]
      /\ kern'[<<p, now>>] = [name |-> name, use |-> 0, tuse |-> 0, alive |-> TRUE]
  BY DEF Fork
<1>2. \A i \in DOMAIN kern : kern[i].use \in Nat
  BY KernTypes
<1>3. \A i \in DOMAIN kern : kern[i].use <= kern'[i].use
  BY <1>1, <1>2
<1> QED
  BY <1>1, <1>3 DEF KernGrows

LEMMA RunGrows ==
  ASSUME TaskInv, NEW i \in Alive, Run(i)
  PROVE  /\ KernGrows /\ exits' = exits /\ netexits' = netexits
         /\ DOMAIN kern' = DOMAIN kern /\ \A j \in DOMAIN kern : kern'[j].alive = kern[j].alive
<1>1. i \in DOMAIN kern /\ kern[i].alive /\ \A j \in DOMAIN kern : kern[j] \in Process /\ kern[j].use \in Nat
  BY KernTypes DEF Alive
<1>2. /\ acct' = acct /\ exits' = exits /\ netexits' = netexits
      /\ kern' = [kern EXCEPT ![i].use = @ + 1] \/ kern' = [kern EXCEPT ![i].tuse = @ + 1]
  BY DEF Run
<1>3. PICK x : /\ kern' = [kern EXCEPT ![i] = x]
               /\ x = [kern[i] EXCEPT !.use = @ + 1] \/ x = [kern[i] EXCEPT !.tuse = @ + 1]
  BY <1>2
<1>4. DOMAIN kern' = DOMAIN kern /\ kern'[i] = x /\ \A j \in DOMAIN kern : j # i => kern'[j] = kern[j]
  BY <1>1, <1>3
<1>5. kern[i].use <= kern'[i].use /\ kern'[i].alive = kern[i].alive
  <2>1. kern[i] \in Process /\ kern[i].use \in Nat
    BY <1>1
  <2>2. x.alive = kern[i].alive /\ (x.use = kern[i].use \/ x.use = kern[i].use + 1)
    BY <1>3, <2>1 DEF Process
  <2> QED
    BY <1>4, <2>1, <2>2
<1>6. ASSUME NEW j \in DOMAIN kern PROVE kern[j].use <= kern'[j].use /\ kern'[j].alive = kern[j].alive
  <2>1. CASE j = i
    BY <1>5, <2>1
  <2>2. CASE j # i
    <3>1. kern'[j] = kern[j] /\ kern[j].use \in Nat
      BY <1>1, <1>4, <2>2
    <3> QED
      BY <3>1
  <2> QED
    BY <2>1, <2>2
<1>7. \A j \in DOMAIN kern : ~kern[j].alive => kern'[j] = kern[j]
  BY <1>1, <1>4
<1> QED
  BY <1>2, <1>4, <1>6, <1>7 DEF KernGrows

\* What an exit appends to the records.
ExitRecord(i, s, t) ==
  /\ acct = "off" => t = s
  /\ acct # "off" =>
       \E r \in Ended : /\ t = Append(s, r) /\ r.inc = i /\ r.pid = IF acct = "v3" THEN i[1] ELSE NoPid
                        /\ r.use <= kern[i].use /\ Near(i[2], r.btime)

LEMMA ExitGrows ==
  ASSUME TaskInv, NEW i \in Alive, Exit(i)
  PROVE  /\ KernGrows /\ DOMAIN kern' = DOMAIN kern /\ i \in DOMAIN kern /\ kern[i].alive
         /\ \A j \in DOMAIN kern : kern'[j].use = kern[j].use /\ (j # i => kern'[j] = kern[j])
         /\ ~kern'[i].alive
         /\ ExitRecord(i, exits, exits')
         /\ \E n \in Traffic : /\ netexits' = Append(netexits, n) /\ <<n.id, n.btime>> = i /\ n.net = kern[i].use
                               /\ n.id = i[1]
<1>1. /\ i \in DOMAIN kern /\ kern[i].alive /\ i[1] \in Pids /\ i[2] \in Times /\ i = <<i[1], i[2]>> /\ i \in Incs
      /\ kern[i].use \in 0 .. MaxUse /\ kern[i].use \in Nat /\ kern[i].name \in Names /\ MaxUse \in Nat
  BY KernTypes, TaskAssumption DEF Alive
<1>2. acct' = acct /\ kern' = [kern EXCEPT ![i] = [kern[i] EXCEPT !.alive = FALSE]]
  BY DEF Exit
<1>3. kern \in [DOMAIN kern -> Process] /\ \A j \in DOMAIN kern : kern[j].use \in Nat
  BY KernTypes DEF TaskInv, KernelInv
<1>4. DOMAIN kern' = DOMAIN kern /\ \A j \in DOMAIN kern : j # i => kern'[j] = kern[j]
  BY <1>2, <1>3
<1>5. kern'[i] = [kern[i] EXCEPT !.alive = FALSE]
  BY <1>1, <1>2, <1>3
<1>6. kern'[i].use = kern[i].use /\ ~kern'[i].alive
  BY <1>1, <1>3, <1>5 DEF Process
<1>7. KernGrows
  <2>1. \A j \in DOMAIN kern : kern'[j].use = kern[j].use /\ kern[j].use <= kern'[j].use
    BY <1>3, <1>4, <1>6
  <2>2. \A j \in DOMAIN kern : (kern'[j].alive => kern[j].alive) /\ (~kern[j].alive => kern'[j] = kern[j])
    BY <1>1, <1>4, <1>6
  <2> QED
    BY <1>2, <1>4, <2>1, <2>2 DEF KernGrows
<1>8. ExitRecord(i, exits, exits')
  <2>1. CASE acct = "off"
    BY <2>1 DEF Exit, ExitRecord
  <2>2. CASE acct # "off"
    <3>1. PICK b \in {i[2], i[2] + 1} \cap Times, u \in {kern[i].use - 1, kern[i].use} \cap Nat :
            exits' = Append(exits, [pid |-> IF acct = "v3" THEN i[1] ELSE NoPid, isproc |-> TRUE,
                                    btime |-> b, name |-> kern[i].name, use |-> u, inc |-> i])
      BY <2>2 DEF Exit
    <3>2. PICK p \in Pids \cup {NoPid} : p = IF acct = "v3" THEN i[1] ELSE NoPid
      BY <1>1
    <3> DEFINE r == [pid |-> p, isproc |-> TRUE, btime |-> b, name |-> kern[i].name, use |-> u, inc |-> i]
    <3>3. u \in 0 .. MaxUse /\ u <= kern[i].use
      BY <1>1
    <3>4. r \in Ended
      BY <1>1, <3>3 DEF Ended
    <3>5. Near(i[2], b)
      BY <1>1 DEF Near, Times
    <3>6. r.inc = i /\ r.pid = p /\ r.use = u /\ r.btime = b /\ exits' = Append(exits, r)
      BY <3>1, <3>2
    <3> HIDE DEF r
    <3> QED
      BY <2>2, <3>2, <3>3, <3>4, <3>5, <3>6 DEF ExitRecord
  <2> QED
    BY <2>1, <2>2
<1>9. \E n \in Traffic : /\ netexits' = Append(netexits, n) /\ <<n.id, n.btime>> = i /\ n.net = kern[i].use
                         /\ n.id = i[1]
  <2> DEFINE n == [id |-> i[1], btime |-> i[2], command |-> kern[i].name, net |-> kern[i].use, isused |-> FALSE]
  <2>1. n \in Traffic
    BY <1>1 DEF Traffic
  <2>2. netexits' = Append(netexits, n)
    BY DEF Exit
  <2>3. n.id = i[1] /\ n.btime = i[2] /\ n.net = kern[i].use
    OBVIOUS
  <2> HIDE DEF n
  <2> QED
    BY <1>1, <2>1, <2>2, <2>3
<1> QED
  BY <1>1, <1>3, <1>4, <1>6, <1>7, <1>8, <1>9

\* An entry, and a task of the sample, with the pid of a unique process is its own.
LEMMA OwnFacts ==
  ASSUME TaskInv, SourceInv, NEW i \in DOMAIN kern, Unique(i)
  PROVE  /\ \A e \in Stored : e.pid = i[1] => Inc(e) = i /\ e.btime = i[2]
         /\ \A k \in DOMAIN present : present[k].pid = i[1] => Inc(present[k]) = i
<1>1. \A e : e.pid = i[1] /\ Inc(e) \in DOMAIN kern => Inc(e) = i
  BY DEF Unique, Inc
<1>2. \A e : Inc(e) = i => e.btime = i[2]
  BY DEF Inc
<1> QED
  BY <1>1, <1>2 DEF SourceInv

LEMMA EntryStays ==
  ASSUME TaskInv, NEW i \in DOMAIN kern, EntryInv(i), Stored' = Stored, charged' = charged, acct' = acct,
         kern'[i].use \in Nat, kern[i].use <= kern'[i].use, kern'[i].alive => kern[i].alive, Coming(i)' => Coming(i)
  PROVE  EntryInv(i)'
<1>1. charged[i] \in Nat /\ kern[i].use \in Nat
  BY KernTypes
<1>2. Traced(i)' => Traced(i)
  BY DEF Traced
<1>3. acct # "v2" => charged[i] <= kern'[i].use
  BY <1>1 DEF EntryInv
<1>4. \A e, f \in Stored' : Own(e, i) /\ Own(f, i) => e = f
  BY DEF EntryInv
<1>5. Traced(i)' => \A e \in Stored' : Own(e, i) => charged'[i] = e.use
  BY <1>2 DEF EntryInv
<1>6. Traced(i)' /\ Coming(i)' /\ (\A e \in Stored' : ~Own(e, i)) => charged'[i] = 0
  BY <1>2 DEF EntryInv
<1> QED
  BY <1>3, <1>4, <1>5, <1>6 DEF EntryInv

\* Between two samples nothing is met or left.
LEMMA Quiet ==
  ASSUME TaskInv', phase' \in {"idle", "photo"}, gone' = << >>
  PROVE  NetInv' /\ \A i : MetInv(i)' /\ LeftInv(i)'
<1>1. ~Sampling' /\ MetTo' = 0 /\ ~Byp'
  BY DEF Sampling, MetTo, Byp
<1>2. \A k \in DOMAIN present' : ~(k <= 0)
  BY DEF TaskInv, SampleTypes
<1>3. NetInv'
  BY <1>1 DEF NetInv
<1>4. \A i : MetInv(i)'
  BY <1>1, <1>2 DEF MetInv
<1>5. \A i : LeftInv(i)'
  BY <1>1 DEF LeftInv
<1> QED
  BY <1>3, <1>4, <1>5

LEMMA RecordStays ==
  ASSUME NEW r, RecordOK(r), KernGrows, r.use \in Nat,
         \A k \in DOMAIN netexits : k \in DOMAIN netexits' /\ netexits'[k].id = netexits[k].id
  PROVE  RecordOK(r)'
<1>1. kern'[r.inc] = kern[r.inc] /\ r.inc \in DOMAIN kern'
  BY DEF RecordOK, KernGrows
<1>2. \E k \in DOMAIN netexits' : netexits'[k].id = r.inc[1]
  BY DEF RecordOK
<1> QED
  BY <1>1, <1>2 DEF RecordOK, KernGrows

\* Records of which one is the record of a process that ended just now.
LEMMA OneMore ==
  ASSUME NEW s \in Seq(Ended), OneRecord(s), NEW r \in Ended, \A k \in DOMAIN s : s[k].inc # r.inc
  PROVE  /\ OneRecord(Append(s, r))
         /\ \A k \in DOMAIN Append(s, r) : (k \in DOMAIN s /\ Append(s, r)[k] = s[k]) \/ Append(s, r)[k] = r
         /\ \A k \in DOMAIN s : k \in DOMAIN Append(s, r) /\ Append(s, r)[k] = s[k]
         /\ Len(s) + 1 \in DOMAIN Append(s, r) /\ Append(s, r)[Len(s) + 1] = r
<1> DEFINE t == Append(s, r)
<1>1. /\ t \in Seq(Ended) /\ Len(t) = Len(s) + 1 /\ Len(s) \in Nat /\ DOMAIN t = 1 .. Len(s) + 1 /\ DOMAIN s = 1 .. Len(s)
      /\ t[Len(s) + 1] = r /\ \A k \in 1 .. Len(s) : t[k] = s[k]
  OBVIOUS
<1> HIDE DEF t
<1>2. \A k \in DOMAIN t : (k \in DOMAIN s /\ t[k] = s[k]) \/ (k = Len(s) + 1 /\ t[k] = r)
  BY <1>1
<1>3. OneRecord(t)
  BY <1>2 DEF OneRecord
<1> QED
  BY <1>1, <1>2, <1>3 DEF t

\* The parts of ShareInv that a step of the kernel can disturb.
KernPart == /\ SourceInv /\ RecordInv
            /\ \A i \in DOMAIN kern : Unique(i) => EntryInv(i)

LEMMA KernelShare ==
  ASSUME TaskInv, TaskInv', KernPart, KernGrows, phase \in {"idle", "photo"},
         UNCHANGED <<phase, phash, present, gone, c, charged, missed>>,
         exits' = exits, netexits' = netexits, phase = "photo" => kern' = kern,
         \A j \in DOMAIN kern' \ DOMAIN kern : charged[j] = 0 /\ phase = "idle",
         \A i \in DOMAIN kern' \ DOMAIN kern : Unique(i)' => EntryInv(i)'
  PROVE  KernPart'
<1>1. Stored' = Stored /\ Sampling' = Sampling /\ MetTo' = MetTo /\ DoneTo' = DoneTo
  BY DEF Stored, Sampling, MetTo, DoneTo
<1>2. /\ acct' = acct /\ DOMAIN kern \subseteq DOMAIN kern'
      /\ \A i \in DOMAIN kern : kern[i].use \in Nat /\ kern'[i].use \in Nat /\ kern[i].use <= kern'[i].use
      /\ \A i \in DOMAIN kern : kern'[i].alive => kern[i].alive
  <2>1. \A i \in DOMAIN kern : kern[i].use \in Nat
    BY KernTypes
  <2>2. \A i \in DOMAIN kern' : kern'[i].use \in Nat
    <3>1. \A x \in Process : x.use \in Nat
      BY TaskAssumption DEF Process
    <3> QED
      BY <3>1 DEF TaskInv, KernelInv
  <2> QED
    BY <2>1, <2>2 DEF KernGrows
<1>3. SourceInv'
  <2>1. ASSUME NEW e \in Stored PROVE Inc(e) \in DOMAIN kern' /\ (e.isproc => e.use <= kern'[Inc(e)].use)
    <3>1. Inc(e) \in DOMAIN kern /\ (e.isproc => e.use <= kern[Inc(e)].use)
      BY DEF KernPart, SourceInv
    <3>2. e.use \in Int
      <4>1. BaseTypes
        BY DEF TaskInv
      <4>2. e.use \in 0 .. MaxUse
        BY <4>1, StoredPlace, TaskFields
      <4> QED
        BY <4>2
    <3> QED
      BY <1>2, <3>1, <3>2
  <2>2. CASE phase = "idle"
    <3>1. present' = << >> /\ DOMAIN present' = {}
      BY <2>2 DEF KernPart, SourceInv
    <3>2. \A i \in Incs \ DOMAIN kern' : charged'[i] = 0
      BY <1>2 DEF KernPart, SourceInv
    <3> QED
      BY <1>1, <2>1, <2>2, <3>1, <3>2 DEF SourceInv
  <2>3. CASE phase = "photo"
    BY <1>1, <1>2, <2>1, <2>3 DEF KernPart, SourceInv
  <2> QED
    BY <2>2, <2>3
<1>4. RecordInv'
  <2>1. exits \in Seq(Ended) /\ gone \in Seq(Ended)
    BY DEF TaskInv, KernelInv, SampleTypes
  <2>2. \A x \in Ended : x.use \in Nat
    BY TaskAssumption DEF Ended
  <2>3. \A k \in DOMAIN exits' : RecordOK(exits[k])'
    <3> SUFFICES ASSUME NEW k \in DOMAIN exits, NEW r \in Ended, r = exits[k] PROVE RecordOK(r)'
      BY <2>1
    <3> QED
      BY <2>2, RecordStays DEF KernPart, RecordInv
  <2>4. \A k \in DOMAIN gone' : RecordOK(gone[k])'
    <3> SUFFICES ASSUME NEW k \in DOMAIN gone, NEW r \in Ended, r = gone[k] PROVE RecordOK(r)'
      BY <2>1
    <3> QED
      BY <2>2, RecordStays DEF KernPart, RecordInv
  <2>5. \A k \in DOMAIN netexits' :
           LET i == <<netexits'[k].id, netexits'[k].btime>>
           IN i \in DOMAIN kern' /\ ~kern'[i].alive /\ netexits'[k].net = kern'[i].use
    BY DEF KernPart, RecordInv, KernGrows
  <2> QED
    BY <1>1, <2>3, <2>4, <2>5 DEF KernPart, RecordInv
<1>5. ASSUME NEW i \in DOMAIN kern', Unique(i)' PROVE EntryInv(i)'
  <2>1. CASE i \notin DOMAIN kern
    BY <1>5, <2>1
  <2>2. CASE i \in DOMAIN kern
    <3>1. Unique(i)
      BY <1>2, <1>5 DEF Unique
    <3>2. Pending(i)' => Pending(i)
      BY <1>1 DEF Pending
    <3>3. Awaited(i)' => Awaited(i)
      BY <1>1 DEF Awaited
    <3>4. Coming(i)' => Coming(i)
      BY <1>2, <2>2, <3>2, <3>3 DEF Coming
    <3>5. EntryInv(i)
      BY <2>2, <3>1 DEF KernPart
    <3> QED
      BY <1>1, <1>2, <2>2, <3>4, <3>5, EntryStays
  <2> QED
    BY <2>1, <2>2
<1> QED
  BY <1>3, <1>4, <1>5 DEF KernPart

LEMMA ForkShare ==
  ASSUME TaskInv, TaskInv', KernPart, phase = "idle", NEW p \in Pids, NEW name \in Names, Fork(p, name),
         UNCHANGED <<phase, phash, present, gone, c, charged, missed>>
  PROVE  KernPart'
<1>0. PICK n : n = <<p, now>>
  OBVIOUS
<1>1. /\ KernGrows /\ exits' = exits /\ netexits' = netexits
      /\ DOMAIN kern' = DOMAIN kern \cup {n} /\ n \notin DOMAIN kern
      /\ kern'[n].use = 0 /\ kern'[n].alive
  BY <1>0, ForkGrows
<1>2. n \in Incs /\ charged[n] = 0 /\ n[1] = p
  <2>1. now \in Times
    BY DEF TaskInv, KernelInv
  <2>2. n \in Incs /\ n[1] = p
    BY <1>0, <2>1 DEF Incs
  <2> QED
    BY <1>1, <2>2 DEF KernPart, SourceInv
<1>3. ASSUME Unique(n)' PROVE EntryInv(n)'
  <2>1. \A j \in DOMAIN kern : j[1] # n[1]
    BY <1>1, <1>3 DEF Unique
  <2>2. \A e \in Stored : ~Own(e, n)
    BY <2>1 DEF KernPart, SourceInv, Own, Inc
  <2>3. Stored' = Stored
    BY DEF Stored
  <2>4. charged'[n] = 0 /\ charged'[n] <= kern'[n].use
    BY <1>1, <1>2
  <2> QED
    BY <2>2, <2>3, <2>4 DEF EntryInv
<1>4. \A j \in DOMAIN kern' \ DOMAIN kern : j = n
  BY <1>1
<1> QED
  BY <1>1, <1>2, <1>3, <1>4, KernelShare

LEMMA ExitShare ==
  ASSUME TaskInv, TaskInv', KernPart, phase \in {"idle", "photo"}, NEW j \in Alive, Exit(j),
         UNCHANGED <<phase, phash, present, gone, c, charged, missed>>
  PROVE  KernPart'
<1>1. Stored' = Stored /\ Sampling' = Sampling /\ MetTo' = MetTo /\ DoneTo' = DoneTo /\ ~Sampling /\ gone = << >>
  BY DEF Stored, Sampling, MetTo, DoneTo, KernPart, RecordInv
<1>2. /\ KernGrows /\ acct' = acct /\ DOMAIN kern' = DOMAIN kern /\ j \in DOMAIN kern /\ kern[j].alive
      /\ \A i \in DOMAIN kern : kern'[i].use = kern[i].use /\ (i # j => kern'[i] = kern[i])
      /\ ~kern'[j].alive
      /\ ExitRecord(j, exits, exits')
  BY ExitGrows DEF KernGrows
<1>3. PICK n \in Traffic : netexits' = Append(netexits, n) /\ <<n.id, n.btime>> = j /\ n.net = kern[j].use /\ n.id = j[1]
  BY ExitGrows
<1>4. exits \in Seq(Ended) /\ netexits \in Seq(Traffic) /\ \A x \in Ended : x.use \in Nat
  <2>1. \A x \in Ended : x.use \in Nat
    BY TaskAssumption DEF Ended
  <2> QED
    BY <2>1 DEF TaskInv, KernelInv
<1>5. /\ \A k \in DOMAIN netexits : k \in DOMAIN netexits' /\ netexits'[k] = netexits[k]
      /\ \A k \in DOMAIN netexits' : (k \in DOMAIN netexits /\ netexits'[k] = netexits[k]) \/ netexits'[k] = n
      /\ \E k \in DOMAIN netexits' : netexits'[k] = n
  <2> DEFINE m == Len(netexits)
             t == Append(netexits, n)
  <2>1. /\ m \in Nat /\ DOMAIN t = 1 .. m + 1 /\ DOMAIN netexits = 1 .. m /\ t[m + 1] = n
        /\ \A k \in 1 .. m : t[k] = netexits[k]
    BY <1>4
  <2> HIDE DEF m, t
  <2>2. netexits' = t
    BY <1>3 DEF t
  <2> QED
    BY <2>1, <2>2
<1>6. ASSUME NEW r, \E k \in DOMAIN exits : exits[k] = r PROVE RecordOK(r)' /\ r.inc # j
  <2>1. RecordOK(r) /\ r \in Ended
    BY <1>4, <1>6 DEF KernPart, RecordInv
  <2>2. r.inc # j
    BY <1>2, <2>1 DEF RecordOK
  <2> QED
    BY <1>2, <1>4, <1>5, <2>1, <2>2, RecordStays
<1>7. /\ \A k \in DOMAIN exits' : RecordOK(exits[k])'
      /\ OneRecord(exits')
      /\ \A k \in DOMAIN exits' : exits'[k].inc = j \/ \E l \in DOMAIN exits : exits[l] = exits'[k]
      /\ \A k \in DOMAIN exits : k \in DOMAIN exits' /\ exits'[k] = exits[k]
      /\ acct # "off" => \E k \in DOMAIN exits' : exits'[k].inc = j
  <2>1. CASE acct = "off"
    <3>1. exits' = exits
      BY <1>2, <2>1 DEF ExitRecord
    <3> QED
      BY <1>6, <2>1, <3>1 DEF KernPart, RecordInv
  <2>2. CASE acct # "off"
    <3>1. PICK r \in Ended : /\ exits' = Append(exits, r) /\ r.inc = j /\ r.pid = IF acct = "v3" THEN j[1] ELSE NoPid
                            /\ r.use <= kern[j].use /\ Near(j[2], r.btime)
      BY <1>2, <2>2 DEF ExitRecord
    <3>2. OneRecord(exits) /\ \A k \in DOMAIN exits : exits[k].inc # r.inc
      BY <1>6, <3>1 DEF KernPart, RecordInv
    <3>3. /\ OneRecord(Append(exits, r))
          /\ \A k \in DOMAIN Append(exits, r) : (k \in DOMAIN exits /\ Append(exits, r)[k] = exits[k]) \/ Append(exits, r)[k] = r
          /\ \A k \in DOMAIN exits : k \in DOMAIN Append(exits, r) /\ Append(exits, r)[k] = exits[k]
          /\ Len(exits) + 1 \in DOMAIN Append(exits, r) /\ Append(exits, r)[Len(exits) + 1] = r
      BY <1>4, <3>2, OneMore
    <3>4. RecordOK(r)'
      <4>1. \E k \in DOMAIN netexits' : netexits'[k].id = r.inc[1]
        BY <1>3, <1>5, <3>1
      <4> QED
        BY <1>2, <2>2, <3>1, <4>1 DEF RecordOK
    <3> QED
      BY <1>6, <3>1, <3>3, <3>4
  <2> QED
    BY <2>1, <2>2
<1>8. RecordInv'
  <2>1. ASSUME NEW k \in DOMAIN netexits'
        PROVE LET i == <<netexits'[k].id, netexits'[k].btime>>
              IN i \in DOMAIN kern' /\ ~kern'[i].alive /\ netexits'[k].net = kern'[i].use
    <3>1. CASE netexits'[k] = n
      BY <1>2, <1>3, <3>1
    <3>2. CASE k \in DOMAIN netexits /\ netexits'[k] = netexits[k]
      BY <1>2, <3>2 DEF KernPart, RecordInv, KernGrows
    <3> QED
      BY <1>5, <3>1, <3>2
  <2>2. DOMAIN gone' = {} /\ OneRecord(gone')
    BY <1>1 DEF OneRecord
  <2> QED
    BY <1>1, <1>7, <2>1, <2>2 DEF RecordInv
<1>9. SourceInv'
  <2>1. ASSUME NEW k \in DOMAIN present
        PROVE  /\ Inc(present[k]) \in DOMAIN kern
               /\ present[k].isproc => present[k].use = kern'[Inc(present[k])].use
               /\ \/ acct = "off" \/ kern'[Inc(present[k])].alive
                  \/ \E l \in DOMAIN exits' : exits'[l].inc = Inc(present[k])
    <3>1. /\ Inc(present[k]) \in DOMAIN kern
          /\ present[k].isproc => present[k].use = kern[Inc(present[k])].use
          /\ \/ acct = "off" \/ kern[Inc(present[k])].alive
             \/ \E l \in DOMAIN exits : exits[l].inc = Inc(present[k])
      BY <1>1 DEF KernPart, SourceInv
    <3>2. CASE Inc(present[k]) = j
      BY <1>2, <1>7, <3>1, <3>2
    <3>3. CASE Inc(present[k]) # j
      BY <1>2, <1>7, <3>1, <3>3
    <3> QED
      BY <3>2, <3>3
  <2>2. \A e \in Stored : Inc(e) \in DOMAIN kern' /\ (e.isproc => e.use <= kern'[Inc(e)].use)
    BY <1>2 DEF KernPart, SourceInv
  <2>3. \A i \in DOMAIN kern' : phase' # "idle" /\ kern'[i].alive /\ i \notin missed' =>
          \E k \in DOMAIN present' : IsOf(present'[k], i)
    BY <1>2 DEF KernPart, SourceInv
  <2> QED
    BY <1>1, <1>2, <2>1, <2>2, <2>3 DEF KernPart, SourceInv
<1>10. ASSUME NEW i \in DOMAIN kern', Unique(i)' PROVE EntryInv(i)'
  <2>1. i \in DOMAIN kern /\ Unique(i) /\ EntryInv(i)
    BY <1>2, <1>10 DEF Unique, KernPart
  <2>2. kern[i].use \in Nat /\ kern'[i].use \in Nat /\ kern[i].use <= kern'[i].use /\ (kern'[i].alive => kern[i].alive)
    BY <1>2, <2>1, KernTypes
  <2>3. Pending(i)' => Pending(i) \/ i = j
    BY <1>1, <1>7 DEF Pending
  <2>4. Awaited(i)' => Awaited(i)
    BY <1>1 DEF Awaited
  <2>5. Coming(i)' => Coming(i)
    BY <1>2, <2>2, <2>3, <2>4 DEF Coming
  <2> QED
    BY <1>1, <1>2, <2>1, <2>2, <2>5, EntryStays
<1> QED
  BY <1>8, <1>9, <1>10 DEF KernPart

LEMMA WorldShare ==
  ASSUME TaskInv, TaskInv', ShareInv, World
  PROVE  ShareInv'
<1>1. /\ UNCHANGED <<phase, phash, present, gone, c, charged, missed, acct>>
      /\ phase \in {"idle", "photo"}
  BY WorldCases
<1>2. KernPart
  BY DEF ShareInv, KernPart
<1>3. \/ phase = "idle" /\ UNCHANGED <<kern, exits, netexits>>
      \/ phase = "idle" /\ \E p \in Pids, name \in Names : Fork(p, name)
      \/ phase = "idle" /\ \E i \in Alive : Run(i)
      \/ \E i \in Alive : Exit(i)
  BY WorldCases
<1>4. KernPart'
  <2>1. CASE phase = "idle" /\ UNCHANGED <<kern, exits, netexits>>
    <3>1. KernGrows
      <4>1. \A i \in DOMAIN kern : kern[i].use \in Nat
        BY KernTypes
      <4>2. \A i \in DOMAIN kern : kern[i].use <= kern'[i].use
        BY <2>1, <4>1
      <4> QED
        BY <1>1, <2>1, <4>2 DEF KernGrows
    <3> QED
      BY <1>1, <1>2, <2>1, <3>1, KernelShare
  <2>2. CASE phase = "idle" /\ \E p \in Pids, name \in Names : Fork(p, name)
    BY <1>1, <1>2, <2>2, ForkShare
  <2>3. ASSUME phase = "idle", NEW i \in Alive, Run(i) PROVE KernPart'
    <3>1. KernGrows /\ exits' = exits /\ netexits' = netexits /\ DOMAIN kern' = DOMAIN kern
      BY <2>3, RunGrows
    <3> QED
      BY <1>1, <1>2, <2>3, <3>1, KernelShare
  <2>4. ASSUME NEW i \in Alive, Exit(i) PROVE KernPart'
    BY <1>1, <1>2, <2>4, ExitShare
  <2> QED
    BY <1>3, <2>1, <2>2, <2>3, <2>4
<1>5. gone' = << >>
  BY <1>1 DEF ShareInv, RecordInv, Sampling
<1>6. NetInv' /\ \A i : MetInv(i)' /\ LeftInv(i)'
  BY <1>1, <1>5, Quiet
<1> QED
  BY <1>4, <1>6 DEF ShareInv, KernPart

---------------------------------------------------------------------------
(* What is shown for a process: the sample, step by step.                    *)

LEMMA PhotoShare ==
  ASSUME TaskInv, TaskInv', ShareInv, Photo
  PROVE  ShareInv'
<1>1. /\ phase = "idle" /\ phase' = "photo" /\ present' = photoproc /\ missed \subseteq missed'
      /\ \A i \in Alive : i \notin missed' => \E k \in DOMAIN photoproc : Inc(photoproc[k]) = i
      /\ UNCHANGED <<acct, kern, exits, netexits, phash, gone, c, prev, charged>>
  BY DEF Photo, world, base
<1>2. KernelInv
  BY DEF TaskInv
<1>3. Stored' = Stored /\ ~Sampling /\ ~Sampling' /\ DoneTo = 0 /\ DoneTo' = 0 /\ gone = << >> /\ gone' = << >>
  BY <1>1 DEF Stored, Sampling, DoneTo, ShareInv, RecordInv
<1>4. ASSUME NEW k \in DOMAIN present'
      PROVE  /\ Inc(present'[k]) \in DOMAIN kern /\ kern[Inc(present'[k])].alive
             /\ present'[k].isproc => present'[k].use = kern[Inc(present'[k])].use
  <2>1. PICK i \in Alive : photoproc[k] \in {ProcEntry(i), ThreadEntry(i)}
    BY <1>1, <1>2, PhotoFacts
  <2>2. Inc(photoproc[k]) = i /\ (photoproc[k].isproc => photoproc[k].use = kern[i].use)
    BY <1>2, <2>1, EntryFacts
  <2> QED
    BY <1>1, <2>2 DEF Alive
<1>5. ASSUME NEW i \in DOMAIN kern, kern[i].alive, i \notin missed' PROVE \E k \in DOMAIN present' : IsOf(present'[k], i)
  <2>1. PICK k \in DOMAIN photoproc : Inc(photoproc[k]) = i
    BY <1>1, <1>5 DEF Alive
  <2>2. PICK j \in Alive, l \in DOMAIN photoproc : Inc(photoproc[k]) = j /\ photoproc[l] = ProcEntry(j)
    BY <1>2, <2>1, PhotoFacts
  <2>3. photoproc[l].isproc /\ Inc(photoproc[l]) = i
    BY <1>2, <2>1, <2>2, EntryFacts
  <2> QED
    BY <1>1, <2>3 DEF IsOf
<1>6. SourceInv'
  BY <1>1, <1>3, <1>4, <1>5 DEF ShareInv, SourceInv
<1>7. RecordInv'
  <2>1. \A k \in DOMAIN exits' : RecordOK(exits[k])'
    BY <1>1 DEF ShareInv, RecordInv, RecordOK
  <2>2. DOMAIN gone' = {}
    BY <1>3
  <2> QED
    BY <1>1, <1>3, <2>1, <2>2 DEF ShareInv, RecordInv
<1>8. ASSUME NEW i \in DOMAIN kern', Unique(i)' PROVE EntryInv(i)'
  <2>1. i \in DOMAIN kern /\ Unique(i) /\ EntryInv(i)
    BY <1>1, <1>8 DEF Unique, ShareInv
  <2>2. kern[i].use \in Nat /\ kern'[i] = kern[i] /\ kern[i].use <= kern[i].use
    BY <1>1, <2>1, KernTypes
  <2>3. Pending(i)' => Pending(i)
    BY <1>1, <1>3 DEF Pending
  <2>4. Awaited(i)' => kern[i].alive
    BY <1>4 DEF Awaited, IsOf
  <2>5. Coming(i)' => Coming(i)
    BY <1>1, <2>3, <2>4 DEF Coming
  <2> QED
    BY <1>1, <1>3, <2>1, <2>2, <2>5, EntryStays
<1>9. NetInv' /\ \A i : MetInv(i)' /\ LeftInv(i)'
  BY <1>1, <1>3, Quiet
<1> QED
  BY <1>6, <1>7, <1>8, <1>9 DEF ShareInv

LEMMA DeviatStartShare ==
  ASSUME TaskInv, TaskInv', ShareInv, DeviatStart
  PROVE  ShareInv'
<1>1. /\ phase = "photo" /\ phase' = "present" /\ gone' = exits /\ exits' = << >> /\ prev' = Stored /\ c' = 1
      /\ UNCHANGED <<acct, kern, netexits, phash, present, charged, missed>>
  BY DEF DeviatStart
<1>2. /\ Stored' = Stored /\ ~Sampling /\ Sampling' /\ DoneTo = 0 /\ DoneTo' = 0 /\ MetTo = 0 /\ MetTo' = 0
      /\ gone = << >> /\ DOMAIN gone = {} /\ DOMAIN exits' = {}
  <2>1. ~Sampling /\ gone = << >>
    BY <1>1 DEF Sampling, ShareInv, RecordInv
  <2> QED
    BY <1>1, <2>1 DEF Stored, Sampling, DoneTo, MetTo
<1>3. exits \in Seq(Ended) /\ present \in Seq(Task)
  BY DEF TaskInv, KernelInv, SampleTypes
<1>4. (\A k \in DOMAIN exits : k > 0) /\ (\A k \in DOMAIN present : ~(k <= 0))
  BY <1>3
<1>5. SourceInv'
  BY <1>1, <1>2 DEF ShareInv, SourceInv
<1>6. RecordInv'
  <2>1. \A k \in DOMAIN gone' : RecordOK(gone[k])'
    BY <1>1 DEF ShareInv, RecordInv, RecordOK
  <2>2. OneRecord(exits')
    BY <1>2 DEF OneRecord
  <2> QED
    BY <1>1, <1>2, <2>1, <2>2 DEF ShareInv, RecordInv
<1>7. ASSUME NEW i \in DOMAIN kern', Unique(i)' PROVE EntryInv(i)' /\ MetInv(i)' /\ LeftInv(i)'
  <2>1. i \in DOMAIN kern /\ EntryInv(i)
    BY <1>1, <1>7 DEF Unique, ShareInv
  <2>2. kern[i].use \in Nat /\ kern'[i] = kern[i] /\ kern[i].use <= kern[i].use
    BY <1>1, <2>1, KernTypes
  <2>3. Pending(i)' => Pending(i)
    BY <1>1, <1>2 DEF Pending
  <2>4. Awaited(i)' => Awaited(i)
    BY <1>1, <1>2 DEF Awaited
  <2>5. Coming(i)' => Coming(i)
    BY <1>1, <2>3, <2>4 DEF Coming
  <2>6. EntryInv(i)'
    BY <1>1, <1>2, <2>1, <2>2, <2>5, EntryStays
  <2>7. MetInv(i)'
    BY <1>1, <1>2, <1>4 DEF MetInv
  <2>8. LeftInv(i)'
    BY <1>1, <1>2 DEF LeftInv
  <2> QED
    BY <2>6, <2>7, <2>8
<1>8. NetInv'
  <2>1. \A g \in DOMAIN gone' : ~(g <= 0)
    BY <1>1, <1>3
  <2> QED
    BY <1>1, <1>2, <2>1 DEF NetInv
<1> QED
  BY <1>5, <1>6, <1>7, <1>8 DEF ShareInv

\* Nothing of what is shown changes when a loop ends.
LEMMA LoopEnds ==
  ASSUME TaskInv, ShareInv, MetTo' = MetTo, DoneTo' = DoneTo, Sampling' = Sampling,
         UNCHANGED <<acct, kern, exits, netexits, phash, presidue, present, gone, taskall, prev, charged, missed>>,
         phase' = "idle" => phase = "idle", phase = "idle" => phase' = "idle", phase = "clean" => phase' = "clean"
  PROVE  ShareInv'
<1>1. Stored' = Stored /\ Byp' = Byp
  BY DEF Stored, Byp
<1>2. SourceInv'
  BY <1>1 DEF ShareInv, SourceInv
<1>3. RecordInv'
  <2>1. \A k \in DOMAIN exits' : RecordOK(exits[k])'
    BY DEF ShareInv, RecordInv, RecordOK
  <2>2. \A k \in DOMAIN gone' : RecordOK(gone[k])'
    BY DEF ShareInv, RecordInv, RecordOK
  <2> QED
    BY <2>1, <2>2 DEF ShareInv, RecordInv
<1>4. NetInv'
  <2>1. \A i : Unique(i)' = Unique(i) /\ LastSeen(i)' = LastSeen(i)
    BY DEF Unique, LastSeen
  <2>2. ASSUME Byp', NEW g \in DOMAIN gone', g <= DoneTo', Unique(gone[g].inc)'
        PROVE  taskall'[Len(present') + g].net = kern'[gone'[g].inc].use - LastSeen(gone[g].inc)'
    <3>1. PICK i : i = gone[g].inc
      OBVIOUS
    <3>2. gone'[g].inc = i
      BY <3>1
    <3>3. Unique(i)
      BY <2>2, <3>1 DEF Unique
    <3>4. taskall[Len(present) + g].net = kern[i].use - LastSeen(i)
      BY <1>1, <2>2, <3>1, <3>3 DEF ShareInv, NetInv
    <3>5. LastSeen(gone[g].inc)' = LastSeen(i)
      BY <3>1 DEF LastSeen
    <3> QED
      BY <3>2, <3>4, <3>5
  <2> QED
    BY <1>1, <2>2 DEF ShareInv, NetInv
<1>5. ASSUME NEW i \in DOMAIN kern', Unique(i)' PROVE EntryInv(i)' /\ MetInv(i)' /\ LeftInv(i)'
  <2>1. i \in DOMAIN kern /\ EntryInv(i) /\ MetInv(i) /\ LeftInv(i)
    BY <1>5 DEF Unique, ShareInv
  <2>2. kern[i].use \in Nat /\ kern[i].use <= kern[i].use
    BY <2>1, KernTypes
  <2>3. (Pending(i)' <=> Pending(i)) /\ (Awaited(i)' <=> Awaited(i))
    BY DEF Pending, Awaited
  <2>4. Coming(i)' => Coming(i)
    BY <2>3 DEF Coming
  <2>5. EntryInv(i)'
    BY <1>1, <2>1, <2>2, <2>4, EntryStays
  <2>6. MetInv(i)'
    BY <1>1, <2>1 DEF MetInv
  <2>7. LeftInv(i)'
    BY <1>1, <2>1, <2>3 DEF LeftInv
  <2> QED
    BY <2>5, <2>6, <2>7
<1> QED
  BY <1>2, <1>3, <1>4, <1>5 DEF ShareInv

LEMMA PresentDoneShare ==
  ASSUME TaskInv, ShareInv, PresentDone
  PROVE  ShareInv'
<1>1. /\ phase = "present" /\ c > Len(present) /\ phase' = "exited" /\ c' = 1
      /\ UNCHANGED <<acct, kern, exits, netexits, phash, presidue, present, gone, taskall, prev, charged, missed>>
  BY DEF PresentDone, world, base
<1>2. c \in Nat /\ Len(present) \in Nat /\ c <= Len(present) + 1
  BY <1>1 DEF TaskInv, SampleTypes, ListInv
<1>3. MetTo' = MetTo /\ DoneTo' = DoneTo /\ Sampling' = Sampling
  BY <1>1, <1>2 DEF MetTo, DoneTo, Sampling
<1> QED
  BY <1>1, <1>3, LoopEnds

LEMMA ExitedDoneShare ==
  ASSUME TaskInv, ShareInv, ExitedDone
  PROVE  ShareInv'
<1>1. /\ phase = "exited" /\ c > Len(gone) /\ phase' = "clean"
      /\ UNCHANGED <<acct, kern, exits, netexits, phash, presidue, present, gone, taskall, prev, charged, missed>>
  BY DEF ExitedDone, world, sample
<1>2. c \in Nat /\ Len(gone) \in Nat /\ c <= Len(gone) + 1
  BY <1>1 DEF TaskInv, SampleTypes, ListInv
<1>3. MetTo' = MetTo /\ DoneTo' = DoneTo /\ Sampling' = Sampling
  BY <1>1, <1>2 DEF MetTo, DoneTo, Sampling
<1> QED
  BY <1>1, <1>3, LoopEnds

LEMMA DeviatDoneShare ==
  ASSUME TaskInv, TaskInv', ShareInv, DeviatDone
  PROVE  ShareInv'
<1>1. /\ phase = "clean" /\ phase' = "idle" /\ netexits' = << >> /\ present' = << >> /\ gone' = << >>
      /\ UNCHANGED <<acct, kern, exits, phash, charged, missed>>
  BY DEF DeviatDone
<1>2. /\ Stored' = Stored /\ Sampling /\ ~Sampling' /\ exits = << >> /\ DOMAIN exits' = {} /\ DOMAIN gone' = {}
      /\ DOMAIN present' = {} /\ DOMAIN netexits' = {}
  <2>1. Sampling /\ ~Sampling' /\ exits = << >>
    BY <1>1 DEF Sampling, ShareInv, RecordInv
  <2> QED
    BY <1>1, <2>1 DEF Stored
<1>3. SourceInv'
  BY <1>1, <1>2 DEF ShareInv, SourceInv
<1>4. RecordInv'
  BY <1>1, <1>2 DEF RecordInv, OneRecord
<1>5. ASSUME NEW i \in DOMAIN kern', Unique(i)' PROVE EntryInv(i)'
  <2>1. i \in DOMAIN kern /\ EntryInv(i)
    BY <1>1, <1>5 DEF Unique, ShareInv
  <2>2. kern[i].use \in Nat /\ kern[i].use <= kern[i].use
    BY <2>1, KernTypes
  <2>3. ~Pending(i)' /\ ~Awaited(i)'
    BY <1>2 DEF Pending, Awaited
  <2>4. Coming(i)' => Coming(i)
    BY <1>1, <2>3 DEF Coming
  <2> QED
    BY <1>1, <1>2, <2>1, <2>2, <2>4, EntryStays
<1>6. NetInv' /\ \A i : MetInv(i)' /\ LeftInv(i)'
  BY <1>1, Quiet
<1> QED
  BY <1>3, <1>4, <1>5, <1>6 DEF ShareInv

LEMMA ChargeFacts ==
  ASSUME charged \in [Incs -> Nat], NEW i \in Incs, NEW n \in Nat, charged' = Charge(i, n)
  PROVE  /\ charged[i] + n <= MaxUse => charged'[i] = charged[i] + n
         /\ \A j \in Incs : j # i => charged'[j] = charged[j]
<1>1. MaxUse \in Nat /\ charged[i] \in Nat
  BY TaskAssumption
<1> DEFINE x == IF charged[i] + n > MaxUse THEN MaxUse + 1 ELSE charged[i] + n
<1>2. charged' = [charged EXCEPT ![i] = x]
  BY DEF Charge
<1>3. charged[i] + n <= MaxUse => x = charged[i] + n
  BY <1>1
<1> HIDE DEF x
<1> QED
  BY <1>2, <1>3

\* Of a key that RESIDUE does not chain any more there is one entry.
LEMMA OneLeft ==
  ASSUME TaskInv', Sampling', NEW x, \A e \in ToSet(presidue') : ~SameKey(e, x)
  PROVE  \A e, f \in Stored' : SameKey(e, x) /\ SameKey(f, x) => e = f
<1>1. /\ phash' \in [Queues -> Seq(Task)] /\ \A b \in Queues : QueueOK(phash'[b], prev', ToVisit')
      /\ \A b \in Queues : \A k \in DOMAIN phash'[b] : Bucket(phash'[b][k].pid) = b
  BY DEF TaskInv, BaseTypes, ChainInv
<1>2. ToVisit' \subseteq ToSet(presidue')
  BY DEF ToVisit, Ahead, ToSet
<1>3. Stored' = StoredIn(phash')
  BY DEF Stored, StoredIn
<1> SUFFICES ASSUME NEW e \in Stored', NEW f \in Stored', SameKey(e, x), SameKey(f, x), e # f PROVE FALSE
  OBVIOUS
<1>4. PICK a \in Queues : \E k \in DOMAIN phash'[a] : e = phash'[a][k]
  BY <1>1, <1>3, StoredAt
<1>5. PICK b \in Queues : \E k \in DOMAIN phash'[b] : f = phash'[b][k]
  BY <1>1, <1>3, StoredAt
<1>6. a = b
  BY <1>1, <1>4, <1>5 DEF SameKey
<1>7. PICK q \in Seq(Task) : q = phash'[a]
  BY <1>1
<1>8. PICK k \in DOMAIN q, l \in DOMAIN q : e = q[k] /\ f = q[l] /\ QueueOK(q, prev', ToVisit')
  BY <1>1, <1>4, <1>5, <1>6, <1>7
<1>9. k < l \/ l < k
  BY <1>7, <1>8
<1>10. SameKey(q[k], q[l]) /\ SameKey(q[l], q[k])
  BY <1>8 DEF SameKey
<1>11. q[k] \in ToVisit' \/ q[l] \in ToVisit'
  BY <1>8, <1>9, <1>10 DEF QueueOK
<1> QED
  BY <1>2, <1>8, <1>11

\* A pass that leaves the entries of i alone.
LEMMA OtherShare ==
  ASSUME TaskInv, NEW i \in DOMAIN kern, EntryInv(i), MetInv(i), LeftInv(i), Sampling,
         UNCHANGED <<acct, kern, exits, phase, present, gone, prev>>, charged'[i] = charged[i],
         \A e : Own(e, i) => (e \in Stored' <=> e \in Stored),
         \A e \in ToSet(presidue') : Own(e, i) => e \in ToSet(presidue),
         \A k \in DOMAIN present : k <= MetTo' /\ IsOf(present[k], i) => k <= MetTo,
         \A k \in DOMAIN present : k <= MetTo => k <= MetTo',
         \A g \in DOMAIN gone : g <= DoneTo => g <= DoneTo',
         MetTo \in Nat, MetTo' \in Nat, DoneTo \in Nat, DoneTo' \in Nat
  PROVE  EntryInv(i)' /\ MetInv(i)' /\ LeftInv(i)'
<1>0. DOMAIN present \subseteq Nat /\ DOMAIN gone \subseteq Nat
  BY DEF TaskInv, SampleTypes
<1>1. Traced(i)' <=> Traced(i)
  BY DEF Traced
<1>2. Pending(i)' => Pending(i)
  BY <1>0 DEF Pending
<1>3. Awaited(i)' => Awaited(i)
  BY <1>0 DEF Awaited
<1>4. Coming(i)' => Coming(i)
  BY <1>2, <1>3 DEF Coming
<1>5. EntryInv(i)'
  <2>1. \A e, f \in Stored' : Own(e, i) /\ Own(f, i) => e = f
    BY DEF EntryInv
  <2>2. Traced(i)' => \A e \in Stored' : Own(e, i) => charged'[i] = e.use
    BY <1>1 DEF EntryInv
  <2>3. Traced(i)' /\ Coming(i)' /\ (\A e \in Stored' : ~Own(e, i)) => charged'[i] = 0
    BY <1>1, <1>4 DEF EntryInv
  <2>4. acct' # "v2" => charged'[i] <= kern'[i].use
    BY DEF EntryInv
  <2> QED
    BY <2>1, <2>2, <2>3, <2>4 DEF EntryInv
<1>6. MetInv(i)'
  <2> SUFFICES ASSUME NEW k \in DOMAIN present, k <= MetTo', IsOf(present[k], i)
               PROVE  /\ \A e \in ToSet(presidue') : ~Own(e, i)
                      /\ (\A g \in DOMAIN gone : gone[g].inc # i) => charged'[i] = present[k].use
                      /\ phase # "clean" /\ acct # "v2" /\ (\A g \in DOMAIN gone : g <= DoneTo' => gone[g].inc # i) =>
                           present[k] \in Stored'
    BY DEF MetInv
  <2>1. k <= MetTo /\ Own(present[k], i)
    BY DEF IsOf, Own, Inc
  <2>2. /\ \A e \in ToSet(presidue) : ~Own(e, i)
        /\ (\A g \in DOMAIN gone : gone[g].inc # i) => charged[i] = present[k].use
        /\ phase # "clean" /\ acct # "v2" /\ (\A g \in DOMAIN gone : g <= DoneTo => gone[g].inc # i) =>
             present[k] \in Stored
    BY <2>1 DEF MetInv
  <2> QED
    BY <2>1, <2>2
<1>7. LeftInv(i)'
  <2>1. Sampling' = Sampling
    BY DEF Sampling
  <2> QED
    BY <1>2, <2>1 DEF LeftInv
<1> QED
  BY <1>5, <1>6, <1>7

LEMMA NearIsFound ==
  ASSUME BaseTypes, NEW cur \in Task, NEW e \in Stored, SameKey(e, cur), Near(e.btime, cur.btime)
  PROVE  Found(cur) # 0
<1>1. cur.pid \in Pids /\ e.pid = cur.pid /\ e.isproc = cur.isproc
  BY TaskFields DEF SameKey
<1>2. PICK q : q = phash[Bucket(cur.pid)]
  OBVIOUS
<1>3. PICK k \in DOMAIN q : q[k] = e
  BY <1>1, <1>2, StoredPlace
<1> SUFFICES ASSUME Found(cur) = 0 PROVE FALSE
  OBVIOUS
<1>4. \A l \in DOMAIN q : ~(q[l].pid = cur.pid /\ q[l].isproc = cur.isproc /\ Near(q[l].btime, cur.btime))
  BY <1>1, <1>2, GettaskFacts DEF Found
<1> QED
  BY <1>1, <1>3, <1>4

\* What the first loop shows of a task adds up to the counter of the task.
LEMMA PresentOwn ==
  ASSUME TaskInv, TaskInv', ShareInv, PresentTask, NEW cur \in Task, cur = present[c], cur.isproc,
         NEW i \in DOMAIN kern, i = Inc(cur), Unique(i)
  PROVE  /\ Traced(i) => charged'[i] = cur.use
         /\ \A e \in ToSet(presidue') : ~Own(e, i)
         /\ \A e \in Stored' : Own(e, i) => e = cur
<1>1. /\ phase = "present" /\ c <= Len(present) /\ charged' = Charge(Inc(cur), Lasting(cur).use)
      /\ Found(cur) = 0 => presidue' = presidue
      /\ UNCHANGED <<acct, kern, exits, phase, present, gone, prev>>
  <2>1. cur.isproc => charged' = Charge(Inc(cur), Lasting(cur).use)
    BY PresentTaskParts
  <2> QED
    BY <2>1, PresentTaskParts DEF world
<1>2. BaseTypes /\ DataInv /\ charged \in [Incs -> Nat] /\ OneEach(presidue) /\ presidue \in Seq(Task)
  BY DEF TaskInv, DataInv, BaseTypes, SampleTypes, ChainInv
<1>3. ToSet(presidue) \subseteq Stored /\ Sampling'
  BY <1>1 DEF TaskInv, ChainInv, Sampling
<1>4. i[1] = cur.pid /\ i[2] = cur.btime
  BY DEF Inc
<1>5. ASSUME NEW e \in Stored, Own(e, i)
      PROVE  SameKey(e, cur) /\ Found(cur) # 0
  <2>1. e.btime = cur.btime /\ e \in Task
    BY <1>2, <1>4, <1>5, OwnFacts, StoredPlace DEF ShareInv, Own
  <2>2. Near(e.btime, cur.btime)
    BY <2>1, TaskFields DEF Near
  <2>3. e.pid = cur.pid /\ e.isproc = cur.isproc
    <3>1. e.isproc \in BOOLEAN /\ cur.isproc \in BOOLEAN
      BY <2>1, TaskFields
    <3> QED
      BY <1>4, <1>5, <3>1 DEF Own
  <2>4. SameKey(e, cur)
    BY <2>3 DEF SameKey
  <2> QED
    BY <1>2, <2>2, <2>4, NearIsFound
<1>6. /\ Stored' \subseteq Stored \cup {cur} /\ cur \in Stored'
      /\ ToSet(presidue') \subseteq ToSet(presidue)
      /\ Found(cur) # 0 => ToSet(presidue') = ToSet(presidue) \ {Known(cur)} /\ Known(cur) \in ToSet(presidue)
  BY <1>2, PresentBase
<1>7. Found(cur) # 0 => Known(cur) \in Stored /\ SameKey(Known(cur), cur)
  BY <1>2, LastingFacts
<1>8. ASSUME NEW e \in ToSet(presidue'), SameKey(e, cur) PROVE FALSE
  <2>1. e \in Stored /\ Own(e, i)
    BY <1>3, <1>4, <1>6, <1>8 DEF SameKey, Own
  <2>2. Found(cur) # 0
    BY <1>5, <2>1
  <2>3. e \in ToSet(presidue) /\ e # Known(cur) /\ SameKey(e, Known(cur)) /\ Known(cur) \in ToSet(presidue)
    BY <1>6, <1>7, <1>8, <2>2 DEF SameKey
  <2>4. PICK k \in DOMAIN presidue, l \in DOMAIN presidue : presidue[k] = e /\ presidue[l] = Known(cur)
    BY <2>3 DEF ToSet
  <2>5. k = l
    BY <1>2, <2>3, <2>4 DEF OneEach
  <2> QED
    BY <2>3, <2>4, <2>5
<1>9. \A e \in Task : Own(e, i) => SameKey(e, cur)
  <2> SUFFICES ASSUME NEW e \in Task, Own(e, i) PROVE SameKey(e, cur)
    OBVIOUS
  <2>1. e.isproc \in BOOLEAN /\ cur.isproc \in BOOLEAN
    BY TaskFields
  <2> QED
    BY <1>4, <2>1 DEF Own, SameKey
<1>10. Stored' \subseteq Task /\ ToSet(presidue') \subseteq Task
  BY <1>2, <1>3, <1>6, StoredPlace
<1>11. \A e \in Stored' : Own(e, i) => e = cur
  <2>1. \A e, f \in Stored' : SameKey(e, cur) /\ SameKey(f, cur) => e = f
    BY <1>3, <1>8, OneLeft
  <2>2. SameKey(cur, cur)
    BY DEF SameKey
  <2> QED
    BY <1>6, <1>9, <1>10, <2>1, <2>2
<1>12. ASSUME Traced(i) PROVE charged'[i] = cur.use
  <2>0. /\ i \in Incs /\ charged[i] \in Nat /\ cur.use \in 0 .. MaxUse /\ MaxUse \in Nat /\ Lasting(cur).use \in Nat
        /\ EntryInv(i) /\ SourceInv
    BY <1>2, KernTypes, TaskFields, TaskAssumption, LastingFacts DEF ShareInv
  <2>1. charged[i] + Lasting(cur).use = cur.use
    <3>1. CASE Found(cur) # 0
      <4>1. Known(cur) \in Stored /\ Own(Known(cur), i) /\ Known(cur) \in Task
        BY <1>2, <1>4, <1>7, <3>1, StoredPlace DEF SameKey, Own
      <4>2. charged[i] = Known(cur).use
        BY <1>12, <2>0, <4>1 DEF EntryInv
      <4>3. Known(cur).use <= kern[i].use
        <5>1. Inc(Known(cur)) = i
          BY <4>1, OwnFacts DEF Own, ShareInv
        <5> QED
          BY <2>0, <4>1, <5>1 DEF SourceInv, Own
      <4>4. cur.use = kern[i].use
        <5>1. c \in DOMAIN present
          BY <1>1 DEF TaskInv, SampleTypes
        <5> QED
          BY <2>0, <5>1 DEF SourceInv
      <4>5. Lasting(cur).use = cur.use - Known(cur).use
        BY <1>2, <3>1, <4>3, <4>4, LastingFacts
      <4> QED
        BY <2>0, <4>2, <4>5
    <3>2. CASE Found(cur) = 0
      <4>1. \A e \in Stored : ~Own(e, i)
        BY <1>5, <3>2
      <4>2. Awaited(i)
        <5>1. c \in DOMAIN present /\ c > MetTo
          BY <1>1 DEF TaskInv, SampleTypes, MetTo
        <5> QED
          BY <5>1 DEF Awaited, IsOf
      <4>3. charged[i] = 0
        BY <1>12, <2>0, <4>1, <4>2 DEF EntryInv, Coming
      <4>4. Lasting(cur).use = cur.use
        BY <1>2, <3>2, LastingFacts DEF Same
      <4> QED
        BY <2>0, <4>3, <4>4
    <3> QED
      BY <3>1, <3>2
  <2>2. charged[i] + Lasting(cur).use <= MaxUse
    BY <2>0, <2>1
  <2> QED
    BY <1>1, <1>2, <2>0, <2>1, <2>2, ChargeFacts
<1> QED
  BY <1>8, <1>9, <1>10, <1>11, <1>12

LEMMA PresentTaskShare ==
  ASSUME TaskInv, TaskInv', ShareInv, PresentTask
  PROVE  ShareInv'
<1>1. PICK cur \in Task : cur = present[c] /\ c \in DOMAIN present
  <2>1. c \in DOMAIN present /\ present \in Seq(Task)
    BY PresentTaskParts DEF TaskInv, SampleTypes
  <2> QED
    BY <2>1
<1>2. /\ phase = "present" /\ c' = c + 1
      /\ cur.isproc => charged' = Charge(Inc(cur), Lasting(cur).use)
      /\ ~cur.isproc => charged' = charged
      /\ UNCHANGED <<acct, kern, exits, netexits, phase, present, gone, prev, missed>>
  BY <1>1, PresentTaskParts DEF world
<1>3. /\ Stored' \subseteq Stored \cup {cur} /\ cur \in Stored'
      /\ \A e \in Stored : ~SameKey(e, cur) => e \in Stored'
      /\ ToSet(presidue') \subseteq ToSet(presidue)
  <2>1. DataInv
    BY DEF TaskInv, DataInv
  <2> QED
    BY <1>1, <2>1, PresentBase
<1>4. /\ Sampling /\ Sampling' /\ MetTo = c - 1 /\ MetTo' = c /\ DoneTo = 0 /\ DoneTo' = 0 /\ c \in Nat \ {0}
      /\ present \in Seq(Task) /\ gone \in Seq(Ended) /\ exits = << >> /\ charged \in [Incs -> Nat] /\ BaseTypes
  <2>1. c \in Nat \ {0} /\ present \in Seq(Task) /\ gone \in Seq(Ended) /\ charged \in [Incs -> Nat] /\ BaseTypes
    BY DEF TaskInv, SampleTypes
  <2>2. Sampling /\ Sampling' /\ DoneTo = 0 /\ DoneTo' = 0 /\ MetTo = c - 1
    BY <1>2 DEF Sampling, DoneTo, MetTo
  <2>3. MetTo' = c
    BY <1>2, <2>1 DEF MetTo
  <2> QED
    BY <2>1, <2>2, <2>3 DEF ShareInv, RecordInv
<1>5. SourceInv /\ RecordInv /\ NetInv
  BY DEF ShareInv
<1>6. Inc(cur) \in DOMAIN kern /\ Inc(cur) \in Incs /\ (cur.isproc => cur.use = kern[Inc(cur)].use) /\ Lasting(cur).use \in Nat
  <2>1. Inc(cur) \in DOMAIN kern /\ (cur.isproc => cur.use = kern[Inc(cur)].use)
    BY <1>1, <1>5 DEF SourceInv
  <2>2. Inc(cur) \in Incs
    BY <2>1, KernTypes
  <2> QED
    BY <1>4, <2>1, <2>2, LastingFacts
<1>7. \A i \in Incs : i # Inc(cur) \/ ~cur.isproc => charged'[i] = charged[i]
  BY <1>2, <1>4, <1>6, ChargeFacts
<1>8. SourceInv'
  <2>1. \A e \in Stored' : Inc(e) \in DOMAIN kern' /\ (e.isproc => e.use <= kern'[Inc(e)].use)
    <3> SUFFICES ASSUME NEW e \in Stored' PROVE Inc(e) \in DOMAIN kern /\ (e.isproc => e.use <= kern[Inc(e)].use)
      BY <1>2
    <3>1. CASE e \in Stored
      BY <1>5, <3>1 DEF SourceInv
    <3>2. CASE e = cur
      <4>1. kern[Inc(cur)].use \in Nat
        BY <1>6, KernTypes
      <4> QED
        BY <1>6, <3>2, <4>1
    <3> QED
      BY <1>3, <3>1, <3>2
  <2>2. \A i \in Incs \ DOMAIN kern' : charged'[i] = 0
    BY <1>2, <1>5, <1>6, <1>7 DEF SourceInv
  <2> QED
    BY <1>2, <1>5, <2>1, <2>2 DEF SourceInv
<1>9. RecordInv'
  <2>1. \A k \in DOMAIN gone' : RecordOK(gone[k])'
    BY <1>2, <1>5 DEF RecordInv, RecordOK
  <2>2. DOMAIN exits' = {}
    BY <1>2, <1>4
  <2> QED
    BY <1>2, <1>4, <1>5, <2>1, <2>2 DEF RecordInv
<1>10. NetInv'
  <2>1. \A g \in DOMAIN gone' : ~(g <= DoneTo')
    BY <1>2, <1>4
  <2>2. cur \in ToSet(present)
    BY <1>1 DEF ToSet
  <2>3. Stored' \subseteq prev' \cup ToSet(present')
    BY <1>2, <1>3, <1>4, <1>5, <2>2 DEF NetInv
  <2> QED
    BY <2>1, <2>3 DEF NetInv
<1>11. ASSUME NEW i \in DOMAIN kern', Unique(i)' PROVE EntryInv(i)' /\ MetInv(i)' /\ LeftInv(i)'
  <2>1. i \in DOMAIN kern /\ Unique(i) /\ EntryInv(i) /\ MetInv(i) /\ LeftInv(i)
    BY <1>2, <1>11 DEF Unique, ShareInv
  <2>2. CASE cur.isproc /\ i = Inc(cur)
    <3>1. /\ Traced(i) => charged'[i] = cur.use
          /\ \A e \in ToSet(presidue') : ~Own(e, i)
          /\ \A e \in Stored' : Own(e, i) => e = cur
      BY <1>1, <2>1, <2>2, PresentOwn
    <3>2. Own(cur, i) /\ IsOf(cur, i) /\ kern[i].use \in Nat
      BY <2>1, <2>2, KernTypes DEF Own, IsOf, Inc
    <3>3. EntryInv(i)'
      <4>1. Traced(i)' => Traced(i)
        BY <1>2 DEF Traced
      <4>2. acct # "v2" => charged'[i] <= kern[i].use
        <5>1. acct # "v2" => charged'[i] = kern[i].use
          BY <1>6, <2>2, <3>1 DEF Traced
        <5> QED
          BY <3>2, <5>1
      <4>3. Traced(i)' => \A e \in Stored' : Own(e, i) => charged'[i] = e.use
        BY <3>1, <4>1
      <4>4. \A e, f \in Stored' : Own(e, i) /\ Own(f, i) => e = f
        BY <3>1
      <4>5. ~\A e \in Stored' : ~Own(e, i)
        BY <1>3, <3>2
      <4> QED
        BY <1>2, <4>2, <4>3, <4>4, <4>5 DEF EntryInv
    <3>4. MetInv(i)'
      <4>1. ASSUME NEW k \in DOMAIN present, IsOf(present[k], i) PROVE present[k] = cur
        <5>1. SameKey(present[k], cur)
          <6>1. present[k] \in Task
            BY <1>4
          <6>2. present[k].isproc \in BOOLEAN /\ cur.isproc \in BOOLEAN
            BY <6>1, TaskFields
          <6> QED
            BY <2>2, <4>1, <6>2 DEF SameKey, IsOf, Inc
        <5>2. OneEach(present)
          BY DEF TaskInv, ChainInv
        <5> QED
          BY <1>1, <5>1, <5>2 DEF OneEach
      <4>2. (\A g \in DOMAIN gone : gone[g].inc # i) => Traced(i)
        <5>1. \/ acct = "off" \/ kern[i].alive
              \/ \E l \in DOMAIN exits : exits[l].inc = i
              \/ \E l \in DOMAIN gone : gone[l].inc = i
          BY <1>1, <1>5, <2>2 DEF SourceInv
        <5>2. DOMAIN exits = {}
          BY <1>4
        <5> QED
          BY <5>1, <5>2 DEF Traced
      <4> QED
        BY <1>2, <1>3, <3>1, <4>1, <4>2 DEF MetInv
    <3>5. LeftInv(i)'
      BY <1>1, <1>2, <3>2 DEF LeftInv
    <3> QED
      BY <3>3, <3>4, <3>5
  <2>3. CASE ~(cur.isproc /\ i = Inc(cur))
    <3>1. \A e : Own(e, i) => ~SameKey(e, cur) /\ e # cur
      <4>1. cur.isproc => cur.pid # i[1]
        BY <1>1, <1>5, <2>1, <2>3, OwnFacts
      <4> SUFFICES ASSUME NEW e, Own(e, i), SameKey(e, cur) \/ e = cur PROVE FALSE
        OBVIOUS
      <4>2. e.isproc /\ e.pid = i[1] /\ e.pid = cur.pid /\ e.isproc = cur.isproc
        BY DEF Own, SameKey
      <4> QED
        BY <4>1, <4>2
    <3>2. \A e : Own(e, i) => (e \in Stored' <=> e \in Stored)
      BY <1>3, <3>1
    <3>3. \A e \in ToSet(presidue') : Own(e, i) => e \in ToSet(presidue)
      BY <1>3
    <3>4. charged'[i] = charged[i]
      BY <1>7, <2>1, <2>3, KernTypes
    <3>5. ~IsOf(cur, i)
      BY <2>3 DEF IsOf
    <3>6. \A k \in DOMAIN present : k <= MetTo' /\ IsOf(present[k], i) => k <= MetTo
      BY <1>1, <1>4, <3>5
    <3>7. \A k \in DOMAIN present : k <= MetTo => k <= MetTo'
      BY <1>4
    <3>8. \A g \in DOMAIN gone : g <= DoneTo => g <= DoneTo'
      BY <1>4
    <3>9. MetTo \in Nat /\ MetTo' \in Nat /\ DoneTo \in Nat /\ DoneTo' \in Nat
      BY <1>4
    <3> QED
      BY <1>2, <1>4, <2>1, <3>2, <3>3, <3>4, <3>6, <3>7, <3>8, <3>9, OtherShare
  <2> QED
    BY <2>2, <2>3
<1> QED
  BY <1>8, <1>9, <1>10, <1>11 DEF ShareInv

\* What pdb_deltask frees is not found again.
LEMMA DeleteGone ==
  ASSUME BaseTypes, NEW e \in Stored, NEW chain \in Seq(Task), OneEach(chain),
         pdb_deltask(e.pid, e.isproc, chain), NEW P, NEW V, \A b \in Queues : QueueOK(phash[b], P, V)
  PROVE  Victim(e) \notin Stored'
<1>1. PICK b \in Queues : b = Bucket(e.pid)
  BY StoredPlace
<1>2. PICK k : k = Doomed(e.pid, e.isproc)
  OBVIOUS
<1>3. PICK q \in Seq(Task) : /\ q = phash[b] /\ k \in DOMAIN q /\ SameKey(q[k], e) /\ Victim(e) = q[k]
                             /\ \A l \in DOMAIN q : SameKey(q[l], e) => k <= l
  BY <1>1, <1>2, DoomedFacts DEF Victim
<1>4. /\ phash' \in [Queues -> Seq(Task)] /\ phash'[b] = RemoveAt(q, k)
      /\ \A a \in Queues : \A n \in DOMAIN phash'[a] : Bucket(phash'[a][n].pid) = a
  BY <1>1, <1>2, <1>3, DeleteFacts
<1>5. RemovedFrom(q, k, RemoveAt(q, k))
  <2>1. k \in 1 .. Len(q)
    BY <1>3
  <2> QED
    BY <1>3, <2>1, RemoveAtPlaces
<1>6. QueueOK(q, P, V)
  BY <1>1, <1>3
<1> SUFFICES ASSUME Victim(e) \in Stored' PROVE FALSE
  OBVIOUS
<1>7. Stored' = StoredIn(phash')
  BY DEF Stored, StoredIn
<1>8. PICK a \in Queues : \E n \in DOMAIN phash'[a] : q[k] = phash'[a][n]
  BY <1>3, <1>4, <1>7, StoredAt
<1>9. a = b
  BY <1>1, <1>3, <1>4, <1>8 DEF SameKey
<1>10. PICK m \in DOMAIN q \ {k} : q[k] = q[m]
  BY <1>4, <1>5, <1>8, <1>9 DEF RemovedFrom
<1>11. k < m
  <2>1. k <= m
    BY <1>3, <1>10
  <2> QED
    BY <1>3, <1>10, <2>1
<1> QED
  BY <1>3, <1>6, <1>10, <1>11 DEF QueueOK, SameKey

LEMMA CleanTaskShare ==
  ASSUME TaskInv, ShareInv, CleanTask
  PROVE  ShareInv'
<1>1. /\ phase = "clean" /\ pr # Anchor /\ pdb_deltask(pr.pid, pr.isproc, presidue)
      /\ UNCHANGED <<acct, kern, exits, netexits, phase, present, gone, taskall, prev, charged, missed>>
  BY DEF CleanTask, world, sample
<1>2. /\ BaseTypes /\ presidue \in Seq(Task) /\ OneEach(presidue) /\ Sampling /\ Sampling'
      /\ ToSet(presidue) \subseteq Stored /\ pr \in ToSet(presidue) /\ gone \in Seq(Ended) /\ present \in Seq(Task)
  BY <1>1 DEF TaskInv, ChainInv, BaseTypes, SampleTypes, Sampling
<1>3. /\ Victim(pr) \in Stored /\ SameKey(Victim(pr), pr)
      /\ Stored' \subseteq Stored /\ \A f \in Stored : f # Victim(pr) => f \in Stored'
      /\ ToSet(presidue') = ToSet(presidue) \ {Victim(pr)}
  BY <1>1, <1>2, DeleteFacts
<1>4. /\ MetTo = Len(present) /\ MetTo' = Len(present) /\ DoneTo = Len(gone) /\ DoneTo' = Len(gone)
      /\ SourceInv /\ RecordInv /\ NetInv /\ exits = << >> /\ DOMAIN exits = {}
  BY <1>1, <1>2 DEF MetTo, DoneTo, ShareInv, RecordInv
<1>5. \A i : ~Pending(i)'
  <2>1. \A g \in DOMAIN gone : ~(g > Len(gone))
    BY <1>2
  <2> QED
    BY <1>1, <1>4, <2>1 DEF Pending
<1>6. \A i : ~Awaited(i)'
  <2>1. \A k \in DOMAIN present : ~(k > Len(present))
    BY <1>2
  <2> QED
    BY <1>1, <1>4, <2>1 DEF Awaited
<1>7. SourceInv'
  BY <1>1, <1>3, <1>4 DEF SourceInv
<1>8. RecordInv'
  <2>1. \A k \in DOMAIN gone' : RecordOK(gone[k])'
    BY <1>1, <1>4 DEF RecordInv, RecordOK
  <2> QED
    BY <1>1, <1>2, <1>4, <2>1 DEF RecordInv
<1>9. NetInv'
  <2>1. ASSUME Byp', NEW g \in DOMAIN gone', g <= DoneTo', Unique(gone[g].inc)'
        PROVE  taskall'[Len(present') + g].net = kern'[gone'[g].inc].use - LastSeen(gone[g].inc)'
    <3>1. PICK i : i = gone[g].inc
      OBVIOUS
    <3>2. gone'[g].inc = i
      BY <1>1, <3>1
    <3>3. Unique(i) /\ Byp
      BY <1>1, <2>1, <3>1 DEF Unique, Byp
    <3>4. taskall[Len(present) + g].net = kern[i].use - LastSeen(i)
      BY <1>1, <1>4, <2>1, <3>1, <3>3 DEF NetInv
    <3>5. LastSeen(gone[g].inc)' = LastSeen(i)
      BY <1>1, <3>1 DEF LastSeen
    <3> QED
      BY <1>1, <3>2, <3>4, <3>5
  <2>2. Stored' \subseteq prev' \cup ToSet(present')
    BY <1>1, <1>2, <1>3, <1>4 DEF NetInv
  <2> QED
    BY <2>1, <2>2 DEF NetInv
<1>10. ASSUME NEW i \in DOMAIN kern', Unique(i)' PROVE EntryInv(i)' /\ MetInv(i)' /\ LeftInv(i)'
  <2>1. i \in DOMAIN kern /\ Unique(i) /\ EntryInv(i) /\ MetInv(i)
    BY <1>1, <1>10 DEF Unique, ShareInv
  <2>2. EntryInv(i)'
    <3>1. Traced(i)' => Traced(i)
      BY <1>1 DEF Traced
    <3>2. ASSUME kern[i].alive, \A e \in Stored' : ~Own(e, i) PROVE \A e \in Stored : ~Own(e, i)
      <4>1. PICK k \in DOMAIN present : IsOf(present[k], i)
        BY <1>1, <1>4, <2>1, <3>2 DEF SourceInv, Unique
      <4>2. k <= MetTo
        BY <1>2, <1>4, <4>1
      <4>3. ~Own(pr, i)
        BY <1>2, <2>1, <4>1, <4>2 DEF MetInv
      <4>4. ~Own(Victim(pr), i)
        BY <1>3, <4>3 DEF Own, SameKey
      <4> QED
        BY <1>3, <3>2, <4>4
    <3>3. Coming(i)' => kern[i].alive
      BY <1>1, <1>5, <1>6 DEF Coming
    <3>4. kern[i].alive => Coming(i)
      BY DEF Coming
    <3>5. Traced(i)' /\ Coming(i)' /\ (\A e \in Stored' : ~Own(e, i)) => charged'[i] = 0
      BY <1>1, <2>1, <3>1, <3>2, <3>3, <3>4 DEF EntryInv
    <3>6. Traced(i)' => \A e \in Stored' : Own(e, i) => charged'[i] = e.use
      BY <1>1, <1>3, <2>1, <3>1 DEF EntryInv
    <3>7. \A e, f \in Stored' : Own(e, i) /\ Own(f, i) => e = f
      BY <1>3, <2>1 DEF EntryInv
    <3>8. acct' # "v2" => charged'[i] <= kern'[i].use
      BY <1>1, <2>1 DEF EntryInv
    <3> QED
      BY <3>5, <3>6, <3>7, <3>8 DEF EntryInv
  <2>3. MetInv(i)'
    BY <1>1, <1>3, <1>4, <2>1 DEF MetInv
  <2>4. LeftInv(i)'
    BY <1>5 DEF LeftInv
  <2> QED
    BY <2>2, <2>3, <2>4
<1> QED
  BY <1>7, <1>8, <1>9, <1>10 DEF ShareInv

\* The database after a pass of the second loop: one entry less, with the key
\* of the entry that the record is about.
LEMMA ExitedBase ==
  ASSUME TaskInv, ExitedTask, NEW r \in Ended, r = gone[c]
  PROVE  /\ Former(r) \in {Anchor} \cup Stored
         /\ Stored' \subseteq Stored /\ ToSet(presidue') \subseteq ToSet(presidue)
         /\ \A e \in Stored : e \notin Stored' => Former(r) # Anchor /\ SameKey(e, Former(r))
         /\ Former(r) # Anchor => \E v \in Stored : SameKey(v, Former(r)) /\ v \notin Stored'
         /\ Former(r) = Anchor => Stored' = Stored
<1>1. PICK old : old = Former(r)
  OBVIOUS
<1>2. /\ phase = "exited"
      /\ old = Anchor => phash' = phash /\ presidue' = presidue
      /\ old # Anchor => \/ pdb_deltask(old.pid, old.isproc, presidue)
                         \/ pdb_deltask(old.pid, old.isproc, Unchained(old))
  BY <1>1, ExitedTaskParts
<1>3. /\ BaseTypes /\ presidue \in Seq(Task) /\ OneEach(presidue) /\ ToSet(presidue) \subseteq Stored
      /\ \A b \in Queues : QueueOK(phash[b], prev, ToVisit)
  BY <1>2 DEF TaskInv, ChainInv, BaseTypes, Sampling
<1>4. old \in {Anchor} \cup Stored
  BY <1>1, <1>3, FormerFacts
<1>5. CASE old = Anchor
  <2>1. Stored' = Stored /\ ToSet(presidue') = ToSet(presidue)
    BY <1>2, <1>5 DEF Stored
  <2> QED
    BY <1>1, <1>4, <1>5, <2>1
<1>6. CASE old # Anchor
  <2>1. PICK chain \in Seq(Task) : /\ OneEach(chain) /\ ToSet(chain) \subseteq ToSet(presidue)
                                   /\ pdb_deltask(old.pid, old.isproc, chain)
    <3>1. /\ Unchained(old) \in Seq(Task) /\ OneEach(Unchained(old))
          /\ ToSet(Unchained(old)) \subseteq ToSet(presidue)
      BY <1>3, RemoveFirstFacts DEF Unchained
    <3> QED
      BY <1>2, <1>3, <1>6, <3>1
  <2>2. old \in Stored
    BY <1>4, <1>6
  <2>3. /\ Victim(old) \in Stored /\ SameKey(Victim(old), old)
        /\ Stored' \subseteq Stored /\ \A f \in Stored : f # Victim(old) => f \in Stored'
        /\ ToSet(presidue') = ToSet(chain) \ {Victim(old)}
    BY <1>3, <2>1, <2>2, DeleteFacts
  <2>4. Victim(old) \notin Stored'
    BY <1>3, <2>1, <2>2, DeleteGone
  <2> QED
    BY <1>1, <1>4, <1>6, <2>1, <2>3, <2>4
<1> QED
  BY <1>5, <1>6

\* A lookup only marks the network records.
LEMMA NetStays ==
  ASSUME TaskInv, ExitedTask
  PROVE  /\ DOMAIN netexits' = DOMAIN netexits
         /\ \A k \in DOMAIN netexits : /\ netexits'[k].id = netexits[k].id /\ netexits'[k].btime = netexits[k].btime
                                       /\ netexits'[k].net = netexits[k].net
<1>1. PICK r : r = gone[c]
  OBVIOUS
<1>2. netexits' = IF Byp THEN netexits
                  ELSE [k \in DOMAIN netexits |->
                          [netexits[k] EXCEPT !.isused = @ \/ k \in ExitMatches(r, Before(r))]]
  BY <1>1, ExitedTaskParts
<1>3. CASE Byp
  BY <1>2, <1>3
<1>4. CASE ~Byp
  <2>1. DOMAIN netexits' = DOMAIN netexits
    BY <1>2, <1>4
  <2>2. ASSUME NEW k \in DOMAIN netexits
        PROVE  netexits'[k].id = netexits[k].id /\ netexits'[k].btime = netexits[k].btime /\ netexits'[k].net = netexits[k].net
    <3>1. PICK used \in BOOLEAN : used = (netexits[k].isused \/ k \in ExitMatches(r, Before(r)))
      OBVIOUS
    <3>2. netexits[k] \in Traffic
      BY DEF TaskInv, KernelInv
    <3>3. netexits'[k] = [netexits[k] EXCEPT !.isused = used]
      BY <1>2, <1>4, <3>1
    <3> QED
      BY <3>2, <3>3 DEF Traffic
  <2> QED
    BY <2>1, <2>2
<1> QED
  BY <1>3, <1>4

\* The record of a process with its pid is about the entry of the process.
LEMMA ExitedOwn ==
  ASSUME TaskInv, ShareInv, ExitedTask, NEW r \in Ended, r = gone[c], c \in DOMAIN gone,
         NEW i \in DOMAIN kern, i = r.inc, Unique(i), acct # "v2"
  PROVE  /\ Former(r) = Anchor => \A e \in Stored : ~Own(e, i)
         /\ Former(r) # Anchor => Former(r) \in Stored /\ Own(Former(r), i)
         /\ \A e \in Stored' : ~Own(e, i)
         /\ charged'[i] <= kern[i].use
<1>1. RecordOK(r) /\ EntryInv(i) /\ SourceInv
  BY DEF ShareInv, RecordInv
<1>2. BaseTypes /\ charged \in [Incs -> Nat] /\ KernelInv /\ phase = "exited" /\ c \in Nat
  BY ExitedTaskParts DEF TaskInv, SampleTypes
<1>3. r.pid = i[1] /\ r.pid # NoPid /\ r.use <= kern[i].use /\ Near(i[2], r.btime) /\ i[1] \in Pids
  <2>1. acct = "v3"
    BY <1>1, <1>2 DEF RecordOK, KernelInv
  <2>2. r.pid = i[1] /\ r.use <= kern[i].use /\ Near(i[2], r.btime)
    BY <1>1, <2>1 DEF RecordOK
  <2>3. i[1] \in Pids /\ NoPid \notin Pids
    <3>1. \A x \in Pids : x # 0
      BY TaskAssumption
    <3> QED
      BY <3>1, KernTypes DEF NoPid
  <2> QED
    BY <2>2, <2>3
<1>4. Former(r) = Anchor => \A e \in Stored : ~Own(e, i)
  <2>1. \A e \in Stored : Own(e, i) => e.btime = i[2] /\ e.isproc /\ e.pid = r.pid
    BY <1>1, <1>3, OwnFacts DEF Own
  <2> QED
    BY <1>2, <1>3, <2>1, FormerIs
<1>5. Former(r) # Anchor => Former(r) \in Stored /\ Own(Former(r), i)
  BY <1>2, <1>3, FormerIs DEF Own
<1>6. /\ Stored' \subseteq Stored
      /\ Former(r) # Anchor => \E v \in Stored : SameKey(v, Former(r)) /\ v \notin Stored'
  BY ExitedBase
<1>7. \A e \in Stored' : ~Own(e, i)
  <2>1. CASE Former(r) = Anchor
    BY <1>4, <1>6, <2>1
  <2>2. CASE Former(r) # Anchor
    <3>1. PICK v \in Stored : SameKey(v, Former(r)) /\ v \notin Stored'
      BY <1>6, <2>2
    <3>2. Own(v, i)
      BY <1>5, <2>2, <3>1 DEF Own, SameKey
    <3> QED
      BY <1>1, <1>6, <3>1, <3>2 DEF EntryInv
  <2> QED
    BY <2>1, <2>2
<1>8. charged'[i] <= kern[i].use
  <2>0. /\ i \in Incs /\ charged[i] \in Nat /\ kern[i].use \in 0 .. MaxUse /\ MaxUse \in Nat /\ r.use \in Nat
        /\ ToSet(presidue) \subseteq Stored
    <3>1. r.use \in 0 .. MaxUse
      BY DEF Ended
    <3>2. ToSet(presidue) \subseteq Stored
      BY <1>2 DEF TaskInv, ChainInv, Sampling
    <3>3. MaxUse \in Nat
      BY TaskAssumption
    <3>4. i \in Incs /\ charged[i] \in Nat /\ kern[i].use \in 0 .. MaxUse
      BY KernTypes
    <3> QED
      BY <3>1, <3>2, <3>3, <3>4
  <2>1. charged' = Charge(i, Ending(r).use)
    BY ExitedTaskParts
  <2>2. /\ Ending(r).use \in Nat /\ Before(r).use \in Nat
        /\ Ending(r).use = IF r.use > Before(r).use THEN r.use - Before(r).use ELSE 0
    <3>1. BaseTypes /\ KernelInv /\ ToSet(presidue) \subseteq Stored
      BY <1>2, <2>0
    <3>2. /\ Ending(r).use \in Nat /\ Before(r).use \in 0 .. MaxUse
          /\ Ending(r).use = IF r.use > Before(r).use THEN r.use - Before(r).use ELSE 0
      BY <3>1, EndingType
    <3> QED
      BY <2>0, <3>2
  <2>3. charged[i] = Before(r).use /\ Before(r).use <= kern[i].use
    <3>1. CASE Former(r) = Anchor
      <4>1. Pending(i)
        <5>1. c > DoneTo
          BY <1>2 DEF DoneTo
        <5> QED
          BY <5>1 DEF Pending
      <4>2. charged[i] = 0
        BY <1>1, <1>4, <3>1, <4>1 DEF EntryInv, Coming, Traced
      <4>3. Before(r).use = 0
        BY <3>1 DEF Before, Zero
      <4> QED
        BY <2>0, <4>2, <4>3
    <3>2. CASE Former(r) # Anchor
      <4>1. Before(r) = Former(r) /\ Former(r) \in Stored /\ Own(Former(r), i)
        BY <1>5, <3>2 DEF Before
      <4>2. charged[i] = Former(r).use
        BY <1>1, <4>1 DEF EntryInv, Traced
      <4>3. Inc(Former(r)) = i
        BY <1>1, <4>1, OwnFacts DEF Own
      <4>4. Former(r).use <= kern[i].use
        BY <1>1, <4>1, <4>3 DEF SourceInv, Own
      <4> QED
        BY <4>1, <4>2, <4>4
    <3> QED
      BY <3>1, <3>2
  <2>4. charged[i] + Ending(r).use <= kern[i].use
    BY <1>3, <2>0, <2>2, <2>3
  <2>5. charged[i] + Ending(r).use <= MaxUse
    BY <2>0, <2>2, <2>4
  <2>6. charged'[i] = charged[i] + Ending(r).use
    BY <1>2, <2>0, <2>1, <2>2, <2>5, ChargeFacts
  <2> QED
    BY <2>4, <2>6
<1> QED
  BY <1>4, <1>5, <1>7, <1>8

\* The entry that the record is compared with is what was last seen of the process.
LEMMA BeforeIsLast ==
  ASSUME TaskInv, ShareInv, ExitedTask, NEW r \in Ended, r = gone[c], c \in DOMAIN gone,
         NEW i \in DOMAIN kern, i = r.inc, Unique(i), acct # "v2"
  PROVE  Before(r).use = LastSeen(i)
<1>1. RecordOK(r) /\ EntryInv(i) /\ MetInv(i) /\ LeftInv(i) /\ SourceInv /\ NetInv /\ OneRecord(gone)
  BY DEF ShareInv, RecordInv
<1>2. /\ phase = "exited" /\ Sampling /\ MetTo = Len(present) /\ DoneTo = c - 1 /\ c \in Nat
      /\ present \in Seq(Task) /\ gone \in Seq(Ended)
  <2>1. phase = "exited" /\ c \in Nat /\ present \in Seq(Task) /\ gone \in Seq(Ended)
    BY ExitedTaskParts DEF TaskInv, SampleTypes
  <2> QED
    BY <2>1 DEF Sampling, MetTo, DoneTo
<1>3. /\ Former(r) = Anchor => \A e \in Stored : ~Own(e, i)
      /\ Former(r) # Anchor => Former(r) \in Stored /\ Own(Former(r), i)
  BY ExitedOwn
<1>4. \A e \in Stored : Own(e, i) => Former(r) = e /\ Former(r) # Anchor
  BY <1>1, <1>3 DEF EntryInv
<1>5. \A e : IsOf(e, i) => Own(e, i)
  BY DEF IsOf, Own, Inc
<1>6. ASSUME NEW k \in DOMAIN present, IsOf(present[k], i) PROVE present[k] = Former(r) /\ Former(r) # Anchor
  <2>1. \A g \in DOMAIN gone : g <= DoneTo => gone[g].inc # i
    <3> SUFFICES ASSUME NEW g \in DOMAIN gone, g <= c - 1, gone[g].inc = i PROVE FALSE
      BY <1>2
    <3>1. g = c
      BY <1>1 DEF OneRecord
    <3> QED
      BY <1>2, <3>1
  <2>2. k <= MetTo
    BY <1>2
  <2>3. present[k] \in Stored
    BY <1>1, <1>2, <1>6, <2>1, <2>2 DEF MetInv
  <2> QED
    BY <1>4, <1>5, <1>6, <2>3
<1>7. ASSUME NEW e \in prev, IsOf(e, i), \A k \in DOMAIN present : ~IsOf(present[k], i)
      PROVE  e = Former(r) /\ Former(r) # Anchor
  <2>1. Pending(i)
    <3>1. c > DoneTo
      BY <1>2
    <3> QED
      BY <3>1 DEF Pending
  <2>2. e \in Stored
    BY <1>1, <1>2, <1>5, <1>7, <2>1 DEF LeftInv
  <2> QED
    BY <1>4, <1>5, <1>7, <2>2
<1> DEFINE seen == {present[k].use : k \in {l \in DOMAIN present : present[l].isproc /\ Inc(present[l]) = i}}
           known == {e.use : e \in {f \in prev : f.isproc /\ Inc(f) = i}}
<1>8. LastSeen(i) = IF seen # {} THEN CHOOSE u \in seen : TRUE
                    ELSE IF known # {} THEN CHOOSE u \in known : TRUE ELSE 0
  BY DEF LastSeen
<1>9. Former(r) # Anchor => Before(r) = Former(r)
  BY DEF Before
<1>10. CASE \E k \in DOMAIN present : IsOf(present[k], i)
  <2>1. seen = {Before(r).use}
    BY <1>6, <1>9, <1>10 DEF IsOf
  <2> HIDE DEF seen
  <2> QED
    BY <1>8, <2>1
<1>11. CASE \A k \in DOMAIN present : ~IsOf(present[k], i)
  <2>1. seen = {}
    BY <1>11 DEF IsOf
  <2>2. CASE \E e \in prev : IsOf(e, i)
    <3>1. known = {Before(r).use}
      BY <1>7, <1>9, <1>11, <2>2 DEF IsOf
    <3> HIDE DEF seen, known
    <3> QED
      BY <1>8, <2>1, <3>1
  <2>3. CASE \A e \in prev : ~IsOf(e, i)
    <3>1. known = {}
      BY <2>3 DEF IsOf
    <3>2. Former(r) = Anchor
      <4> SUFFICES ASSUME Former(r) # Anchor PROVE FALSE
        OBVIOUS
      <4>1. Former(r) \in Stored /\ Own(Former(r), i)
        BY <1>3
      <4>2. IsOf(Former(r), i)
        BY <1>1, <4>1, OwnFacts DEF Own, IsOf
      <4>3. Former(r) \in prev \cup ToSet(present)
        BY <1>1, <1>2, <4>1 DEF NetInv
      <4> QED
        BY <1>11, <2>3, <4>2, <4>3 DEF ToSet
    <3>3. Before(r).use = 0
      BY <3>2 DEF Before, Zero
    <3> HIDE DEF seen, known
    <3> QED
      BY <1>8, <2>1, <3>1, <3>3
  <2> QED
    BY <2>2, <2>3
<1> QED
  BY <1>10, <1>11

\* The network counters shown for the record are those of the process.
LEMMA ExitedNet ==
  ASSUME TaskInv, ShareInv, ExitedTask, NEW r \in Ended, r = gone[c], c \in DOMAIN gone,
         NEW i \in DOMAIN kern, i = r.inc, Unique(i), Byp
  PROVE  Ending(r).net = kern[i].use - LastSeen(i)
<1>1. RecordOK(r) /\ RecordInv /\ RecordOK(gone[1])
  <2>1. gone \in Seq(Ended) /\ gone # << >>
    BY DEF TaskInv, SampleTypes, Byp
  <2>2. 1 \in DOMAIN gone
    BY <2>1
  <2> QED
    BY <2>2 DEF ShareInv, RecordInv
<1>2. acct = "v3"
  BY <1>1 DEF RecordOK, Byp
<1>3. r.pid = i[1]
  BY <1>1, <1>2 DEF RecordOK
<1>4. ToSet(presidue) \subseteq Stored /\ BaseTypes /\ KernelInv
  BY ExitedTaskParts DEF TaskInv, ChainInv, Sampling
<1>5. Ending(r).net = netatop_exitfind(r, Before(r))
  BY <1>4, EndingType
<1> DEFINE found == ExitMatches(r, Before(r))
<1>6. found = {k \in DOMAIN netexits : netexits[k].id = i[1]}
  BY <1>3 DEF ExitMatches
<1>7. \A k \in found : netexits[k].net = kern[i].use
  <2> SUFFICES ASSUME NEW k \in DOMAIN netexits, netexits[k].id = i[1] PROVE netexits[k].net = kern[i].use
    BY <1>6
  <2>1. PICK j : j = <<netexits[k].id, netexits[k].btime>>
    OBVIOUS
  <2>2. j \in DOMAIN kern /\ netexits[k].net = kern[j].use
    BY <1>1, <2>1 DEF RecordInv
  <2>3. j = i
    BY <2>1, <2>2 DEF Unique
  <2> QED
    BY <2>2, <2>3
<1>8. found # {} /\ found \subseteq Nat
  <2>1. DOMAIN netexits \subseteq Nat
    BY <1>4 DEF KernelInv
  <2> QED
    BY <1>1, <1>6, <2>1 DEF RecordOK
<1>9. netatop_exitfind(r, Before(r)) =
        IF found = {} THEN 0 ELSE netexits[CHOOSE k \in found : \A l \in found : k <= l].net - Before(r).use
  BY Zenon DEF netatop_exitfind
<1> HIDE DEF found
<1>10. PICK m : m = CHOOSE k \in found : \A l \in found : k <= l
  OBVIOUS
<1>11. m \in found
  <2>1. \E k \in found : \A l \in found : k <= l
    BY <1>8, SmallestElement
  <2> QED
    BY <1>10, <2>1
<1>12. netatop_exitfind(r, Before(r)) = kern[i].use - Before(r).use
  BY <1>7, <1>8, <1>9, <1>10, <1>11
<1> QED
  BY <1>2, <1>5, <1>12, BeforeIsLast

LEMMA ExitedTaskShare ==
  ASSUME TaskInv, TaskInv', ShareInv, ExitedTask
  PROVE  ShareInv'
<1>1. PICK r \in Ended : r = gone[c] /\ c \in DOMAIN gone
  <2>1. c \in DOMAIN gone /\ gone \in Seq(Ended)
    BY ExitedTaskParts DEF TaskInv, SampleTypes
  <2> QED
    BY <2>1
<1>2. /\ phase = "exited" /\ c' = c + 1 /\ taskall' = Append(taskall, Ending(r)) /\ charged' = Charge(r.inc, Ending(r).use)
      /\ UNCHANGED <<acct, kern, exits, phase, present, gone, prev, missed>>
  BY <1>1, ExitedTaskParts
<1>3. /\ Former(r) \in {Anchor} \cup Stored
      /\ Stored' \subseteq Stored /\ ToSet(presidue') \subseteq ToSet(presidue)
      /\ \A e \in Stored : e \notin Stored' => Former(r) # Anchor /\ SameKey(e, Former(r))
  BY <1>1, ExitedBase
<1>4. /\ Sampling /\ Sampling' /\ MetTo = Len(present) /\ MetTo' = Len(present) /\ DoneTo = c - 1 /\ DoneTo' = c
      /\ c \in Nat \ {0} /\ present \in Seq(Task) /\ gone \in Seq(Ended) /\ exits = << >> /\ DOMAIN exits = {}
      /\ charged \in [Incs -> Nat] /\ BaseTypes /\ KernelInv /\ ToSet(presidue) \subseteq Stored
      /\ Len(taskall) = Len(present) + c - 1 /\ taskall \in Seq(Report)
  <2>1. /\ c \in Nat \ {0} /\ present \in Seq(Task) /\ gone \in Seq(Ended) /\ charged \in [Incs -> Nat]
        /\ BaseTypes /\ KernelInv /\ taskall \in Seq(Report)
    BY DEF TaskInv, SampleTypes, Report
  <2>2. Sampling /\ Sampling' /\ MetTo = Len(present) /\ MetTo' = Len(present) /\ DoneTo = c - 1
    BY <1>2 DEF Sampling, DoneTo, MetTo
  <2>3. DoneTo' = c
    BY <1>2, <2>1 DEF DoneTo
  <2>4. exits = << >>
    BY <2>2 DEF ShareInv, RecordInv
  <2>5. ToSet(presidue) \subseteq Stored /\ Len(taskall) = Len(present) + c - 1
    BY <1>2, <2>2 DEF TaskInv, ChainInv, ListInv
  <2> QED
    BY <2>1, <2>2, <2>3, <2>4, <2>5
<1>5. SourceInv /\ RecordInv /\ NetInv /\ RecordOK(r)
  BY <1>1 DEF ShareInv, RecordInv
<1>6. r.inc \in DOMAIN kern /\ r.inc \in Incs /\ Ending(r).use \in Nat /\ Ending(r) \in Report
  <2>1. r.inc \in DOMAIN kern
    BY <1>5 DEF RecordOK
  <2>2. r.inc \in Incs
    BY DEF Ended
  <2> QED
    BY <1>4, <2>1, <2>2, EndingType
<1>7. \A i \in Incs : i # r.inc => charged'[i] = charged[i]
  BY <1>2, <1>4, <1>6, ChargeFacts
<1>8. SourceInv'
  <2>1. \A i \in Incs \ DOMAIN kern' : charged'[i] = 0
    BY <1>2, <1>5, <1>6, <1>7 DEF SourceInv
  <2> QED
    BY <1>2, <1>3, <1>5, <2>1 DEF SourceInv
<1>9. RecordInv'
  <2>0. /\ DOMAIN netexits' = DOMAIN netexits
        /\ \A k \in DOMAIN netexits : /\ netexits'[k].id = netexits[k].id /\ netexits'[k].btime = netexits[k].btime
                                      /\ netexits'[k].net = netexits[k].net
    BY NetStays
  <2>1. \A k \in DOMAIN gone' : RecordOK(gone[k])'
    BY <1>2, <1>5, <2>0 DEF RecordInv, RecordOK
  <2>2. \A k \in DOMAIN netexits' :
          LET i == <<netexits'[k].id, netexits'[k].btime>>
          IN i \in DOMAIN kern' /\ ~kern'[i].alive /\ netexits'[k].net = kern'[i].use
    BY <1>2, <1>5, <2>0 DEF RecordInv
  <2> QED
    BY <1>2, <1>4, <1>5, <2>1, <2>2 DEF RecordInv
<1>10. NetInv'
  <2>1. ASSUME Byp', NEW g \in DOMAIN gone', g <= DoneTo', Unique(gone[g].inc)'
        PROVE  taskall'[Len(present') + g].net = kern'[gone'[g].inc].use - LastSeen(gone[g].inc)'
    <3>1. PICK i : i = gone[g].inc
      OBVIOUS
    <3>2. gone'[g].inc = i
      BY <1>2, <3>1
    <3>3. Unique(i) /\ Byp
      BY <1>2, <2>1, <3>1 DEF Unique, Byp
    <3>4. LastSeen(gone[g].inc)' = LastSeen(i)
      BY <1>2, <3>1 DEF LastSeen
    <3>5. taskall'[Len(present) + g].net = kern[i].use - LastSeen(i)
      <4>0. Len(taskall) \in Nat /\ Len(present) \in Nat /\ g \in DOMAIN gone /\ g \in Nat \ {0} /\ g <= c
        BY <1>2, <1>4, <2>1
      <4>1. CASE g = c
        <5>1. taskall'[Len(present) + g] = Ending(r)
          <6>1. Len(present) + g = Len(taskall) + 1
            BY <1>4, <4>0, <4>1
          <6>2. Append(taskall, Ending(r))[Len(taskall) + 1] = Ending(r)
            BY <1>4, <1>6
          <6> QED
            BY <1>2, <6>1, <6>2
        <5>2. i = r.inc
          BY <1>1, <3>1, <4>1
        <5>3. i \in DOMAIN kern /\ Unique(i) /\ Byp
          BY <1>6, <3>3, <5>2
        <5>4. Ending(r).net = kern[i].use - LastSeen(i)
          BY <1>1, <5>2, <5>3, ExitedNet
        <5> QED
          BY <5>1, <5>4
      <4>2. CASE g # c
        <5>1. g <= DoneTo /\ Len(present) + g \in 1 .. Len(taskall)
          BY <1>4, <4>0, <4>2
        <5>2. taskall'[Len(present) + g] = taskall[Len(present) + g]
          <6>1. PICK m \in 1 .. Len(taskall) : m = Len(present) + g
            BY <5>1
          <6>2. Append(taskall, Ending(r))[m] = taskall[m]
            BY <1>4, <1>6
          <6> QED
            BY <1>2, <6>1, <6>2
        <5>3. taskall[Len(present) + g].net = kern[i].use - LastSeen(i)
          BY <1>5, <3>1, <3>3, <4>0, <5>1 DEF NetInv
        <5> QED
          BY <5>2, <5>3
      <4> QED
        BY <4>1, <4>2
    <3> QED
      BY <1>2, <3>2, <3>4, <3>5
  <2>2. Stored' \subseteq prev' \cup ToSet(present')
    BY <1>2, <1>3, <1>4, <1>5 DEF NetInv
  <2> QED
    BY <2>1, <2>2 DEF NetInv
<1>11. ASSUME NEW i \in DOMAIN kern', Unique(i)' PROVE EntryInv(i)' /\ MetInv(i)' /\ LeftInv(i)'
  <2>1. i \in DOMAIN kern /\ Unique(i) /\ EntryInv(i) /\ MetInv(i) /\ LeftInv(i) /\ kern[i].use \in Nat
    <3>1. i \in DOMAIN kern /\ Unique(i) /\ EntryInv(i) /\ MetInv(i) /\ LeftInv(i)
      BY <1>2, <1>11 DEF Unique, ShareInv
    <3> QED
      BY <3>1, KernTypes
  <2>2. \A e, f \in Stored' : Own(e, i) /\ Own(f, i) => e = f
    BY <1>3, <2>1 DEF EntryInv
  <2>3. CASE i = r.inc
    <3>1. ~kern[i].alive
      BY <1>5, <2>3 DEF RecordOK
    <3>2. ~Pending(i)'
      <4> SUFFICES ASSUME NEW g \in DOMAIN gone, g > c, gone[g].inc = i PROVE FALSE
        BY <1>2, <1>4 DEF Pending
      <4>1. g = c
        BY <1>1, <1>5, <2>3 DEF RecordInv, OneRecord
      <4> QED
        BY <1>4, <4>1
    <3>3. ~Awaited(i)'
      <4>1. \A k \in DOMAIN present : ~(k > Len(present))
        BY <1>4
      <4> QED
        BY <1>2, <1>4, <4>1 DEF Awaited
    <3>4. ~Coming(i)'
      BY <1>2, <3>1, <3>2, <3>3 DEF Coming
    <3>5. acct # "v2" => (\A e \in Stored' : ~Own(e, i)) /\ charged'[i] <= kern[i].use
      BY <1>1, <2>1, <2>3, ExitedOwn
    <3>6. Traced(i)' => acct # "v2"
      BY <1>2, <3>1 DEF Traced
    <3>7. EntryInv(i)'
      BY <1>2, <2>2, <3>4, <3>5, <3>6 DEF EntryInv
    <3>8. MetInv(i)'
      <4>1. c \in DOMAIN gone' /\ gone'[c].inc = i /\ c <= DoneTo'
        BY <1>1, <1>2, <1>4, <2>3
      <4>2. ASSUME NEW k \in DOMAIN present, k <= MetTo', IsOf(present[k], i) PROVE \A e \in ToSet(presidue') : ~Own(e, i)
        BY <1>3, <1>4, <2>1, <4>2 DEF MetInv
      <4> QED
        BY <1>2, <4>1, <4>2 DEF MetInv
    <3>9. LeftInv(i)'
      BY <3>2 DEF LeftInv
    <3> QED
      BY <3>7, <3>8, <3>9
  <2>4. CASE i # r.inc /\ acct # "v2"
    <3>1. \A e : Own(e, i) => ~(Former(r) # Anchor /\ SameKey(e, Former(r)))
      <4>1. acct = "v3"
        BY <1>4, <1>5, <2>4 DEF RecordOK, KernelInv
      <4>2. r.pid = r.inc[1] /\ r.inc[1] # i[1] /\ r.inc[1] \in Pids
        <5>1. r.pid = r.inc[1]
          BY <1>5, <4>1 DEF RecordOK
        <5>2. r.inc[1] # i[1]
          BY <1>6, <2>1, <2>4 DEF Unique
        <5> QED
          BY <1>6, <5>1, <5>2, KernTypes
      <4>3. r.pid # NoPid
        <5>1. \A x \in Pids : x # 0
          BY TaskAssumption
        <5> QED
          BY <4>2, <5>1 DEF NoPid
      <4>4. Former(r) # Anchor => Former(r).pid = r.pid
        BY <1>4, <4>3, FormerIs
      <4> QED
        BY <4>2, <4>4 DEF Own, SameKey
    <3>2. \A e : Own(e, i) => (e \in Stored' <=> e \in Stored)
      BY <1>3, <3>1
    <3>3. \A e \in ToSet(presidue') : Own(e, i) => e \in ToSet(presidue)
      BY <1>3
    <3>4. charged'[i] = charged[i]
      BY <1>7, <2>1, <2>4, KernTypes
    <3>5. \A k \in DOMAIN present : k <= MetTo' /\ IsOf(present[k], i) => k <= MetTo
      BY <1>4
    <3>6. \A k \in DOMAIN present : k <= MetTo => k <= MetTo'
      BY <1>4
    <3>7. \A g \in DOMAIN gone : g <= DoneTo => g <= DoneTo'
      BY <1>4
    <3>8. MetTo \in Nat /\ MetTo' \in Nat /\ DoneTo \in Nat /\ DoneTo' \in Nat
      BY <1>4
    <3> QED
      BY <1>2, <1>4, <2>1, <3>2, <3>3, <3>4, <3>5, <3>6, <3>7, <3>8, OtherShare
  <2>5. CASE i # r.inc /\ acct = "v2"
    <3>1. charged'[i] = charged[i]
      BY <1>7, <2>1, <2>5, KernTypes
    <3>2. ASSUME NEW k \in DOMAIN present, IsOf(present[k], i)
          PROVE  \A e \in Stored : Own(e, i) => e \in Stored'
      <4>1. \A e \in ToSet(presidue) : ~Own(e, i)
        <5>1. k <= MetTo
          BY <1>4
        <5> QED
          BY <2>1, <3>2, <5>1 DEF MetInv
      <4>2. r.pid = NoPid
        BY <1>5, <2>5 DEF RecordOK
      <4>3. Former(r) # Anchor => ~Own(Former(r), i)
        BY <1>4, <4>1, <4>2, FormerIs
      <4> QED
        BY <1>3, <4>3 DEF Own, SameKey
    <3>3. EntryInv(i)'
      <4>1. Traced(i)' => kern[i].alive
        BY <1>2, <2>5 DEF Traced
      <4>2. kern[i].alive => Traced(i) /\ Coming(i)
        BY DEF Traced, Coming
      <4>3. kern[i].alive => \A e \in Stored : Own(e, i) => e \in Stored'
        <5>1. kern[i].alive => \E k \in DOMAIN present : IsOf(present[k], i)
          BY <1>2, <1>5, <2>1 DEF SourceInv, Unique
        <5> QED
          BY <3>2, <5>1
      <4>4. Traced(i)' => \A e \in Stored' : Own(e, i) => charged'[i] = e.use
        BY <1>3, <2>1, <3>1, <4>1, <4>2 DEF EntryInv
      <4>5. Traced(i)' /\ (\A e \in Stored' : ~Own(e, i)) => charged'[i] = 0
        BY <2>1, <3>1, <4>1, <4>2, <4>3 DEF EntryInv
      <4> QED
        BY <1>2, <2>2, <2>5, <4>4, <4>5 DEF EntryInv
    <3>4. MetInv(i)'
      BY <1>2, <1>3, <1>4, <2>1, <2>5, <3>1 DEF MetInv
    <3>5. LeftInv(i)'
      BY <1>2, <2>5 DEF LeftInv
    <3> QED
      BY <3>3, <3>4, <3>5
  <2> QED
    BY <2>3, <2>4, <2>5
<1> QED
  BY <1>8, <1>9, <1>10, <1>11 DEF ShareInv

---------------------------------------------------------------------------
(* What is shown for a process: the theorems.                                *)

LEMMA ShareInit ==
  ASSUME Init
  PROVE  ShareInv
<1>1. /\ phase = "idle" /\ DOMAIN kern = {} /\ DOMAIN exits = {} /\ DOMAIN gone = {} /\ DOMAIN netexits = {}
      /\ DOMAIN present = {} /\ present = << >> /\ exits = << >> /\ gone = << >> /\ ~Sampling /\ ~Byp
      /\ \A i \in Incs : charged[i] = 0
  BY DEF Init, Sampling, Byp
<1>2. Stored = {}
  <2>1. phash = [b \in Queues |-> << >>]
    BY DEF Init, Queues
  <2>2. \A b \in Queues : ToSet(phash[b]) = {}
    BY <2>1 DEF ToSet
  <2> QED
    BY <2>1, <2>2 DEF Stored
<1>3. SourceInv
  BY <1>1, <1>2 DEF SourceInv
<1>4. RecordInv
  BY <1>1 DEF RecordInv, OneRecord
<1>5. NetInv
  BY <1>1 DEF NetInv
<1> QED
  BY <1>1, <1>3, <1>4, <1>5 DEF ShareInv

LEMMA ShareStep ==
  ASSUME TaskInv, TaskInv', ShareInv, [Next]_vars
  PROVE  ShareInv'
<1>1. CASE World
  BY <1>1, WorldShare
<1>2. CASE Photo
  BY <1>2, PhotoShare
<1>3. CASE DeviatStart
  BY <1>3, DeviatStartShare
<1>4. CASE PresentTask
  BY <1>4, PresentTaskShare
<1>5. CASE PresentDone
  BY <1>5, PresentDoneShare
<1>6. CASE ExitedTask
  BY <1>6, ExitedTaskShare
<1>7. CASE ExitedDone
  BY <1>7, ExitedDoneShare
<1>8. CASE CleanTask
  BY <1>8, CleanTaskShare
<1>9. CASE DeviatDone
  BY <1>9, DeviatDoneShare
<1>10. CASE UNCHANGED vars
  <2>1. /\ UNCHANGED <<acct, kern, exits, netexits, phash, presidue, present, gone, taskall, prev, charged, missed>>
        /\ phase' = phase /\ c' = c
    BY <1>10 DEF vars, world, base, sample
  <2>2. MetTo' = MetTo /\ DoneTo' = DoneTo /\ Sampling' = Sampling
    BY <2>1 DEF MetTo, DoneTo, Sampling
  <2> QED
    BY <2>1, <2>2, LoopEnds
<1> QED
  BY <1>1, <1>2, <1>3, <1>4, <1>5, <1>6, <1>7, <1>8, <1>9, <1>10 DEF Next

(* What the database holds of a process is what was shown of it, in every    *)
(* behaviour of deviattask.                                                  *)
THEOREM TaskShareInvariant == Spec => [](TaskInv /\ ShareInv)
<1>1. Init => TaskInv /\ ShareInv
  BY TaskInit, ShareInit
<1>2. (TaskInv /\ ShareInv) /\ [Next]_vars => (TaskInv /\ ShareInv)'
  BY TaskStep, ShareStep
<1> QED
  BY <1>1, <1>2, PTL DEF Spec

LEMMA ClearUnique ==
  ASSUME NEW i, Clear(i)
  PROVE  Unique(i)
BY DEF Clear, Unique

LEMMA SharesAddUp ==
  ASSUME TaskInv, ShareInv
  PROVE  TicksAddUp
<1> SUFFICES ASSUME phase = "clean", NEW k \in DOMAIN present, present[k].isproc, Clear(Inc(present[k])),
                    \A g \in DOMAIN gone : gone[g].inc # Inc(present[k])
             PROVE  charged[Inc(present[k])] = present[k].use
  BY DEF TicksAddUp
<1>1. PICK i \in DOMAIN kern : i = Inc(present[k])
  BY DEF ShareInv, SourceInv
<1>2. MetInv(i)
  BY <1>1, ClearUnique DEF ShareInv
<1>3. k <= MetTo
  BY DEF MetTo, TaskInv, SampleTypes
<1>4. IsOf(present[k], i)
  BY <1>1 DEF IsOf
<1> QED
  BY <1>1, <1>2, <1>3, <1>4 DEF MetInv

LEMMA SharesAreOwn ==
  ASSUME TaskInv, ShareInv
  PROVE  ChargedToItself
<1>1. EndedNotOvercharged
  <2> SUFFICES ASSUME NEW i \in DOMAIN kern, Clear(i), acct # "v2" PROVE charged[i] <= kern[i].use
    BY DEF EndedNotOvercharged
  <2> QED
    BY ClearUnique DEF ShareInv, EntryInv
<1>2. NetworkIsOwn
  <2> SUFFICES ASSUME phase = "clean", Byp, NEW g \in DOMAIN gone, Clear(gone[g].inc)
               PROVE  taskall[Len(present) + g].net = kern[gone[g].inc].use - LastSeen(gone[g].inc)
    BY DEF NetworkIsOwn
  <2>1. g <= DoneTo
    BY DEF DoneTo, TaskInv, SampleTypes
  <2> QED
    BY <2>1, ClearUnique DEF ShareInv, NetInv
<1> QED
  BY <1>1, <1>2 DEF ChargedToItself

(* deviattask shows every tick of a process once: for a process nobody can   *)
(* be taken for, the ticks of all samples add up to its counter in the last  *)
(* sample that has it, whatever processes start, end and reappear around it. *)
THEOREM TaskTicksAddUp == Spec => []TicksAddUp
BY TaskShareInvariant, SharesAddUp, PTL

(* What deviattask shows of a process that ended is its own: not more than   *)
(* it consumed, whatever the accounting record says, and of the network      *)
(* record what the samples before have not shown yet.                        *)
THEOREM TaskChargedToItself == Spec => []ChargedToItself
BY TaskShareInvariant, SharesAreOwn, PTL
=============================================================================
