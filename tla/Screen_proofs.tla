---------------------------- MODULE Screen_proofs ----------------------------
(***************************************************************************)
(* Proofs about what atop shows: the tables of devices that photosyst,     *)
(* deviatsyst and totalsyst keep, for any number of devices, samples and   *)
(* changes, tables of any size and counters of any width; and the clock of *)
(* the interactive list, for any flags, keys and prompts.                  *)
(***************************************************************************)
EXTENDS MCScreen, Vectors_proofs, FiniteSetTheorems

-----------------------------------------------------------------------------
(* The invariant.                                                          *)

Device == [name : Names, cnt : 0 .. MAX32BITVAL - 1, speed : Nat, speedp : Nat, young : BOOLEAN]
Unused == {Stats!Empty}

\* The entries of a table are of different devices.
Different(tab) ==
  \A i, j \in DOMAIN tab : tab[i].name \in Names /\ tab[i].name = tab[j].name => i = j

\* A device that was there at both times has counted so much in between.
Counted(new, old, by) ==
  \A i \in DOMAIN new, j \in DOMAIN old :
    new[i].name \in Names /\ new[i].name = old[j].name /\ ~new[i].young =>
      new[i].cnt = (old[j].cnt + by[new[i].name]) % MAX32BITVAL

\* New devices come last, and what is in front of a device was so before.
Follows(new, old) ==
  \A i, k \in DOMAIN new : i < k /\ ~new[k].young =>
    /\ ~new[i].young
    /\ \A b \in DOMAIN old : old[b].name = new[k].name =>
         \E a \in DOMAIN old : a < b /\ old[a].name = new[i].name

KernelInv ==
  /\ sclass \in Classes \cup {"none"}
  /\ kdevs \in Seq(Device) /\ Different(kdevs)
  /\ really \in [Names -> 0 .. MAX32BITVAL - 1]
  /\ took \in [Names -> 0 .. MAX32BITVAL - 1]
  /\ spc \in [samples : Nat, changes : Nat, step : {"photo", "dev", "tot"}]

TableInv(t) ==
  /\ t \in [tab : Seq(Device \cup Unused), n : Nat] /\ Different(t.tab)
  /\ sclass # "cpu" => t.tab \in Seq(Device)

\* Before the system is chosen there are no tables.
NoneInv == sclass = "none" =>
  cur = Stats!NoTable /\ pre = Stats!NoTable /\ dev = Stats!NoTable /\ tot = << >> /\ spc.step = "photo"

\* What the interfaces need to be told apart in the totals.
NamedInv == sclass = "intf" => \A i \in DOMAIN dev.tab : dev.tab[i].name \in Names

Property == [name : Names, speed : Nat]

StatsInv ==
  /\ KernelInv /\ TableInv(cur) /\ TableInv(pre) /\ NoneInv /\ NamedInv /\ ifprops \in Seq(Property)
  /\ Counted(kdevs, cur.tab, really) /\ Counted(cur.tab, pre.tab, took)
  /\ sclass = "dsk" => Follows(kdevs, cur.tab) /\ Follows(cur.tab, pre.tab)
  /\ Stats!DevicesMatched

\* The kernel lists a new disk behind the others.
DisksComeLast == Anywhere => "dsk" \notin Classes

-----------------------------------------------------------------------------
(* Numbers and sequences.                                                  *)

\* Min of a set of numbers.
LEMMA LeastOf ==
  ASSUME NEW S \in SUBSET Nat, S # {}
  PROVE  Stats!Min(S) \in S /\ \A x \in S : Stats!Min(S) <= x
<1>1. PICK k \in S : \A j \in S : k <= j
  BY SmallestElement
<1> QED
  BY <1>1 DEF Stats!Min

\* Min of two numbers.
LEMMA LeastOfTwo ==
  ASSUME NEW a \in Nat, NEW b \in Nat
  PROVE  Stats!Min({a, b}) = IF a <= b THEN a ELSE b
<1>1. {a, b} \in SUBSET Nat /\ {a, b} # {}
  OBVIOUS
<1>2. Stats!Min({a, b}) \in {a, b} /\ \A x \in {a, b} : Stats!Min({a, b}) <= x
  BY <1>1, LeastOf
<1> QED
  BY <1>2

\* A counter that has wrapped at most once.
LEMMA Wrapped ==
  ASSUME NEW n \in Nat, NEW m \in Nat \ {0}, n < m + m
  PROVE  n % m = IF n < m THEN n ELSE n - m
OBVIOUS

\* One more.
LEMMA CountsOn ==
  ASSUME NEW m \in Nat \ {0}, NEW a \in 0 .. m - 1, NEW r \in Nat, r < m - 1
  PROVE  /\ (((a + r) % m) + 1) % m = (a + (r + 1)) % m
         /\ \A c \in 0 .. m - 1 : (c + 1) % m \in 0 .. m - 1
<1>1. PICK x \in Nat : x = a + r
  OBVIOUS
<1>2. PICK y \in Nat : y = a + (r + 1)
  OBVIOUS
<1>0. x < m + m /\ y < m + m
  BY <1>1, <1>2
<1>3. /\ x % m = IF x < m THEN x ELSE x - m
      /\ y % m = IF y < m THEN y ELSE y - m
  BY <1>0, Wrapped, Zenon
<1>4. PICK z \in Nat : z = (x % m) + 1
  <2>1. x % m \in Nat
    BY <1>0, <1>3
  <2> QED
    BY <2>1
<1>8. z < m + m
  BY <1>0, <1>3, <1>4
<1>5. z % m = IF z < m THEN z ELSE z - m
  BY <1>8, Wrapped, Zenon
<1>6. z % m = y % m
  BY <1>1, <1>2, <1>3, <1>4, <1>5
<1>7. ASSUME NEW c \in 0 .. m - 1 PROVE (c + 1) % m \in 0 .. m - 1
  <2>1. PICK d \in Nat : d = c + 1
    OBVIOUS
  <2>4. d < m + m
    BY <2>1
  <2>2. d % m = IF d < m THEN d ELSE d - m
    BY <2>4, Wrapped, Zenon
  <2>3. d % m \in 0 .. m - 1
    BY <2>1, <2>2
  <2> QED
    BY <2>1, <2>3
<1> QED
  BY <1>1, <1>2, <1>4, <1>6, <1>7

\* subcount undoes one turn of the counter.
LEMMA SubcountIs ==
  ASSUME Stats!StatsAssumption, NEW a \in 0 .. MAX32BITVAL - 1, NEW t \in 0 .. MAX32BITVAL - 1
  PROVE  Stats!subcount((a + t) % MAX32BITVAL, a) = t /\ Stats!subcount(a, 0) = a
<1>1. MAX32BITVAL \in Nat \ {0}
  BY DEF Stats!StatsAssumption
<1>2. PICK x \in Nat : x = a + t
  BY <1>1
<1>5. x < MAX32BITVAL + MAX32BITVAL
  BY <1>1, <1>2
<1>3. x % MAX32BITVAL = IF x < MAX32BITVAL THEN x ELSE x - MAX32BITVAL
  BY <1>1, <1>5, Wrapped, Zenon
<1>4. Stats!subcount(x % MAX32BITVAL, a) = t /\ Stats!subcount(a, 0) = a
  BY <1>1, <1>2, <1>3 DEF Stats!subcount
<1> QED
  BY <1>2, <1>4

\* RemoveAt leaves the other elements in their order.
LEMMA RemoveAtIs ==
  ASSUME NEW T, NEW s \in Seq(T), NEW p \in DOMAIN s
  PROVE  /\ Stats!RemoveAt(s, p) \in Seq(T) /\ Len(Stats!RemoveAt(s, p)) = Len(s) - 1
         /\ \A k \in 1 .. Len(s) - 1 :
              Stats!RemoveAt(s, p)[k] = IF k < p THEN s[k] ELSE s[k + 1]
<1> DEFINE a == SubSeq(s, 1, p - 1)   b == SubSeq(s, p + 1, Len(s))
<1>1. p \in 1 .. Len(s) /\ Len(s) \in Nat /\ \A k \in 1 .. Len(s) : s[k] \in T
  OBVIOUS
<1>2. a \in Seq(T) /\ Len(a) = p - 1 /\ \A k \in 1 .. p - 1 : a[k] = s[k]
  <2>1. 1 \in Int /\ p - 1 \in Int /\ \A k \in 1 .. p - 1 : s[k] \in T
    BY <1>1
  <2>2. /\ a \in Seq(T) /\ Len(a) = IF 1 <= p - 1 THEN (p - 1) - 1 + 1 ELSE 0
        /\ \A k \in 1 .. (p - 1) - 1 + 1 : a[k] = s[1 + k - 1]
    BY <2>1, SubSeqProperties
  <2> QED
    BY <1>1, <2>2
<1>3. b \in Seq(T) /\ Len(b) = Len(s) - p /\ \A k \in 1 .. Len(s) - p : b[k] = s[p + k]
  <2>1. p + 1 \in Int /\ Len(s) \in Int /\ \A k \in p + 1 .. Len(s) : s[k] \in T
    BY <1>1
  <2>2. /\ b \in Seq(T) /\ Len(b) = IF p + 1 <= Len(s) THEN Len(s) - (p + 1) + 1 ELSE 0
        /\ \A k \in 1 .. Len(s) - (p + 1) + 1 : b[k] = s[(p + 1) + k - 1]
    BY <2>1, SubSeqProperties
  <2> QED
    BY <1>1, <2>2
<1> HIDE DEF a, b
<1>4. /\ a \o b \in Seq(T) /\ Len(a \o b) = Len(a) + Len(b)
      /\ \A k \in 1 .. Len(a) + Len(b) : (a \o b)[k] = IF k <= Len(a) THEN a[k] ELSE b[k - Len(a)]
  BY <1>2, <1>3, ConcatProperties
<1>5. Stats!RemoveAt(s, p) = a \o b
  BY DEF Stats!RemoveAt, a, b
<1>6. Len(a) + Len(b) = Len(s) - 1
  BY <1>1, <1>2, <1>3
<1>7. ASSUME NEW k \in 1 .. Len(s) - 1 PROVE (a \o b)[k] = IF k < p THEN s[k] ELSE s[k + 1]
  <2>1. k \in 1 .. Len(a) + Len(b) /\ p \in Nat /\ k \in Nat
    BY <1>1, <1>6
  <2>2. CASE k < p
    BY <1>2, <1>4, <2>1, <2>2
  <2>3. CASE ~(k < p)
    <3>1. k - (p - 1) \in 1 .. Len(s) - p /\ p + (k - (p - 1)) = k + 1
      BY <1>1, <2>1, <2>3
    <3>2. b[k - (p - 1)] = s[k + 1]
      BY <1>3, <3>1
    <3>3. (a \o b)[k] = b[k - Len(a)]
      BY <1>2, <1>4, <2>1, <2>3
    <3> QED
      BY <1>2, <2>3, <3>2, <3>3
  <2> QED
    BY <2>2, <2>3
<1> QED
  BY <1>4, <1>5, <1>6, <1>7

\* InsertAt moves the elements from the place on.
LEMMA InsertAtIs ==
  ASSUME NEW T, NEW s \in Seq(T), NEW p \in 1 .. Len(s) + 1, NEW e \in T
  PROVE  /\ Stats!InsertAt(s, p, e) \in Seq(T) /\ Len(Stats!InsertAt(s, p, e)) = Len(s) + 1
         /\ \A k \in 1 .. Len(s) + 1 :
              Stats!InsertAt(s, p, e)[k] = IF k < p THEN s[k] ELSE IF k = p THEN e ELSE s[k - 1]
<1> DEFINE a == SubSeq(s, 1, p - 1)   b == SubSeq(s, p, Len(s))   c == <<e>>
<1>1. p \in Nat \ {0} /\ Len(s) \in Nat /\ \A k \in 1 .. Len(s) : s[k] \in T
  OBVIOUS
<1>2. a \in Seq(T) /\ Len(a) = p - 1 /\ \A k \in 1 .. p - 1 : a[k] = s[k]
  <2>1. 1 \in Int /\ p - 1 \in Int /\ \A k \in 1 .. p - 1 : s[k] \in T
    BY <1>1
  <2>2. /\ a \in Seq(T) /\ Len(a) = IF 1 <= p - 1 THEN (p - 1) - 1 + 1 ELSE 0
        /\ \A k \in 1 .. (p - 1) - 1 + 1 : a[k] = s[1 + k - 1]
    BY <2>1, SubSeqProperties
  <2> QED
    BY <1>1, <2>2
<1>3. b \in Seq(T) /\ Len(b) = Len(s) - p + 1 /\ \A k \in 1 .. Len(s) - p + 1 : b[k] = s[p + k - 1]
  <2>1. p \in Int /\ Len(s) \in Int /\ \A k \in p .. Len(s) : s[k] \in T
    BY <1>1
  <2>2. /\ b \in Seq(T) /\ Len(b) = IF p <= Len(s) THEN Len(s) - p + 1 ELSE 0
        /\ \A k \in 1 .. Len(s) - p + 1 : b[k] = s[p + k - 1]
    BY <2>1, SubSeqProperties
  <2> QED
    BY <1>1, <2>2
<1>4. c \in Seq(T) /\ Len(c) = 1 /\ c[1] = e
  OBVIOUS
<1> HIDE DEF a, b, c
<1>5. /\ a \o c \in Seq(T) /\ Len(a \o c) = Len(a) + Len(c)
      /\ \A k \in 1 .. Len(a) + Len(c) : (a \o c)[k] = IF k <= Len(a) THEN a[k] ELSE c[k - Len(a)]
  BY <1>2, <1>4, ConcatProperties
<1> DEFINE d == a \o c
<1>6. d \in Seq(T) /\ Len(d) = p /\ d[p] = e /\ \A k \in 1 .. p - 1 : d[k] = s[k]
  BY <1>1, <1>2, <1>4, <1>5
<1> HIDE DEF d
<1>7. /\ d \o b \in Seq(T) /\ Len(d \o b) = Len(d) + Len(b)
      /\ \A k \in 1 .. Len(d) + Len(b) : (d \o b)[k] = IF k <= Len(d) THEN d[k] ELSE b[k - Len(d)]
  BY <1>3, <1>6, ConcatProperties
<1>8. Stats!InsertAt(s, p, e) = d \o b
  BY DEF Stats!InsertAt, a, b, c, d
<1> QED
  BY <1>1, <1>3, <1>6, <1>7, <1>8

\* Prefix takes the first elements.
LEMMA PrefixIs ==
  ASSUME NEW T, NEW s \in Seq(T), NEW n \in Nat
  PROVE  /\ Stats!Prefix(s, n) \in Seq(T)
         /\ Len(Stats!Prefix(s, n)) = IF Len(s) <= n THEN Len(s) ELSE n
         /\ \A k \in DOMAIN Stats!Prefix(s, n) : k \in DOMAIN s /\ Stats!Prefix(s, n)[k] = s[k]
<1> DEFINE m == IF Len(s) <= n THEN Len(s) ELSE n
<1>1. m \in Nat /\ m <= Len(s) /\ \A k \in 1 .. m : k \in DOMAIN s /\ s[k] \in T
  OBVIOUS
<1>2. Stats!Prefix(s, n) = SubSeq(s, 1, m)
  BY LeastOfTwo DEF Stats!Prefix
<1> HIDE DEF m
<1>3. 1 \in Int /\ m \in Int /\ \A k \in 1 .. m : s[k] \in T
  BY <1>1
<1>4. /\ SubSeq(s, 1, m) \in Seq(T) /\ Len(SubSeq(s, 1, m)) = IF 1 <= m THEN m - 1 + 1 ELSE 0
      /\ \A k \in 1 .. m - 1 + 1 : SubSeq(s, 1, m)[k] = s[1 + k - 1]
  BY <1>3, SubSeqProperties
<1>5. Len(SubSeq(s, 1, m)) = m /\ \A k \in 1 .. m : SubSeq(s, 1, m)[k] = s[k]
  BY <1>1, <1>4
<1> QED
  BY <1>1, <1>2, <1>4, <1>5 DEF m

\* A device has a name, which an unused entry has not.
LEMMA DeviceIs ==
  ASSUME Stats!StatsAssumption
  PROVE  /\ Stats!Empty.name = -1 /\ Stats!Empty.cnt = 0 /\ -1 \notin Names
         /\ MAX32BITVAL \in Nat \ {0}
         /\ \A e \in Device : /\ e.name \in Names /\ e.name \in Nat /\ e.name # -1
                              /\ e.cnt \in 0 .. MAX32BITVAL - 1
<1>1. Names \in SUBSET Nat /\ MAX32BITVAL \in Nat \ {0}
  BY DEF Stats!StatsAssumption
<1>2. -1 \notin Names
  BY <1>1
<1>3. \A e \in Device : e.name \in Names /\ e.cnt \in 0 .. MAX32BITVAL - 1
  BY DEF Device
<1>4. Stats!Empty.name = -1 /\ Stats!Empty.cnt = 0
  BY DEF Stats!Empty
<1>5. \A e \in Device : e.name \in Nat /\ e.name # -1
  BY <1>1, <1>2, <1>3
<1> QED
  BY <1>1, <1>2, <1>3, <1>4, <1>5

-----------------------------------------------------------------------------
(* The walk of deviatsyst.                                                 *)

\* The walk as a function of the places.
Step(f, i) == IF i = 0 THEN [m |-> 0, j |-> 1] ELSE Stats!NextPlace(cur.tab[i], f[i - 1].j)

\* For a table of any length there is such a walk: it is made step by step.
LEMMA WalkSolution ==
  ASSUME NEW len \in Nat
  PROVE  \E f : f = [i \in 0 .. len |-> Step(f, i)]
<1> DEFINE Solved(m) == \E f : f = [i \in 0 .. m |-> Step(f, i)]
           S == {m \in Nat : ~Solved(m)}
<1>1. SUFFICES ASSUME S # {} PROVE FALSE
  OBVIOUS
<1>2. PICK m \in S : \A j \in S : m <= j
  BY <1>1, SmallestElement
<1>3. m # 0
  <2> DEFINE f == [i \in 0 .. 0 |-> [m |-> 0, j |-> 1]]
  <2>1. f = [i \in 0 .. 0 |-> Step(f, i)]
    BY DEF Step
  <2> QED
    BY <2>1
<1>4. m \in Nat /\ m - 1 \in Nat /\ Solved(m - 1)
  BY <1>2, <1>3
<1>5. PICK f : f = [i \in 0 .. m - 1 |-> Step(f, i)]
  BY <1>4
<1> DEFINE g == [i \in 0 .. m |-> IF i < m THEN f[i] ELSE Step(f, m)]
<1>6. ASSUME NEW i \in 0 .. m PROVE g[i] = Step(g, i)
  <2>1. i = 0 \/ (i - 1 \in 0 .. m - 1 /\ g[i - 1] = f[i - 1])
    BY <1>4
  <2>2. Step(g, i) = Step(f, i)
    <3> HIDE DEF g
    <3> QED
      BY <2>1 DEF Step
  <2>3. CASE i < m
    BY <1>4, <1>5, <2>2, <2>3
  <2>4. CASE i = m
    BY <1>4, <2>2, <2>4
  <2> QED
    BY <1>4, <2>3, <2>4
<1>7. g = [i \in 0 .. m |-> Step(g, i)]
  BY <1>6
<1> QED
  BY <1>2, <1>7

\* Compared is what the walk finds, each entry starting from the pointer that
\* the one before has left.
LEMMA WalkIs ==
  ASSUME NEW len \in Nat, len = Len(cur.tab)
  PROVE  \E f : /\ f[0].j = 1
                /\ \A i \in 1 .. len : f[i] = Stats!NextPlace(cur.tab[i], f[i - 1].j)
                /\ \A i \in 1 .. len : Stats!Compared[i] = IF sclass \in {"cont", "cpu"} THEN i ELSE f[i].m
<1> DEFINE f == CHOOSE f : f = [i \in 0 .. Len(cur.tab) |-> Step(f, i)]
<1>1. f = [i \in 0 .. Len(cur.tab) |-> Step(f, i)]
  BY WalkSolution
<1>2. Stats!Compared = [i \in 1 .. Len(cur.tab) |-> IF sclass \in {"cont", "cpu"} THEN i ELSE f[i].m]
  BY DEF Stats!Compared, Step
<1> HIDE DEF f
<1>3. \A i \in 0 .. len : f[i] = Step(f, i)
  BY <1>1
<1>4. f[0].j = 1
  <2>1. f[0] = Step(f, 0)
    BY <1>3
  <2> QED
    BY <2>1 DEF Step
<1>5. ASSUME NEW i \in 1 .. len PROVE f[i] = Stats!NextPlace(cur.tab[i], f[i - 1].j)
  <2>1. f[i] = Step(f, i) /\ i # 0
    BY <1>3
  <2> QED
    BY <2>1 DEF Step
<1>6. ASSUME NEW i \in 1 .. len
      PROVE  Stats!Compared[i] = IF sclass \in {"cont", "cpu"} THEN i ELSE f[i].m
  BY <1>2
<1> QED
  BY <1>4, <1>5, <1>6

\* A search goes to the entry with the name, if it starts not behind it, and
\* otherwise behind the end.
LEMMA FirstNamedIs ==
  ASSUME Stats!StatsAssumption, NEW tab \in Seq(Device), Different(tab), NEW d \in Names,
         NEW from \in Nat \ {0}
  PROVE  /\ Stats!FirstNamed(tab, d, from) \in Nat \ {0}
         /\ \A q \in DOMAIN tab : q >= from /\ tab[q].name = d => Stats!FirstNamed(tab, d, from) = q
         /\ d \notin Stats!NamesIn(tab) => Stats!FirstNamed(tab, d, from) \notin DOMAIN tab
<1> DEFINE S == {k \in from .. Len(tab) + from : Stats!At(tab, k).name \in {d, Stats!Empty.name}}
           r == Stats!Min(S)
<1>1. Stats!FirstNamed(tab, d, from) = r
  BY DEF Stats!FirstNamed
<1>2. Len(tab) \in Nat /\ DOMAIN tab = 1 .. Len(tab) /\ d \in Nat /\ Stats!Empty.name = -1
      /\ \A k \in DOMAIN tab : tab[k].name \in Names /\ tab[k].name # -1
  <2>1. Len(tab) \in Nat /\ DOMAIN tab = 1 .. Len(tab) /\ \A k \in DOMAIN tab : tab[k] \in Device
    OBVIOUS
  <2>2. d \in Nat
    BY DEF Stats!StatsAssumption
  <2> QED
    BY <2>1, <2>2, DeviceIs
<1>3. \A k : k \notin DOMAIN tab => Stats!At(tab, k) = Stats!Empty
  BY DEF Stats!At
<1>4. \A k \in DOMAIN tab : Stats!At(tab, k) = tab[k]
  BY DEF Stats!At
<1>5. Len(tab) + from \in S /\ S \in SUBSET Nat
  BY <1>2, <1>3
<1>6. r \in S /\ \A x \in S : r <= x
  BY <1>5, LeastOf
<1>7. r \in Nat \ {0}
  BY <1>6
<1>8. ASSUME NEW q \in DOMAIN tab, q >= from, tab[q].name = d PROVE r = q
  <2>1. q \in S
    BY <1>2, <1>4, <1>8
  <2>2. r \in DOMAIN tab
    BY <1>2, <1>6, <1>7, <2>1
  <2>3. tab[r].name = d
    BY <1>2, <1>4, <1>6, <2>2
  <2> QED
    BY <1>8, <2>2, <2>3 DEF Different
<1>9. ASSUME d \notin Stats!NamesIn(tab) PROVE r \notin DOMAIN tab
  <2>1. SUFFICES ASSUME r \in DOMAIN tab PROVE FALSE
    OBVIOUS
  <2>2. tab[r].name = d
    BY <1>2, <1>4, <1>6, <2>1
  <2> QED
    BY <1>9, <2>1, <2>2 DEF Stats!NamesIn
<1> HIDE DEF r
<1> QED
  BY <1>1, <1>7, <1>8, <1>9

\* One step of the walk: an interface or a mount is found wherever it is, a
\* disk if the pointer is not behind it, and a new device nowhere.
LEMMA PlaceIs ==
  ASSUME Stats!StatsAssumption, pre.tab \in Seq(Device), Different(pre.tab),
         sclass \in {"intf", "dsk", "nfs"}, NEW e \in Device, NEW j \in Nat \ {0},
         NEW r, r = Stats!NextPlace(e, j)
  PROVE  /\ r.m \in Nat /\ r.j \in Nat \ {0}
         /\ \A q \in DOMAIN pre.tab :
              pre.tab[q].name = e.name /\ (sclass = "dsk" => j <= q) /\ (sclass = "nfs" => ~e.young) =>
                r.m = q /\ r.j = q + 1
         /\ e.name \notin Stats!NamesIn(pre.tab) => r.m \notin DOMAIN pre.tab /\ (sclass = "intf" => r.m = 0)
         /\ sclass = "nfs" /\ e.young => r.m = 0
<1> DEFINE tab == pre.tab   d == e.name
<1>1. /\ d \in Names /\ d \in Nat /\ DOMAIN tab = 1 .. Len(tab) /\ Len(tab) \in Nat /\ Stats!Empty.name = -1
      /\ \A k \in DOMAIN tab : tab[k].name \in Names
  <2>1. Len(tab) \in Nat /\ DOMAIN tab = 1 .. Len(tab) /\ \A k \in DOMAIN tab : tab[k] \in Device
    OBVIOUS
  <2> QED
    BY <2>1, DeviceIs
<1>2. /\ \A k : k \notin DOMAIN tab => Stats!At(tab, k).name # d
      /\ \A k \in DOMAIN tab : Stats!At(tab, k) = tab[k]
  BY <1>1 DEF Stats!At
<1>3. \A k : Stats!At(tab, k).name = d => k \in DOMAIN tab /\ tab[k].name = d
  BY <1>2
<1>4. \A k, q \in DOMAIN tab : tab[k].name = d /\ tab[q].name = d => k = q
  BY <1>1 DEF Different
<1>5. d \notin Stats!NamesIn(tab) => \A k : Stats!At(tab, k).name # d
  BY <1>3 DEF Stats!NamesIn
<1> HIDE DEF d
<1>6. CASE sclass = "intf"
  <2>1. PICK k : k = Stats!FirstNamed(tab, d, 1)
    OBVIOUS
  <2>2. /\ k \in Nat \ {0} /\ \A q \in DOMAIN tab : tab[q].name = d => k = q
        /\ d \notin Stats!NamesIn(tab) => k \notin DOMAIN tab
    BY <1>1, <2>1, FirstNamedIs
  <2>3. PICK m : m = Stats!SameInterface(d, tab, j)
    OBVIOUS
  <2>4. m = IF Stats!At(tab, j).name = d THEN j ELSE IF k \in DOMAIN tab THEN k ELSE 0
    BY <2>1, <2>3 DEF Stats!SameInterface
  <2>5. r.m = m /\ r.j = IF m = 0 THEN 2 ELSE m + 1
    BY <1>6, <2>3 DEF Stats!NextPlace, d
  <2>6. m \in Nat /\ r.j \in Nat \ {0}
    BY <2>2, <2>4, <2>5
  <2>7. ASSUME NEW q \in DOMAIN tab, tab[q].name = d PROVE m = q
    BY <1>3, <1>4, <2>2, <2>4, <2>7
  <2>8. ASSUME d \notin Stats!NamesIn(tab) PROVE m \notin DOMAIN tab /\ m = 0
    BY <1>1, <1>5, <2>2, <2>4, <2>8
  <2> QED
    BY <1>1, <1>6, <2>5, <2>6, <2>7, <2>8 DEF d
<1>7. CASE sclass = "dsk"
  <2>1. PICK k : k = Stats!FirstNamed(tab, d, j + 1)
    OBVIOUS
  <2>2. /\ k \in Nat \ {0} /\ \A q \in DOMAIN tab : q >= j + 1 /\ tab[q].name = d => k = q
        /\ d \notin Stats!NamesIn(tab) => k \notin DOMAIN tab
    <3>1. j + 1 \in Nat \ {0}
      OBVIOUS
    <3> QED
      BY <1>1, <2>1, <3>1, FirstNamedIs
  <2>3. PICK m : m = Stats!SameDisk(d, tab, j)
    OBVIOUS
  <2>4. m = IF Stats!At(tab, j).name = d THEN j ELSE k
    BY <2>1, <2>3 DEF Stats!SameDisk
  <2>5. r.m = m /\ r.j = m + 1
    BY <1>7, <2>3 DEF Stats!NextPlace, Stats!AfterDisk, d
  <2>6. m \in Nat /\ r.j \in Nat \ {0}
    BY <2>2, <2>4, <2>5
  <2>7. ASSUME NEW q \in DOMAIN tab, tab[q].name = d, j <= q PROVE m = q
    <3>1. CASE Stats!At(tab, j).name = d
      BY <1>3, <1>4, <2>4, <2>7, <3>1
    <3>2. CASE Stats!At(tab, j).name # d
      <4>1. q # j
        BY <1>2, <2>7, <3>2
      <4>2. q >= j + 1
        BY <1>1, <2>7, <4>1
      <4> QED
        BY <2>2, <2>4, <2>7, <3>2, <4>2
    <3> QED
      BY <3>1, <3>2
  <2>8. ASSUME d \notin Stats!NamesIn(tab) PROVE m \notin DOMAIN tab
    BY <1>1, <1>5, <2>2, <2>4, <2>8
  <2> QED
    BY <1>1, <1>7, <2>5, <2>6, <2>7, <2>8 DEF d
<1>8. CASE sclass = "nfs"
  <2>1. PICK k : k = Stats!FirstNamed(tab, d, 1)
    OBVIOUS
  <2>2. /\ k \in Nat \ {0} /\ \A q \in DOMAIN tab : tab[q].name = d => k = q
        /\ d \notin Stats!NamesIn(tab) => k \notin DOMAIN tab
    BY <1>1, <2>1, FirstNamedIs
  <2>3. PICK m : m = Stats!SameMount(d, tab, j)
    OBVIOUS
  <2>4. m = IF Stats!At(tab, j).name = d THEN j ELSE k
    BY <2>1, <2>3 DEF Stats!SameMount
  <2>5. r.m = (IF e.young THEN 0 ELSE m) /\ r.j = IF m = 0 THEN 2 ELSE m + 1
    BY <1>8, <2>3 DEF Stats!NextPlace, Stats!Remounted, d
  <2>6. m \in Nat \ {0} /\ r.m \in Nat /\ r.j \in Nat \ {0}
    BY <2>2, <2>4, <2>5
  <2>7. ASSUME NEW q \in DOMAIN tab, tab[q].name = d PROVE m = q
    BY <1>3, <1>4, <2>2, <2>4, <2>7
  <2>8. ASSUME d \notin Stats!NamesIn(tab) PROVE m \notin DOMAIN tab
    BY <1>1, <1>5, <2>2, <2>4, <2>8
  <2> QED
    BY <1>1, <1>8, <2>5, <2>6, <2>7, <2>8 DEF d
<1> QED
  BY <1>6, <1>7, <1>8

\* What deviatsyst compares an entry with: the entry of the same device in
\* the table before, if it has been there since, and nothing if it is new.
LEMMA ComparedIs ==
  ASSUME Stats!StatsAssumption, StatsInv, sclass \in {"intf", "dsk", "nfs"}, NEW i \in DOMAIN cur.tab
  PROVE  /\ Stats!Compared[i] \in Nat
         /\ \A q \in DOMAIN pre.tab :
              pre.tab[q].name = cur.tab[i].name /\ (sclass # "intf" => ~cur.tab[i].young) =>
                Stats!Compared[i] = q
         /\ cur.tab[i].name \notin Stats!NamesIn(pre.tab) =>
              Stats!Compared[i] \notin DOMAIN pre.tab /\ (sclass = "intf" => Stats!Compared[i] = 0)
         /\ sclass = "nfs" /\ cur.tab[i].young => Stats!Compared[i] = 0
<1> DEFINE len == Len(cur.tab)
<1>1. /\ cur.tab \in Seq(Device) /\ pre.tab \in Seq(Device) /\ Different(pre.tab)
      /\ sclass = "dsk" => Follows(cur.tab, pre.tab)
  BY DEF StatsInv, TableInv
<1>2. /\ len \in Nat /\ DOMAIN cur.tab = 1 .. len /\ \A k \in 1 .. len : cur.tab[k] \in Device
      /\ Len(pre.tab) \in Nat /\ DOMAIN pre.tab = 1 .. Len(pre.tab)
  BY <1>1
<1>3. PICK f : /\ f[0].j = 1
               /\ \A k \in 1 .. len : f[k] = Stats!NextPlace(cur.tab[k], f[k - 1].j)
               /\ \A k \in 1 .. len : Stats!Compared[k] = IF sclass \in {"cont", "cpu"} THEN k ELSE f[k].m
  BY <1>2, WalkIs
<1>4. ASSUME NEW k \in 0 .. len PROVE f[k].j \in Nat \ {0}
  <2> DEFINE S == {x \in 0 .. len : f[x].j \notin Nat \ {0}}
  <2>1. SUFFICES ASSUME S # {} PROVE FALSE
    OBVIOUS
  <2>2. PICK x \in S : \A y \in S : x <= y
    <3>1. S \in SUBSET Nat
      BY <1>2
    <3> QED
      BY <2>1, <3>1, SmallestElement
  <2>3. x # 0
    BY <1>3, <2>2
  <2>4. x \in 1 .. len /\ x - 1 \in 0 .. len /\ x - 1 \notin S
    BY <1>2, <2>2, <2>3
  <2>5. f[x - 1].j \in Nat \ {0}
    BY <2>4
  <2>6. f[x].j \in Nat \ {0}
    <3>1. cur.tab[x] \in Device /\ f[x] = Stats!NextPlace(cur.tab[x], f[x - 1].j)
      BY <1>2, <1>3, <2>4
    <3> QED
      BY <1>1, <2>5, <3>1, PlaceIs
  <2> QED
    BY <2>2, <2>6
<1>5. ASSUME NEW k \in 1 .. len
      PROVE  /\ cur.tab[k] \in Device /\ f[k - 1].j \in Nat \ {0} /\ k - 1 \in 0 .. len
             /\ f[k].m \in Nat
             /\ \A q \in DOMAIN pre.tab :
                  /\ pre.tab[q].name = cur.tab[k].name
                  /\ sclass = "dsk" => f[k - 1].j <= q
                  /\ sclass = "nfs" => ~cur.tab[k].young
                  => f[k].m = q /\ f[k].j = q + 1
             /\ cur.tab[k].name \notin Stats!NamesIn(pre.tab) =>
                  f[k].m \notin DOMAIN pre.tab /\ (sclass = "intf" => f[k].m = 0)
             /\ sclass = "nfs" /\ cur.tab[k].young => f[k].m = 0
  <2>1. k - 1 \in 0 .. len /\ cur.tab[k] \in Device
    BY <1>2
  <2>2. f[k - 1].j \in Nat \ {0} /\ f[k] = Stats!NextPlace(cur.tab[k], f[k - 1].j)
    BY <1>3, <1>4, <2>1
  <2> QED
    BY <1>1, <2>1, <2>2, PlaceIs
<1>6. ASSUME sclass = "dsk", NEW k \in 1 .. len, NEW q \in DOMAIN pre.tab,
             pre.tab[q].name = cur.tab[k].name, ~cur.tab[k].young
      PROVE  f[k].m = q
  <2> DEFINE Meets(x) == \A y \in DOMAIN pre.tab :
                           pre.tab[y].name = cur.tab[x].name /\ ~cur.tab[x].young =>
                             f[x].m = y /\ f[x].j = y + 1
             S == {x \in 1 .. len : ~Meets(x)}
  <2>1. SUFFICES ASSUME S # {} PROVE FALSE
    BY <1>6
  <2>2. PICK x \in S : \A y \in S : x <= y
    <3>1. S \in SUBSET Nat
      BY <1>2
    <3> QED
      BY <2>1, <3>1, SmallestElement
  <2>3. x \in 1 .. len /\ ~Meets(x)
    BY <2>2
  <2>4. PICK y \in DOMAIN pre.tab :
          /\ pre.tab[y].name = cur.tab[x].name /\ ~cur.tab[x].young
          /\ ~(f[x].m = y /\ f[x].j = y + 1)
    BY <2>3
  <2>5. f[x - 1].j <= y
    <3>1. CASE x = 1
      <4>1. f[x - 1].j = 1
        BY <1>3, <3>1
      <4> QED
        BY <1>2, <4>1
    <3>2. CASE x # 1
      <4>1. x - 1 \in 1 .. len /\ x - 1 < x /\ x - 1 \notin S
        <5>1. x \in Nat /\ x - 1 \in 1 .. len /\ ~(x <= x - 1)
          BY <1>2, <2>3, <3>2
        <5>2. x - 1 \notin S
          BY <2>2, <5>1
        <5> QED
          BY <5>1, <5>2
      <4>2. Meets(x - 1)
        BY <4>1
      <4>3. ~cur.tab[x - 1].young /\ \E a \in DOMAIN pre.tab : a < y /\ pre.tab[a].name = cur.tab[x - 1].name
        <5>1. Follows(cur.tab, pre.tab) /\ x - 1 \in DOMAIN cur.tab /\ x \in DOMAIN cur.tab
          BY <1>1, <1>2, <1>6, <2>3, <4>1
        <5>2. PICK u \in DOMAIN cur.tab : u = x - 1 /\ u < x
          BY <4>1, <5>1
        <5>3. ~cur.tab[x].young /\ pre.tab[y].name = cur.tab[x].name
          BY <2>4
        <5>4. ~cur.tab[u].young /\ \E a \in DOMAIN pre.tab : a < y /\ pre.tab[a].name = cur.tab[u].name
          BY <5>1, <5>2, <5>3 DEF Follows
        <5> QED
          BY <5>2, <5>4
      <4>4. PICK a \in DOMAIN pre.tab : a < y /\ pre.tab[a].name = cur.tab[x - 1].name
        BY <4>3
      <4>5. f[x - 1].j = a + 1
        BY <4>2, <4>3, <4>4
      <4> QED
        BY <1>2, <4>4, <4>5
    <3> QED
      BY <3>1, <3>2
  <2>6. f[x].m = y /\ f[x].j = y + 1
    BY <1>5, <1>6, <2>3, <2>4, <2>5
  <2> QED
    BY <2>4, <2>6
<1>7. i \in 1 .. len /\ Stats!Compared[i] = f[i].m
  BY <1>2, <1>3
<1>8. ASSUME NEW q \in DOMAIN pre.tab, pre.tab[q].name = cur.tab[i].name,
             sclass # "intf" => ~cur.tab[i].young
      PROVE  f[i].m = q
  <2>1. CASE sclass = "dsk"
    BY <1>6, <1>7, <1>8, <2>1
  <2>2. CASE sclass # "dsk"
    BY <1>5, <1>7, <1>8, <2>2
  <2> QED
    BY <2>1, <2>2
<1> QED
  BY <1>5, <1>7, <1>8

-----------------------------------------------------------------------------
(* The steps.                                                              *)

\* A kernel without devices, or with those it has when atop starts.
LEMMA BootInv ==
  ASSUME Stats!StatsAssumption, StatsInv, Stats!Boot
  PROVE  StatsInv'
<1>1. /\ sclass = "none" /\ sclass' \in Classes /\ sclass' # "none"
      /\ UNCHANGED <<really, took, cur, pre, dev, tot, summed, ifprops, spc>>
  BY DEF Stats!Boot, Stats!StatsAssumption
<1>2. cur = Stats!NoTable /\ pre = Stats!NoTable /\ dev = Stats!NoTable /\ tot = << >> /\ spc.step = "photo"
  BY <1>1 DEF StatsInv, NoneInv
<1>3. PICK S \in SUBSET Names : \E ds \in Stats!SetToSeqs(S) :
        kdevs' = [p \in DOMAIN ds |-> [Stats!Empty EXCEPT !.name = ds[p], !.cnt = MAX32BITVAL - 1,
                                                          !.speed = Stats!Min(Speeds)]]
  <2>1. PICK ds \in UNION {Stats!SetToSeqs(S) : S \in SUBSET Names} :
          kdevs' = [p \in DOMAIN ds |-> [Stats!Empty EXCEPT !.name = ds[p], !.cnt = MAX32BITVAL - 1,
                                                            !.speed = Stats!Min(Speeds)]]
    BY DEF Stats!Boot
  <2>2. PICK S \in SUBSET Names : ds \in Stats!SetToSeqs(S)
    OBVIOUS
  <2> QED
    BY <2>1, <2>2
<1>4. PICK ds \in Stats!SetToSeqs(S) :
        kdevs' = [p \in DOMAIN ds |-> [Stats!Empty EXCEPT !.name = ds[p], !.cnt = MAX32BITVAL - 1,
                                                          !.speed = Stats!Min(Speeds)]]
  BY <1>3
<1>5. PICK n \in Nat : ds \in [1 .. n -> S] /\ \A k, l \in 1 .. n : k # l => ds[k] # ds[l]
  <2>1. IsFiniteSet(S)
    <3>1. IsFiniteSet(Names)
      BY DEF Stats!StatsAssumption, Stats!IsFiniteSet, IsFiniteSet
    <3> QED
      BY <3>1, FS_Subset
  <2>2. Cardinality(S) \in Nat
    BY <2>1, FS_CardinalityType
  <2>3. Stats!Cardinality(S) = Cardinality(S)
    BY DEF Stats!Cardinality, Cardinality
  <2> QED
    BY <2>2, <2>3 DEF Stats!SetToSeqs
<1>6. Stats!Min(Speeds) \in Nat
  BY LeastOf DEF Stats!StatsAssumption
<1> DEFINE E(d) == [Stats!Empty EXCEPT !.name = d, !.cnt = MAX32BITVAL - 1, !.speed = Stats!Min(Speeds)]
<1>7. \A d \in Names : E(d) \in Device /\ E(d).name = d /\ ~E(d).young
  <2>1. ASSUME NEW d
        PROVE  E(d) = [name |-> d, cnt |-> MAX32BITVAL - 1, speed |-> Stats!Min(Speeds),
                       speedp |-> 0, young |-> FALSE]
    <3>1. PICK s : s = Stats!Min(Speeds)
      OBVIOUS
    <3>2. E(d) = [Stats!Empty EXCEPT !.name = d, !.cnt = MAX32BITVAL - 1, !.speed = s]
      BY <3>1
    <3> HIDE DEF E
    <3> QED
      BY <3>1, <3>2 DEF Stats!Empty
  <2>2. MAX32BITVAL - 1 \in 0 .. MAX32BITVAL - 1
    BY DeviceIs
  <2> HIDE DEF E
  <2> QED
    BY <1>6, <2>1, <2>2 DEF Device
<1>8. kdevs' = [p \in 1 .. n |-> E(ds[p])]
  BY <1>4, <1>5
<1> HIDE DEF E
<1>9. kdevs' \in [1 .. n -> Device]
  BY <1>5, <1>7, <1>8
<1>10. kdevs' \in Seq(Device) /\ Len(kdevs') = n
  BY <1>9, FunctionIsSeq
<1>11. Different(kdevs')
  BY <1>5, <1>7, <1>8, <1>10 DEF Different
<1>12. KernelInv'
  BY <1>1, <1>10, <1>11 DEF StatsInv, KernelInv
<1>13. cur.tab = << >> /\ pre.tab = << >>
  BY <1>2 DEF Stats!NoTable
<1>14. TableInv(cur)' /\ TableInv(pre)' /\ NoneInv'
  BY <1>1, <1>13 DEF StatsInv, TableInv, NoneInv
<1>15. Counted(kdevs, cur.tab, really)' /\ Counted(cur.tab, pre.tab, took)'
  BY <1>1, <1>13 DEF Counted
<1>16. Follows(kdevs, cur.tab)' /\ Follows(cur.tab, pre.tab)'
  <2>1. \A k \in DOMAIN kdevs' : ~kdevs'[k].young
    BY <1>5, <1>7, <1>8
  <2>2. cur'.tab = << >> /\ DOMAIN << >> = {} /\ pre'.tab = << >>
    BY <1>1, <1>13
  <2> QED
    BY <2>1, <2>2 DEF Follows
<1>17. NamedInv' /\ Stats!DevicesMatched'
  <2>1. DOMAIN dev.tab = {} /\ DOMAIN tot = {} /\ Len(cur.tab) = 0 /\ cur.n = 0
    BY <1>2, <1>13 DEF Stats!NoTable
  <2>2. MaxTab \in Nat \ {0}
    BY DEF Stats!StatsAssumption
  <2>3. NamedInv' /\ Stats!TotalsUnmixed' /\ Stats!HasTerminator'
    BY <1>1, <2>1, <2>2 DEF NamedInv, Stats!TotalsUnmixed, Stats!HasTerminator
  <2>4. Stats!TrueDeviations'
    BY <1>1, <1>2 DEF Stats!TrueDeviations, Stats!Deviated
  <2> QED
    BY <2>3, <2>4 DEF Stats!DevicesMatched
<1> QED
  BY <1>1, <1>12, <1>14, <1>15, <1>16, <1>17 DEF StatsInv

\* A change in the kernel leaves the tables alone.
LEMMA ChangeInv ==
  ASSUME StatsInv, Stats!Change, kdevs' \in Seq(Device), Different(kdevs'),
         really' \in [Names -> 0 .. MAX32BITVAL - 1], Counted(kdevs', cur.tab, really'),
         sclass = "dsk" => Follows(kdevs', cur.tab)
  PROVE  StatsInv'
<1>1. /\ UNCHANGED <<sclass, took, cur, pre, dev, tot, summed, ifprops>>
      /\ spc' = [spc EXCEPT !.changes = @ + 1] /\ sclass # "none"
  BY DEF Stats!Change
<1>2. spc \in [samples : Nat, changes : Nat, step : {"photo", "dev", "tot"}]
  BY DEF StatsInv, KernelInv
<1>3. spc' \in [samples : Nat, changes : Nat, step : {"photo", "dev", "tot"}] /\ spc'.step = spc.step
  BY <1>1, <1>2
<1>4. KernelInv'
  BY <1>1, <1>3 DEF StatsInv, KernelInv
<1>5. TableInv(cur)' /\ TableInv(pre)' /\ NoneInv' /\ NamedInv'
  BY <1>1, <1>3 DEF StatsInv, TableInv, NoneInv, NamedInv
<1>6. /\ Counted(kdevs, cur.tab, really)' /\ Counted(cur.tab, pre.tab, took)'
      /\ (sclass = "dsk" => Follows(kdevs, cur.tab) /\ Follows(cur.tab, pre.tab))'
  BY <1>1 DEF StatsInv
<1>7. Stats!DevicesMatched'
  <2>1. Stats!TrueDeviations'
    <3>1. Stats!TrueDeviations
      BY DEF StatsInv, Stats!DevicesMatched
    <3>2. /\ Stats!Deviated' <=> Stats!Deviated
          /\ dev' = dev /\ pre' = pre /\ cur' = cur /\ took' = took /\ sclass' = sclass
      BY <1>1, <1>3 DEF Stats!Deviated
    <3>3. \A i : /\ Stats!Truly(i)' = Stats!Truly(i) /\ (Stats!Recreated(i)' <=> Stats!Recreated(i))
                 /\ Stats!At(pre.tab, i)' = Stats!At(pre.tab, i)
      BY <3>2 DEF Stats!Truly, Stats!Recreated, Stats!NamesIn, Stats!At
    <3> QED
      BY <3>1, <3>2, <3>3 DEF Stats!TrueDeviations
  <2>2. Stats!HasTerminator' /\ Stats!TotalsUnmixed'
    BY <1>1 DEF StatsInv, Stats!DevicesMatched, Stats!HasTerminator, Stats!TotalsUnmixed
  <2> QED
    BY <2>1, <2>2 DEF Stats!DevicesMatched
<1> QED
  BY <1>1, <1>4, <1>5, <1>6, <1>7 DEF StatsInv

\* The entry of a new device.
LEMMA NewEntry ==
  ASSUME NEW d, NEW s, NEW e, e = [Stats!Empty EXCEPT !.name = d, !.speed = s, !.young = TRUE]
  PROVE  e = [name |-> d, cnt |-> 0, speed |-> s, speedp |-> 0, young |-> TRUE]
BY DEF Stats!Empty

\* A new device comes.
LEMMA PlugInv ==
  ASSUME Stats!StatsAssumption, DisksComeLast, StatsInv, Stats!Plug
  PROVE  StatsInv'
<1>1. PICK d \in Names \ Stats!NamesIn(kdevs), p \in 1 .. Len(kdevs) + 1, s \in Speeds :
        /\ Anywhere \/ sclass = "intf" \/ p = Len(kdevs) + 1
        /\ kdevs' = Stats!InsertAt(kdevs, p, [Stats!Empty EXCEPT !.name = d, !.speed = s, !.young = TRUE])
        /\ really' = [really EXCEPT ![d] = 0]
  BY DEF Stats!Plug
<1>2. kdevs \in Seq(Device) /\ Different(kdevs) /\ really \in [Names -> 0 .. MAX32BITVAL - 1]
  BY DEF StatsInv, KernelInv
<1>0. PICK e : e = [Stats!Empty EXCEPT !.name = d, !.speed = s, !.young = TRUE]
  OBVIOUS
<1>3. e \in Device /\ e.name = d /\ e.young
  <2>1. e = [name |-> d, cnt |-> 0, speed |-> s, speedp |-> 0, young |-> TRUE]
    BY <1>0, NewEntry
  <2>2. s \in Nat /\ 0 \in 0 .. MAX32BITVAL - 1
    BY DeviceIs DEF Stats!StatsAssumption
  <2> QED
    BY <2>1, <2>2 DEF Device
<1>4. /\ kdevs' \in Seq(Device) /\ Len(kdevs') = Len(kdevs) + 1
      /\ \A k \in 1 .. Len(kdevs) + 1 :
           kdevs'[k] = IF k < p THEN kdevs[k] ELSE IF k = p THEN e ELSE kdevs[k - 1]
  <2>1. kdevs' = Stats!InsertAt(kdevs, p, e)
    BY <1>0, <1>1
  <2> QED
    <3>1. /\ Stats!InsertAt(kdevs, p, e) \in Seq(Device)
          /\ Len(Stats!InsertAt(kdevs, p, e)) = Len(kdevs) + 1
          /\ \A k \in 1 .. Len(kdevs) + 1 :
               Stats!InsertAt(kdevs, p, e)[k] = IF k < p THEN kdevs[k] ELSE IF k = p THEN e ELSE kdevs[k - 1]
      BY <1>2, <1>3, InsertAtIs, SMTT(60)
    <3> QED
      BY <2>1, <3>1
<1>5. DOMAIN kdevs = 1 .. Len(kdevs) /\ DOMAIN kdevs' = 1 .. Len(kdevs) + 1 /\ Len(kdevs) \in Nat
  BY <1>2, <1>4
<1> DEFINE O(k) == IF k < p THEN k ELSE k - 1
<1>6. ASSUME NEW k \in DOMAIN kdevs', k # p
      PROVE  O(k) \in DOMAIN kdevs /\ kdevs'[k] = kdevs[O(k)]
  BY <1>4, <1>5, <1>6
<1>7. kdevs'[p] = e /\ p \in DOMAIN kdevs'
  BY <1>4, <1>5
<1>8. \A k \in DOMAIN kdevs : kdevs[k].name # d /\ kdevs[k].name \in Names
  BY <1>2, DeviceIs DEF Stats!NamesIn
<1>9. ASSUME NEW k \in DOMAIN kdevs', NEW l \in DOMAIN kdevs', kdevs'[k].name = kdevs'[l].name
      PROVE  k = l
  <2>1. CASE k = p \/ l = p
    BY <1>3, <1>6, <1>7, <1>8, <1>9, <2>1
  <2>2. CASE k # p /\ l # p
    <3>1. O(k) = O(l)
      BY <1>2, <1>6, <1>8, <1>9, <2>2 DEF Different
    <3> QED
      BY <1>5, <2>2, <3>1
  <2> QED
    BY <2>1, <2>2
<1>10. Different(kdevs')
  BY <1>9 DEF Different
<1>11. really' \in [Names -> 0 .. MAX32BITVAL - 1] /\ \A x \in Names : x # d => really'[x] = really[x]
  <2>1. 0 \in 0 .. MAX32BITVAL - 1
    BY DeviceIs
  <2> QED
    BY <1>1, <1>2, <2>1
<1>12. Counted(kdevs', cur.tab, really')
  <2>1. SUFFICES ASSUME NEW k \in DOMAIN kdevs', NEW b \in DOMAIN cur.tab, kdevs'[k].name \in Names,
                        kdevs'[k].name = cur.tab[b].name, ~kdevs'[k].young
                 PROVE  kdevs'[k].cnt = (cur.tab[b].cnt + really'[kdevs'[k].name]) % MAX32BITVAL
    BY DEF Counted
  <2>2. O(k) \in DOMAIN kdevs /\ kdevs'[k] = kdevs[O(k)] /\ kdevs'[k].name # d
    BY <1>3, <1>6, <1>7, <1>8, <2>1
  <2>3. Counted(kdevs, cur.tab, really)
    BY DEF StatsInv
  <2>4. kdevs[O(k)].cnt = (cur.tab[b].cnt + really[kdevs[O(k)].name]) % MAX32BITVAL
    BY <2>1, <2>2, <2>3 DEF Counted
  <2> QED
    BY <1>11, <2>1, <2>2, <2>4
<1>13. ASSUME sclass = "dsk" PROVE Follows(kdevs', cur.tab)
  <2>1. p = Len(kdevs) + 1
    BY <1>1, <1>13 DEF StatsInv, KernelInv, DisksComeLast
  <2>2. \A k \in DOMAIN kdevs' : ~kdevs'[k].young => k \in DOMAIN kdevs
    BY <1>3, <1>5, <1>7, <2>1
  <2>3. \A k \in DOMAIN kdevs : kdevs'[k] = kdevs[k]
    BY <1>4, <1>5, <2>1
  <2>4. Follows(kdevs, cur.tab)
    BY <1>13 DEF StatsInv
  <2>5. ASSUME NEW k \in DOMAIN kdevs', NEW l \in DOMAIN kdevs', k < l, ~kdevs'[l].young
        PROVE  /\ ~kdevs'[k].young
               /\ \A b \in DOMAIN cur.tab : cur.tab[b].name = kdevs'[l].name =>
                    \E a \in DOMAIN cur.tab : a < b /\ cur.tab[a].name = kdevs'[k].name
    <3>1. l \in DOMAIN kdevs /\ k \in DOMAIN kdevs
      BY <1>5, <2>2, <2>5
    <3>2. kdevs'[l] = kdevs[l] /\ kdevs'[k] = kdevs[k]
      BY <2>3, <3>1
    <3> QED
      BY <2>4, <2>5, <3>1, <3>2 DEF Follows
  <2> QED
    BY <2>5 DEF Follows
<1>14. Stats!Change
  BY DEF Stats!Plug
<1> QED
  BY <1>4, <1>10, <1>11, <1>12, <1>13, <1>14, ChangeInv

\* A device goes.
LEMMA UnplugInv ==
  ASSUME Stats!StatsAssumption, StatsInv, Stats!Unplug
  PROVE  StatsInv'
<1>1. PICK p \in DOMAIN kdevs : kdevs' = Stats!RemoveAt(kdevs, p)
  BY DEF Stats!Unplug
<1>2. /\ kdevs \in Seq(Device) /\ Different(kdevs) /\ really \in [Names -> 0 .. MAX32BITVAL - 1]
      /\ Stats!Change /\ really' = really
  BY DEF StatsInv, KernelInv, Stats!Unplug
<1>4. /\ kdevs' \in Seq(Device) /\ Len(kdevs') = Len(kdevs) - 1
      /\ \A k \in 1 .. Len(kdevs) - 1 : kdevs'[k] = IF k < p THEN kdevs[k] ELSE kdevs[k + 1]
  BY <1>1, <1>2, RemoveAtIs
<1>5. DOMAIN kdevs = 1 .. Len(kdevs) /\ DOMAIN kdevs' = 1 .. Len(kdevs) - 1 /\ Len(kdevs) \in Nat
  BY <1>2, <1>4
<1> DEFINE O(k) == IF k < p THEN k ELSE k + 1
<1>6. ASSUME NEW k \in DOMAIN kdevs'
      PROVE  O(k) \in DOMAIN kdevs /\ kdevs'[k] = kdevs[O(k)]
  BY <1>4, <1>5
<1>7. \A k, l \in DOMAIN kdevs' : /\ O(k) = O(l) => k = l
                                  /\ k < l => O(k) < O(l)
  BY <1>5
<1> HIDE DEF O
<1>8. Different(kdevs')
  BY <1>2, <1>6, <1>7 DEF Different
<1>9. Counted(kdevs', cur.tab, really')
  <2>1. Counted(kdevs, cur.tab, really)
    BY DEF StatsInv
  <2> QED
    BY <1>2, <1>6, <2>1 DEF Counted
<1>10. ASSUME sclass = "dsk" PROVE Follows(kdevs', cur.tab)
  <2>4. Follows(kdevs, cur.tab)
    BY <1>10 DEF StatsInv
  <2>5. ASSUME NEW k \in DOMAIN kdevs', NEW l \in DOMAIN kdevs', k < l, ~kdevs'[l].young
        PROVE  /\ ~kdevs'[k].young
               /\ \A b \in DOMAIN cur.tab : cur.tab[b].name = kdevs'[l].name =>
                    \E a \in DOMAIN cur.tab : a < b /\ cur.tab[a].name = kdevs'[k].name
    <3>1. O(k) \in DOMAIN kdevs /\ O(l) \in DOMAIN kdevs /\ O(k) < O(l)
      BY <1>6, <1>7, <2>5
    <3>2. kdevs'[l] = kdevs[O(l)] /\ kdevs'[k] = kdevs[O(k)]
      BY <1>6
    <3> QED
      BY <2>4, <2>5, <3>1, <3>2 DEF Follows
  <2> QED
    BY <2>5 DEF Follows
<1> QED
  BY <1>2, <1>4, <1>8, <1>9, <1>10, ChangeInv

\* The devices stay where they are.
LEMMA SameDevicesInv ==
  ASSUME StatsInv, Stats!Change, kdevs' \in Seq(Device), DOMAIN kdevs' = DOMAIN kdevs,
         \A k \in DOMAIN kdevs : kdevs'[k].name = kdevs[k].name /\ kdevs'[k].young = kdevs[k].young,
         really' \in [Names -> 0 .. MAX32BITVAL - 1], Counted(kdevs', cur.tab, really')
  PROVE  StatsInv'
<1>1. Different(kdevs')
  BY DEF Different, StatsInv, KernelInv
<1>2. sclass = "dsk" => Follows(kdevs', cur.tab)
  BY DEF Follows, StatsInv
<1> QED
  BY <1>1, <1>2, ChangeInv

\* A device counts.
LEMMA CountInv ==
  ASSUME Stats!StatsAssumption, StatsInv, Stats!Count
  PROVE  StatsInv'
<1>1. PICK p \in DOMAIN kdevs :
        /\ really[kdevs[p].name] < MAX32BITVAL - 1
        /\ kdevs' = [kdevs EXCEPT ![p].cnt = (@ + 1) % MAX32BITVAL]
        /\ really' = [really EXCEPT ![kdevs[p].name] = @ + 1]
  BY DEF Stats!Count
<1>2. /\ kdevs \in Seq(Device) /\ Different(kdevs) /\ really \in [Names -> 0 .. MAX32BITVAL - 1]
      /\ Stats!Change /\ MAX32BITVAL \in Nat \ {0}
  BY DeviceIs DEF StatsInv, KernelInv, Stats!Count
<1>3. kdevs[p] \in Device /\ kdevs[p].name \in Names /\ kdevs[p].cnt \in 0 .. MAX32BITVAL - 1
  <2>1. kdevs[p] \in Device
    BY <1>2
  <2> QED
    BY <2>1, DeviceIs
<1>4. (kdevs[p].cnt + 1) % MAX32BITVAL \in 0 .. MAX32BITVAL - 1
  <2>1. 0 \in 0 .. MAX32BITVAL - 1 /\ really[kdevs[p].name] \in Nat
    BY <1>2, <1>3
  <2> QED
    BY <1>1, <1>2, <1>3, <2>1, CountsOn
<1> DEFINE c == (kdevs[p].cnt + 1) % MAX32BITVAL
           e == [kdevs[p] EXCEPT !.cnt = c]
<1>5. kdevs' = [kdevs EXCEPT ![p] = e]
  BY <1>1
<1> HIDE DEF c
<1>6. e \in Device /\ e.name = kdevs[p].name /\ e.young = kdevs[p].young /\ e.cnt = c
  BY <1>3, <1>4 DEF Device, c
<1> HIDE DEF e
<1>7. /\ kdevs' \in Seq(Device) /\ DOMAIN kdevs' = DOMAIN kdevs
      /\ \A k \in DOMAIN kdevs : kdevs'[k] = IF k = p THEN e ELSE kdevs[k]
  BY <1>2, <1>5, <1>6
<1>8. \A k \in DOMAIN kdevs : kdevs'[k].name = kdevs[k].name /\ kdevs'[k].young = kdevs[k].young
  BY <1>6, <1>7
<1>9. /\ really' \in [Names -> 0 .. MAX32BITVAL - 1] /\ really'[kdevs[p].name] = really[kdevs[p].name] + 1
      /\ \A d \in Names : d # kdevs[p].name => really'[d] = really[d]
  BY <1>1, <1>2, <1>3
<1>10. Counted(kdevs', cur.tab, really')
  <2>1. SUFFICES ASSUME NEW k \in DOMAIN kdevs', NEW b \in DOMAIN cur.tab, kdevs'[k].name \in Names,
                        kdevs'[k].name = cur.tab[b].name, ~kdevs'[k].young
                 PROVE  kdevs'[k].cnt = (cur.tab[b].cnt + really'[kdevs'[k].name]) % MAX32BITVAL
    BY DEF Counted
  <2>2. k \in DOMAIN kdevs /\ kdevs'[k].name = kdevs[k].name /\ ~kdevs[k].young
    BY <1>7, <1>8, <2>1
  <2>3. Counted(kdevs, cur.tab, really)
    BY DEF StatsInv
  <2>4. kdevs[k].cnt = (cur.tab[b].cnt + really[kdevs[k].name]) % MAX32BITVAL
    BY <2>1, <2>2, <2>3 DEF Counted
  <2>5. CASE k # p
    <3>1. kdevs[k].name # kdevs[p].name
      BY <1>2, <1>3, <2>2, <2>5 DEF Different
    <3> QED
      BY <1>7, <1>9, <2>1, <2>2, <2>4, <2>5, <3>1
  <2>6. CASE k = p
    <3>1. cur.tab[b].cnt \in 0 .. MAX32BITVAL - 1
      <4>1. cur.tab \in Seq(Device \cup Unused)
        BY DEF StatsInv, TableInv
      <4>2. cur.tab[b] \in Device \cup Unused
        BY <4>1
      <4> QED
        BY <1>2, <4>2, DeviceIs DEF Unused
    <3>2. PICK a \in 0 .. MAX32BITVAL - 1 : a = cur.tab[b].cnt
      BY <3>1
    <3>3. PICK r \in Nat : r = really[kdevs[p].name] /\ r < MAX32BITVAL - 1
      BY <1>1, <1>2, <1>3
    <3>4. kdevs[p].cnt = (a + r) % MAX32BITVAL
      BY <2>4, <2>6, <3>2, <3>3
    <3>5. kdevs'[k].cnt = (((a + r) % MAX32BITVAL) + 1) % MAX32BITVAL
      BY <1>6, <1>7, <2>6, <3>4 DEF c
    <3>6. kdevs'[k].cnt = (a + (r + 1)) % MAX32BITVAL
      BY <1>2, <3>3, <3>5, CountsOn
    <3>7. really'[kdevs'[k].name] = r + 1
      BY <1>9, <2>2, <2>6, <3>3
    <3> QED
      BY <3>2, <3>6, <3>7
  <2> QED
    BY <2>5, <2>6
<1> QED
  BY <1>2, <1>7, <1>8, <1>9, <1>10, SameDevicesInv

\* The speed of an interface changes.
LEMMA SetSpeedInv ==
  ASSUME Stats!StatsAssumption, StatsInv, Stats!SetSpeed
  PROVE  StatsInv'
<1>1. PICK p \in DOMAIN kdevs, s \in Speeds : kdevs' = [kdevs EXCEPT ![p].speed = s]
  BY DEF Stats!SetSpeed
<1>2. /\ kdevs \in Seq(Device) /\ really \in [Names -> 0 .. MAX32BITVAL - 1]
      /\ Stats!Change /\ really' = really /\ s \in Nat
  BY DEF StatsInv, KernelInv, Stats!SetSpeed, Stats!StatsAssumption
<1> DEFINE e == [kdevs[p] EXCEPT !.speed = s]
<1>3. kdevs' = [kdevs EXCEPT ![p] = e]
  BY <1>1
<1>4. kdevs[p] \in Device
  BY <1>2
<1>5. e \in Device /\ e.name = kdevs[p].name /\ e.young = kdevs[p].young /\ e.cnt = kdevs[p].cnt
  BY <1>2, <1>4 DEF Device
<1> HIDE DEF e
<1>6. /\ kdevs' \in Seq(Device) /\ DOMAIN kdevs' = DOMAIN kdevs
      /\ \A k \in DOMAIN kdevs : kdevs'[k] = IF k = p THEN e ELSE kdevs[k]
  BY <1>2, <1>3, <1>5
<1>7. \A k \in DOMAIN kdevs : /\ kdevs'[k].name = kdevs[k].name /\ kdevs'[k].young = kdevs[k].young
                              /\ kdevs'[k].cnt = kdevs[k].cnt
  BY <1>5, <1>6
<1>8. Counted(kdevs', cur.tab, really')
  <2>1. Counted(kdevs, cur.tab, really)
    BY DEF StatsInv
  <2> QED
    BY <1>2, <1>6, <1>7, <2>1 DEF Counted
<1> QED
  BY <1>2, <1>6, <1>7, <1>8, SameDevicesInv

\* The table that photosyst makes.
Photo ==
  CASE sclass = "intf" -> Stats!photointf
    [] sclass = "dsk" -> Stats!photodsk
    [] sclass = "nfs" -> Stats!photonfs
    [] sclass = "cont" -> Stats!photocont
    [] sclass = "cpu" -> Stats!photocpu

\* It holds devices of the kernel's list, each once, and a table that ends
\* with an empty name has room for it.
LEMMA PhotoIs ==
  ASSUME Stats!StatsAssumption, KernelInv, sclass \in Classes, NEW t, t = Photo
  PROVE  /\ t \in [tab : Seq(Device \cup Unused), n : Nat]
         /\ sclass # "cpu" => /\ t.tab \in Seq(Device)
                              /\ \A i \in DOMAIN t.tab : i \in DOMAIN kdevs /\ t.tab[i] = kdevs[i]
         /\ \A i \in DOMAIN t.tab : t.tab[i].name \in Names => \E k \in DOMAIN kdevs : t.tab[i] = kdevs[k]
         /\ Different(t.tab)
         /\ sclass \in {"intf", "dsk", "nfs"} => t.n < MaxTab /\ Len(t.tab) = t.n
<1>1. /\ kdevs \in Seq(Device) /\ Different(kdevs) /\ Len(kdevs) \in Nat /\ DOMAIN kdevs = 1 .. Len(kdevs)
      /\ MaxTab \in Nat \ {0} /\ sclass \in {"intf", "dsk", "nfs", "cont", "cpu"}
      /\ \A k \in DOMAIN kdevs : kdevs[k] \in Device
  BY DEF KernelInv, Stats!StatsAssumption
<1>2. \A s : s \in Seq(Device) => s \in Seq(Device \cup Unused)
  OBVIOUS
<1>3. CASE sclass # "cpu"
  <2> DEFINE m == IF sclass = "cont" THEN MaxTab ELSE MaxTab - 1
  <2>1. m \in Nat /\ (sclass # "cont" => m < MaxTab)
    BY <1>1
  <2>2. PICK s : s = Stats!Prefix(kdevs, m)
    OBVIOUS
  <2>3. /\ s \in Seq(Device) /\ Len(s) = IF Len(kdevs) <= m THEN Len(kdevs) ELSE m
        /\ \A k \in DOMAIN s : k \in DOMAIN kdevs /\ s[k] = kdevs[k]
    BY <1>1, <2>1, <2>2, PrefixIs
  <2>4. \E n \in Nat : t = [tab |-> s, n |-> n] /\ (sclass # "cont" => n = Len(s))
    <3>1. CASE sclass = "cont"
      <4>1. PICK n : n = Stats!Min({Len(kdevs), MaxTab + 1})
        OBVIOUS
      <4>2. n \in Nat
        <5>1. MaxTab + 1 \in Nat
          BY <1>1
        <5>2. n = IF Len(kdevs) <= MaxTab + 1 THEN Len(kdevs) ELSE MaxTab + 1
          BY <1>1, <4>1, <5>1, LeastOfTwo
        <5> QED
          BY <1>1, <5>1, <5>2
      <4>3. t = [tab |-> s, n |-> n]
        BY <2>2, <3>1, <4>1 DEF Photo, Stats!photocont
      <4> QED
        BY <3>1, <4>2, <4>3
    <3>2. CASE sclass # "cont"
      <4>1. PICK n : n = Stats!Min({Len(kdevs), MaxTab - 1})
        OBVIOUS
      <4>2. n = Len(s)
        <5>1. n = IF Len(kdevs) <= MaxTab - 1 THEN Len(kdevs) ELSE MaxTab - 1
          BY <1>1, <2>1, <3>2, <4>1, LeastOfTwo
        <5> QED
          BY <2>3, <3>2, <5>1
      <4>3. t = [tab |-> s, n |-> n]
        BY <1>1, <1>3, <2>2, <3>2, <4>1
        DEF Photo, Stats!photointf, Stats!photodsk, Stats!photonfs, Stats!Terminated
      <4>4. Len(s) \in Nat
        BY <2>3
      <4> QED
        BY <3>2, <4>2, <4>3, <4>4
    <3> QED
      BY <3>1, <3>2
  <2>8. PICK n \in Nat : t = [tab |-> s, n |-> n] /\ (sclass # "cont" => n = Len(s))
    BY <2>4
  <2>9. t.tab = s /\ t.n = n
    BY ONLY <2>8
  <2>5. t \in [tab : Seq(Device \cup Unused), n : Nat]
    <3>1. s \in Seq(Device \cup Unused)
      BY <1>2, <2>3
    <3>2. n \in Nat
      OBVIOUS
    <3> QED
      BY ONLY <2>8, <3>1, <3>2
  <2>6. Different(t.tab)
    BY <1>1, <2>3, <2>9 DEF Different
  <2>7. sclass \in {"intf", "dsk", "nfs"} => t.n < MaxTab /\ Len(t.tab) = t.n
    BY <1>1, <2>1, <2>3, <2>8, <2>9
  <2> QED
    BY <1>3, <2>3, <2>5, <2>6, <2>7, <2>9
<1>4. CASE sclass = "cpu"
  <2> DEFINE On(i) == {p \in DOMAIN kdevs : kdevs[p].name = i - 1}
             s == [i \in 1 .. MaxTab |-> IF On(i) = {} THEN Stats!Empty ELSE kdevs[Stats!Min(On(i))]]
  <2>1. PICK n : n = IF kdevs = << >> THEN 1 ELSE Len(kdevs)
    OBVIOUS
  <2>2. t = [tab |-> s, n |-> n] /\ n \in Nat
    BY <1>1, <1>4, <2>1 DEF Photo, Stats!photocpu
  <2>3. ASSUME NEW i \in 1 .. MaxTab
        PROVE  /\ On(i) = {} => s[i] = Stats!Empty
               /\ On(i) # {} => \E k \in DOMAIN kdevs : s[i] = kdevs[k] /\ kdevs[k].name = i - 1
    <3>1. CASE On(i) = {}
      BY <3>1
    <3>2. CASE On(i) # {}
      <4>1. On(i) \in SUBSET Nat
        BY <1>1
      <4>2. Stats!Min(On(i)) \in On(i)
        BY <3>2, <4>1, LeastOf
      <4> QED
        BY <3>2, <4>2
    <3> QED
      BY <3>1, <3>2
  <2> HIDE DEF s
  <2>4. s \in [1 .. MaxTab -> Device \cup Unused]
    <3>1. DOMAIN s = 1 .. MaxTab /\ s = [i \in 1 .. MaxTab |-> s[i]]
      BY DEF s
    <3>2. \A i \in 1 .. MaxTab : s[i] \in Device \cup Unused
      BY <1>1, <2>3 DEF Unused
    <3> QED
      BY <3>1, <3>2
  <2>5. s \in Seq(Device \cup Unused) /\ Len(s) = MaxTab
    BY <1>1, <2>4, FunctionIsSeq
  <2>6. DOMAIN s = 1 .. MaxTab
    BY <2>4
  <2>7. ASSUME NEW i \in DOMAIN s, s[i].name \in Names
        PROVE  s[i].name = i - 1 /\ \E k \in DOMAIN kdevs : s[i] = kdevs[k]
    <3>1. s[i] # Stats!Empty
      BY <2>7, DeviceIs
    <3> QED
      BY <2>3, <2>6, <2>7, <3>1
  <2>8. Different(s)
    <3>1. SUFFICES ASSUME NEW i \in DOMAIN s, NEW j \in DOMAIN s, s[i].name \in Names, s[i].name = s[j].name
                   PROVE  i = j
      BY DEF Different
    <3>2. i - 1 = j - 1 /\ i \in Nat /\ j \in Nat
      BY <1>1, <2>6, <2>7, <3>1
    <3> QED
      BY <3>2
  <2>9. t.tab = s /\ t \in [tab : Seq(Device \cup Unused), n : Nat]
    <3>1. PICK u : u = s
      OBVIOUS
    <3>2. t = [tab |-> u, n |-> n] /\ n \in Nat /\ u \in Seq(Device \cup Unused)
      BY <2>2, <2>5, <3>1
    <3>3. t.tab = u /\ t \in [tab : Seq(Device \cup Unused), n : Nat]
      BY ONLY <3>2
    <3> QED
      BY <3>1, <3>3
  <2> QED
    BY <1>4, <2>7, <2>8, <2>9
<1> QED
  BY <1>3, <1>4

\* photosyst takes a sample.
LEMMA PhotoInv ==
  ASSUME Stats!StatsAssumption, StatsInv, Stats!photosyst
  PROVE  StatsInv'
<1>1. /\ sclass # "none" /\ pre' = cur /\ took' = really /\ really' = [d \in Names |-> 0]
      /\ kdevs' = [p \in DOMAIN kdevs |-> [kdevs[p] EXCEPT !.young = FALSE]]
      /\ spc' = [spc EXCEPT !.samples = @ + 1, !.step = "dev"]
      /\ UNCHANGED <<sclass, dev, tot, summed, ifprops>>
  BY DEF Stats!photosyst
<1>2. /\ KernelInv /\ kdevs \in Seq(Device) /\ Different(kdevs) /\ really \in [Names -> 0 .. MAX32BITVAL - 1]
      /\ sclass \in Classes /\ MAX32BITVAL \in Nat \ {0} /\ Counted(kdevs, cur.tab, really)
      /\ spc \in [samples : Nat, changes : Nat, step : {"photo", "dev", "tot"}]
  BY <1>1, DeviceIs DEF StatsInv, KernelInv
<1>3. /\ cur' \in [tab : Seq(Device \cup Unused), n : Nat]
      /\ sclass # "cpu" => /\ cur'.tab \in Seq(Device)
                           /\ \A i \in DOMAIN cur'.tab : i \in DOMAIN kdevs /\ cur'.tab[i] = kdevs[i]
      /\ \A i \in DOMAIN cur'.tab : cur'.tab[i].name \in Names => \E k \in DOMAIN kdevs : cur'.tab[i] = kdevs[k]
      /\ Different(cur'.tab)
      /\ sclass \in {"intf", "dsk", "nfs"} => cur'.n < MaxTab /\ Len(cur'.tab) = cur'.n
  <2>1. PICK t : t = cur'
    OBVIOUS
  <2>2. t = Photo
    BY <2>1 DEF Stats!photosyst, Photo
  <2>3. /\ t \in [tab : Seq(Device \cup Unused), n : Nat]
        /\ sclass # "cpu" => /\ t.tab \in Seq(Device)
                             /\ \A i \in DOMAIN t.tab : i \in DOMAIN kdevs /\ t.tab[i] = kdevs[i]
        /\ \A i \in DOMAIN t.tab : t.tab[i].name \in Names => \E k \in DOMAIN kdevs : t.tab[i] = kdevs[k]
        /\ Different(t.tab)
        /\ sclass \in {"intf", "dsk", "nfs"} => t.n < MaxTab /\ Len(t.tab) = t.n
    BY <1>2, <2>2, PhotoIs
  <2> QED
    BY <2>1, <2>3, Zenon
<1> DEFINE E(p) == [kdevs[p] EXCEPT !.young = FALSE]
<1>4. ASSUME NEW p \in DOMAIN kdevs
      PROVE  E(p) \in Device /\ E(p).name = kdevs[p].name /\ E(p).cnt = kdevs[p].cnt /\ ~E(p).young
  <2>1. kdevs[p] \in Device
    BY <1>2
  <2> QED
    BY <2>1 DEF Device
<1>5. DOMAIN kdevs' = DOMAIN kdevs /\ \A p \in DOMAIN kdevs : kdevs'[p] = E(p)
  BY <1>1
<1>6. kdevs' \in Seq(Device)
  <2>1. DOMAIN kdevs = 1 .. Len(kdevs) /\ Len(kdevs) \in Nat /\ kdevs' = [p \in 1 .. Len(kdevs) |-> E(p)]
    BY <1>1, <1>2
  <2> HIDE DEF E
  <2>2. kdevs' \in [1 .. Len(kdevs) -> Device]
    BY <1>4, <2>1
  <2> QED
    BY <2>1, <2>2, FunctionIsSeq
<1> HIDE DEF E
<1>7. \A p \in DOMAIN kdevs' : /\ p \in DOMAIN kdevs /\ kdevs'[p].name = kdevs[p].name
                               /\ kdevs'[p].cnt = kdevs[p].cnt /\ ~kdevs'[p].young
  BY <1>4, <1>5
<1>8. Different(kdevs')
  BY <1>2, <1>5, <1>7 DEF Different
<1>9. spc' \in [samples : Nat, changes : Nat, step : {"photo", "dev", "tot"}] /\ spc'.step = "dev"
  <2>1. PICK n \in Nat : n = spc.samples + 1
    BY <1>2
  <2>2. spc' = [spc EXCEPT !.samples = n, !.step = "dev"]
    BY <1>1, <2>1
  <2> QED
    BY <1>2, <2>2
<1>10. KernelInv'
  <2>1. really' \in [Names -> 0 .. MAX32BITVAL - 1]
    <3>1. 0 \in 0 .. MAX32BITVAL - 1
      BY <1>2
    <3> QED
      BY <1>1, <3>1
  <2> QED
    BY <1>1, <1>2, <1>6, <1>8, <1>9, <2>1 DEF KernelInv
<1>11. TableInv(cur)' /\ TableInv(pre)' /\ NoneInv' /\ NamedInv'
  <2>1. TableInv(pre)'
    BY <1>1 DEF StatsInv, TableInv
  <2>2. TableInv(cur)'
    BY <1>1, <1>3 DEF TableInv
  <2>3. NoneInv' /\ NamedInv'
    BY <1>1 DEF StatsInv, NoneInv, NamedInv
  <2> QED
    BY <2>1, <2>2, <2>3
<1>12. \A k \in DOMAIN kdevs : kdevs[k].name \in Names /\ kdevs[k].cnt \in 0 .. MAX32BITVAL - 1
  BY <1>2, DeviceIs
<1>13. Counted(kdevs', cur'.tab, really')
  <2>1. SUFFICES ASSUME NEW k \in DOMAIN kdevs', NEW b \in DOMAIN cur'.tab, kdevs'[k].name \in Names,
                        kdevs'[k].name = cur'.tab[b].name
                 PROVE  kdevs'[k].cnt = (cur'.tab[b].cnt + really'[kdevs'[k].name]) % MAX32BITVAL
    BY DEF Counted
  <2>2. PICK l \in DOMAIN kdevs : cur'.tab[b] = kdevs[l]
    BY <1>3, <2>1
  <2>3. l = k
    BY <1>2, <1>7, <2>1, <2>2 DEF Different
  <2>4. PICK c \in 0 .. MAX32BITVAL - 1 : c = kdevs[k].cnt
    BY <1>7, <1>12
  <2>5. cur'.tab[b].cnt = c /\ kdevs'[k].cnt = c /\ really'[kdevs'[k].name] = 0
    BY <1>1, <1>7, <2>1, <2>2, <2>3, <2>4
  <2>6. c % MAX32BITVAL = c
    BY <1>2
  <2>7. (c + 0) % MAX32BITVAL = c
    BY <2>6
  <2> QED
    BY <2>5, <2>7
<1>14. Counted(cur'.tab, pre'.tab, took')
  <2>1. SUFFICES ASSUME NEW k \in DOMAIN cur'.tab, NEW b \in DOMAIN cur.tab, cur'.tab[k].name \in Names,
                        cur'.tab[k].name = cur.tab[b].name, ~cur'.tab[k].young
                 PROVE  cur'.tab[k].cnt = (cur.tab[b].cnt + really[cur'.tab[k].name]) % MAX32BITVAL
    BY <1>1 DEF Counted
  <2>2. PICK l \in DOMAIN kdevs : cur'.tab[k] = kdevs[l]
    BY <1>3, <2>1
  <2> QED
    BY <1>2, <2>1, <2>2 DEF Counted
<1>15. ASSUME sclass = "dsk" PROVE Follows(kdevs', cur'.tab) /\ Follows(cur'.tab, pre'.tab)
  <2>1. cur'.tab \in Seq(Device) /\ \A i \in DOMAIN cur'.tab : i \in DOMAIN kdevs /\ cur'.tab[i] = kdevs[i]
    BY <1>3, <1>15
  <2>2. Follows(cur'.tab, pre'.tab)
    <3>1. Follows(kdevs, cur.tab)
      BY <1>15 DEF StatsInv
    <3> QED
      BY <1>1, <2>1, <3>1 DEF Follows
  <2>3. ASSUME NEW i \in DOMAIN kdevs', NEW k \in DOMAIN kdevs', i < k, NEW b \in DOMAIN cur'.tab,
               cur'.tab[b].name = kdevs'[k].name
        PROVE  \E a \in DOMAIN cur'.tab : a < b /\ cur'.tab[a].name = kdevs'[i].name
    <3>1. b = k
      BY <1>2, <1>7, <1>12, <2>1, <2>3 DEF Different
    <3>2. i \in DOMAIN cur'.tab
      <4>1. /\ DOMAIN cur'.tab = 1 .. Len(cur'.tab) /\ Len(cur'.tab) \in Nat
            /\ DOMAIN kdevs' = 1 .. Len(kdevs') /\ Len(kdevs') \in Nat
        BY <1>6, <2>1
      <4> QED
        BY <2>3, <3>1, <4>1
    <3>3. cur'.tab[i].name = kdevs'[i].name
      BY <1>7, <2>1, <3>2
    <3> QED
      BY <2>3, <3>1, <3>2, <3>3
  <2>4. Follows(kdevs', cur'.tab)
    BY <1>7, <2>3 DEF Follows
  <2> QED
    BY <2>2, <2>4
<1>16. Stats!DevicesMatched'
  <2>1. Stats!TrueDeviations'
    BY <1>9 DEF Stats!TrueDeviations, Stats!Deviated
  <2>2. Stats!HasTerminator'
    BY <1>1, <1>3 DEF Stats!HasTerminator
  <2>3. Stats!TotalsUnmixed'
    BY <1>1 DEF StatsInv, Stats!DevicesMatched, Stats!TotalsUnmixed
  <2> QED
    BY <2>1, <2>2, <2>3 DEF Stats!DevicesMatched
<1>17. (sclass = "dsk" => Follows(kdevs, cur.tab) /\ Follows(cur.tab, pre.tab))'
  BY <1>1, <1>15
<1> QED
  BY <1>1, <1>10, <1>11, <1>13, <1>14, <1>16, <1>17 DEF StatsInv

\* Max of two numbers.
LEMMA MostOfTwo ==
  ASSUME NEW a \in Nat, NEW b \in Nat
  PROVE  Stats!Max({a, b}) = IF a >= b THEN a ELSE b
<1>1. \E x \in {a, b} : \A y \in {a, b} : x >= y
  <2>1. CASE a >= b
    BY <2>1
  <2>2. CASE b >= a
    BY <2>2
  <2> QED
    BY <2>1, <2>2
<1>2. Stats!Max({a, b}) \in {a, b} /\ \A y \in {a, b} : Stats!Max({a, b}) >= y
  BY <1>1 DEF Stats!Max
<1> QED
  BY <1>2

\* initifprop writes the properties of the interfaces that are there from the
\* start of the table on.
LEMMA PropertiesAre ==
  ASSUME Stats!StatsAssumption, KernelInv, ifprops \in Seq(Property), NEW props, props = Stats!initifprop
  PROVE  /\ props \in Seq(Property)
         /\ \A p \in 1 .. Stats!Min({Len(kdevs), MaxTab - 1}) :
              p \in DOMAIN props /\ props[p] = [name |-> kdevs[p].name, speed |-> kdevs[p].speed]
<1>1. /\ kdevs \in Seq(Device) /\ MaxTab - 1 \in Nat /\ Len(kdevs) \in Nat
  BY DEF KernelInv, Stats!StatsAssumption
<1>2. PICK now : now = Stats!Prefix(kdevs, MaxTab - 1)
  OBVIOUS
<1>3. /\ now \in Seq(Device) /\ Len(now) = IF Len(kdevs) <= MaxTab - 1 THEN Len(kdevs) ELSE MaxTab - 1
      /\ \A k \in DOMAIN now : k \in DOMAIN kdevs /\ now[k] = kdevs[k]
  BY <1>1, <1>2, PrefixIs
<1>4. Stats!Min({Len(kdevs), MaxTab - 1}) = Len(now)
  BY <1>1, <1>3, LeastOfTwo
<1>5. Len(now) \in Nat /\ Len(ifprops) \in Nat /\ DOMAIN now = 1 .. Len(now) /\ DOMAIN ifprops = 1 .. Len(ifprops)
  BY <1>3
<1>6. PICK n : n = Stats!Max({Len(now), Len(ifprops)})
  OBVIOUS
<1>7. n = IF Len(now) >= Len(ifprops) THEN Len(now) ELSE Len(ifprops)
  BY <1>5, <1>6, MostOfTwo
<1>8. n \in Nat /\ n >= Len(now) /\ n >= Len(ifprops)
  BY <1>5, <1>7
<1>9. props = [i \in 1 .. n |-> IF i \in DOMAIN now THEN [name |-> now[i].name, speed |-> now[i].speed] ELSE ifprops[i]]
  BY <1>2, <1>6 DEF Stats!initifprop
<1>10. \A i \in DOMAIN now : [name |-> now[i].name, speed |-> now[i].speed] \in Property
  <2>1. SUFFICES ASSUME NEW i \in DOMAIN now PROVE [name |-> now[i].name, speed |-> now[i].speed] \in Property
    OBVIOUS
  <2>2. now[i] \in Device
    BY <1>3
  <2>3. now[i].name \in Names /\ now[i].speed \in Nat
    BY <2>2 DEF Device
  <2> QED
    BY <2>3 DEF Property
<1>11. \A i \in 1 .. n : i \in DOMAIN now \/ i \in DOMAIN ifprops
  BY <1>5, <1>7
<1>12. \A i \in 1 .. n : props[i] \in Property
  <2>1. SUFFICES ASSUME NEW i \in 1 .. n PROVE props[i] \in Property
    OBVIOUS
  <2>2. CASE i \in DOMAIN now
    BY <1>9, <1>10, <2>2
  <2>3. CASE i \notin DOMAIN now
    <3>1. props[i] = ifprops[i] /\ i \in DOMAIN ifprops
      BY <1>9, <1>11, <2>3
    <3> QED
      BY <3>1
  <2> QED
    BY <2>2, <2>3
<1>13. props \in [1 .. n -> Property]
  BY <1>9, <1>12
<1>14. props \in Seq(Property) /\ Len(props) = n
  BY <1>8, <1>13, FunctionIsSeq
<1>15. ASSUME NEW p \in 1 .. Len(now)
       PROVE  p \in DOMAIN props /\ props[p] = [name |-> kdevs[p].name, speed |-> kdevs[p].speed]
  <2>1. p \in 1 .. n /\ p \in DOMAIN now
    BY <1>5, <1>8
  <2> QED
    BY <1>3, <1>9, <2>1
<1> QED
  BY <1>4, <1>14, <1>15

\* getifprop finds the first property with the name.
LEMMA SpeedIs ==
  ASSUME NEW props \in Seq(Property), NEW d
  PROVE  /\ Stats!getifprop(props, d) \in Nat
         /\ \A p \in DOMAIN props : props[p].name = d /\ (\A k \in 1 .. p - 1 : props[k].name # d) =>
              Stats!getifprop(props, d) = props[p].speed
<1> DEFINE S == {i \in DOMAIN props : props[i].name = d}
<1>1. Stats!getifprop(props, d) = IF S = {} THEN 0 ELSE props[Stats!Min(S)].speed
  BY DEF Stats!getifprop
<1>2. S \in SUBSET Nat /\ DOMAIN props = 1 .. Len(props) /\ Len(props) \in Nat
  OBVIOUS
<1>3. CASE S = {}
  BY <1>1, <1>3
<1>4. CASE S # {}
  <2>1. Stats!Min(S) \in S /\ \A x \in S : Stats!Min(S) <= x
    BY <1>2, <1>4, LeastOf
  <2>2. PICK m : m = Stats!Min(S)
    OBVIOUS
  <2>3. m \in DOMAIN props /\ props[m].name = d /\ \A x \in S : m <= x
    BY <2>1, <2>2
  <2>4. props[m] \in Property
    BY <2>3
  <2>5. props[m].speed \in Nat
    BY <2>4 DEF Property
  <2>6. ASSUME NEW p \in DOMAIN props, props[p].name = d, \A k \in 1 .. p - 1 : props[k].name # d
        PROVE  m = p
    <3>1. p \in S
      BY <2>6
    <3>2. m <= p
      BY <2>3, <3>1
    <3>3. ~(m < p)
      BY <1>2, <2>3, <2>6
    <3> QED
      BY <1>2, <2>3, <3>2, <3>3
  <2> QED
    BY <1>1, <1>4, <2>2, <2>5, <2>6
<1> QED
  BY <1>3, <1>4

\* An entry with the speeds that deviatsyst fills in.
WithSpeeds(i) ==
  IF sclass # "intf" THEN cur.tab[i]
  ELSE LET s == Stats!getifprop(ifprops', cur.tab[i].name)
       IN  [cur.tab[i] EXCEPT !.speed = s,
              !.speedp = IF Stats!Compared[i] = 0 THEN s ELSE pre.tab[Stats!Compared[i]].speed]

\* The previous speed of an interface is one.
LEMMA SpeedsTyped ==
  ASSUME Stats!StatsAssumption, StatsInv, sclass = "intf", ifprops' \in Seq(Property), NEW i \in DOMAIN cur.tab
  PROVE  /\ WithSpeeds(i) \in Device
         /\ WithSpeeds(i).name = cur.tab[i].name /\ WithSpeeds(i).cnt = cur.tab[i].cnt
         /\ WithSpeeds(i).young = cur.tab[i].young
         /\ WithSpeeds(i).speed = Stats!getifprop(ifprops', cur.tab[i].name)
         /\ WithSpeeds(i).speedp = IF Stats!Compared[i] = 0 THEN WithSpeeds(i).speed
                                   ELSE pre.tab[Stats!Compared[i]].speed
<1>1. PICK s \in Nat : s = Stats!getifprop(ifprops', cur.tab[i].name)
  BY SpeedIs
<1>2. cur.tab \in Seq(Device) /\ pre.tab \in Seq(Device) /\ cur.tab[i] \in Device
  <2>1. cur.tab \in Seq(Device) /\ pre.tab \in Seq(Device)
    BY DEF StatsInv, TableInv
  <2> QED
    BY <2>1
<1>3. PICK m : m = Stats!Compared[i]
  OBVIOUS
<1>4. m = 0 \/ m \in DOMAIN pre.tab
  <2>1. CASE cur.tab[i].name \notin Stats!NamesIn(pre.tab)
    BY <1>3, <2>1, ComparedIs
  <2>2. CASE cur.tab[i].name \in Stats!NamesIn(pre.tab)
    <3>1. PICK q \in DOMAIN pre.tab : pre.tab[q].name = cur.tab[i].name
      BY <2>2 DEF Stats!NamesIn
    <3> QED
      BY <1>3, <3>1, ComparedIs
  <2> QED
    BY <2>1, <2>2
<1>5. PICK b : b = IF m = 0 THEN s ELSE pre.tab[m].speed
  OBVIOUS
<1>6. b \in Nat
  <2>1. CASE m = 0
    BY <1>5, <2>1
  <2>2. CASE m # 0
    <3>1. pre.tab[m] \in Device
      BY <1>2, <1>4, <2>2
    <3> QED
      BY <1>5, <2>2, <3>1 DEF Device
  <2> QED
    BY <2>1, <2>2
<1>7. PICK w : w = WithSpeeds(i)
  OBVIOUS
<1>8. w = [cur.tab[i] EXCEPT !.speed = s, !.speedp = b]
  BY <1>1, <1>3, <1>5, <1>7 DEF WithSpeeds
<1>9. PICK e \in Device : e = cur.tab[i]
  BY <1>2
<1>10. w = [e EXCEPT !.speed = s, !.speedp = b]
  BY <1>8, <1>9
<1>11. /\ w \in Device /\ w.name = e.name /\ w.cnt = e.cnt /\ w.young = e.young /\ w.speed = s /\ w.speedp = b
  BY <1>6, <1>10 DEF Device
<1> QED
  BY <1>1, <1>3, <1>5, <1>7, <1>9, <1>11

\* What deviatsyst leaves in the tables.
LEMMA DeviationsAre ==
  ASSUME Stats!StatsAssumption, StatsInv, Stats!deviatsyst
  PROVE  /\ ifprops' \in Seq(Property) /\ (sclass = "intf" => ifprops' = Stats!initifprop)
         /\ cur' \in [tab : Seq(Device \cup Unused), n : Nat] /\ cur'.n = cur.n
         /\ Len(cur'.tab) = Len(cur.tab) /\ DOMAIN cur'.tab = DOMAIN cur.tab
         /\ sclass # "cpu" => cur'.tab \in Seq(Device)
         /\ \A i \in DOMAIN cur.tab : /\ cur'.tab[i].name = cur.tab[i].name
                                      /\ cur'.tab[i].cnt = cur.tab[i].cnt
                                      /\ cur'.tab[i].young = cur.tab[i].young
         /\ \A i \in DOMAIN dev'.tab :
              /\ i \in DOMAIN cur.tab
              /\ dev'.tab[i].name = cur.tab[i].name
              /\ dev'.tab[i].cnt = Stats!subcount(cur.tab[i].cnt, Stats!At(pre.tab, Stats!Compared[i]).cnt)
              /\ sclass = "intf" =>
                   dev'.tab[i].speed = WithSpeeds(i).speed /\ dev'.tab[i].speedp = WithSpeeds(i).speedp
<1> DEFINE c == [i \in DOMAIN cur.tab |-> WithSpeeds(i)]
<1>1. /\ ifprops' = (IF sclass = "intf" THEN Stats!initifprop ELSE ifprops)
      /\ cur' = [cur EXCEPT !.tab = c]
      /\ dev' = [tab |-> [i \in 1 .. Stats!Min({cur.n, Len(cur.tab)}) |->
                            [Stats!Subtracted(c[i], Stats!At(pre.tab, Stats!Compared[i])) EXCEPT !.speedp = c[i].speedp]],
                 n |-> cur.n]
  BY DEF Stats!deviatsyst, WithSpeeds
<1>2. /\ cur \in [tab : Seq(Device \cup Unused), n : Nat] /\ KernelInv /\ ifprops \in Seq(Property)
      /\ sclass # "cpu" => cur.tab \in Seq(Device)
  BY DEF StatsInv, TableInv
<1>3. ifprops' \in Seq(Property) /\ (sclass = "intf" => ifprops' = Stats!initifprop)
  BY <1>1, <1>2, PropertiesAre
<1>4. DOMAIN cur.tab = 1 .. Len(cur.tab) /\ Len(cur.tab) \in Nat /\ cur.n \in Nat
  BY <1>2
<1>5. ASSUME NEW i \in DOMAIN cur.tab
      PROVE  /\ WithSpeeds(i) \in Device \cup Unused /\ (sclass # "cpu" => WithSpeeds(i) \in Device)
             /\ WithSpeeds(i).name = cur.tab[i].name /\ WithSpeeds(i).cnt = cur.tab[i].cnt
             /\ WithSpeeds(i).young = cur.tab[i].young
  <2>1. CASE sclass = "intf"
    BY <1>3, <2>1, SpeedsTyped
  <2>2. CASE sclass # "intf"
    <3>1. WithSpeeds(i) = cur.tab[i]
      BY <2>2 DEF WithSpeeds
    <3>2. cur.tab[i] \in Device \cup Unused /\ (sclass # "cpu" => cur.tab[i] \in Device)
      BY <1>2, <1>4
    <3> QED
      BY <3>1, <3>2
  <2> QED
    BY <2>1, <2>2
<1>6. c \in [1 .. Len(cur.tab) -> Device \cup Unused] /\ (sclass # "cpu" => c \in [1 .. Len(cur.tab) -> Device])
  BY <1>4, <1>5
<1>7. c \in Seq(Device \cup Unused) /\ Len(c) = Len(cur.tab) /\ (sclass # "cpu" => c \in Seq(Device))
  BY <1>4, <1>6, FunctionIsSeq
<1>8. DOMAIN c = DOMAIN cur.tab /\ \A i \in DOMAIN cur.tab : c[i] = WithSpeeds(i)
  OBVIOUS
<1> HIDE DEF c
<1>9. cur' \in [tab : Seq(Device \cup Unused), n : Nat] /\ cur'.n = cur.n /\ cur'.tab = c
  BY <1>1, <1>2, <1>7
<1>10. ASSUME NEW i \in DOMAIN dev'.tab
       PROVE  /\ i \in DOMAIN cur.tab
              /\ dev'.tab[i].name = cur.tab[i].name
              /\ dev'.tab[i].cnt = Stats!subcount(cur.tab[i].cnt, Stats!At(pre.tab, Stats!Compared[i]).cnt)
              /\ sclass = "intf" =>
                   dev'.tab[i].speed = WithSpeeds(i).speed /\ dev'.tab[i].speedp = WithSpeeds(i).speedp
  <2>1. PICK n : n = Stats!Min({cur.n, Len(cur.tab)})
    OBVIOUS
  <2>2. n \in Nat /\ n <= Len(cur.tab)
    <3>1. n = IF cur.n <= Len(cur.tab) THEN cur.n ELSE Len(cur.tab)
      BY <1>4, <2>1, LeastOfTwo
    <3> QED
      BY <1>4, <3>1
  <2> DEFINE P(k) == Stats!At(pre.tab, Stats!Compared[k])
             D(k) == [Stats!Subtracted(c[k], P(k)) EXCEPT !.speedp = c[k].speedp]
  <2>3. dev'.tab = [k \in 1 .. n |-> D(k)]
    BY <1>1, <2>1
  <2> HIDE DEF D, P
  <2>4. i \in 1 .. n /\ dev'.tab[i] = D(i)
    BY <2>3
  <2>5. i \in DOMAIN cur.tab
    BY <1>4, <2>2, <2>4
  <2>6. PICK e : e = c[i]
    OBVIOUS
  <2>7. e \in Device \cup Unused /\ e = WithSpeeds(i)
    BY <1>5, <1>8, <2>5, <2>6
  <2>8. PICK x : x = Stats!subcount(e.cnt, P(i).cnt)
    OBVIOUS
  <2>9. PICK y : y = P(i).speed
    OBVIOUS
  <2>10. D(i) = [[e EXCEPT !.cnt = x, !.speedp = y] EXCEPT !.speedp = e.speedp]
    BY <2>6, <2>8, <2>9 DEF D, Stats!Subtracted
  <2>11. PICK z : z = D(i)
    OBVIOUS
  <2>12. DOMAIN e = {"name", "cnt", "speed", "speedp", "young"}
    BY <2>7 DEF Device, Unused, Stats!Empty
  <2>13. z = [[e EXCEPT !.cnt = x, !.speedp = y] EXCEPT !.speedp = e.speedp]
    BY <2>10, <2>11
  <2>14. z.name = e.name /\ z.cnt = x /\ z.speed = e.speed /\ z.speedp = e.speedp
    BY ONLY <2>12, <2>13
  <2> QED
    BY <1>5, <2>4, <2>5, <2>7, <2>8, <2>11, <2>14 DEF P
<1> QED
  BY <1>3, <1>5, <1>7, <1>8, <1>9, <1>10

\* The deviation of a device is what it has counted.
LEMMA TrueDeviation ==
  ASSUME Stats!StatsAssumption, StatsInv, sclass # "none", NEW i \in DOMAIN cur.tab, cur.tab[i].name \in Names,
         ~(cur.tab[i].young /\ cur.tab[i].name \in Stats!NamesIn(pre.tab) /\ sclass # "nfs"),
         sclass \in {"cont", "cpu"} => Stats!At(pre.tab, i).name = cur.tab[i].name
  PROVE  Stats!subcount(cur.tab[i].cnt, Stats!At(pre.tab, Stats!Compared[i]).cnt) =
           IF cur.tab[i].name \in Stats!NamesIn(pre.tab) /\ ~cur.tab[i].young THEN took[cur.tab[i].name]
           ELSE cur.tab[i].cnt
<1>1. /\ sclass \in {"intf", "dsk", "nfs", "cont", "cpu"} /\ Counted(cur.tab, pre.tab, took)
      /\ took \in [Names -> 0 .. MAX32BITVAL - 1]
      /\ cur.tab \in Seq(Device \cup Unused) /\ pre.tab \in Seq(Device \cup Unused)
  BY DEF StatsInv, KernelInv, TableInv, Stats!StatsAssumption
<1>2. /\ Stats!Empty.name = -1 /\ Stats!Empty.cnt = 0 /\ -1 \notin Names /\ MAX32BITVAL \in Nat \ {0}
      /\ \A e \in Device : e.cnt \in 0 .. MAX32BITVAL - 1
  BY DeviceIs
<1>3. \A e \in Device \cup Unused : e.cnt \in 0 .. MAX32BITVAL - 1
  <2>1. 0 \in 0 .. MAX32BITVAL - 1
    BY <1>2
  <2> QED
    BY <1>2, <2>1 DEF Unused
<1>4. cur.tab[i].cnt \in 0 .. MAX32BITVAL - 1
  BY <1>1, <1>3
<1>5. DOMAIN cur.tab = 1 .. Len(cur.tab) /\ Len(cur.tab) \in Nat
  BY <1>1
<1>6. ASSUME sclass \in {"cont", "cpu"} PROVE Stats!Compared[i] = i
  BY <1>5, <1>6, WalkIs
<1> DEFINE m == Stats!Compared[i]
<1> HIDE DEF m
<1>7. CASE cur.tab[i].name \in Stats!NamesIn(pre.tab) /\ ~cur.tab[i].young
  <2>1. PICK q \in DOMAIN pre.tab : pre.tab[q].name = cur.tab[i].name
    BY <1>7 DEF Stats!NamesIn
  <2>2. m \in DOMAIN pre.tab /\ pre.tab[m].name = cur.tab[i].name
    <3>1. CASE sclass \in {"cont", "cpu"}
      <4>1. m = i /\ Stats!At(pre.tab, i).name \in Names
        BY <1>6, <3>1 DEF m
      <4>2. i \in DOMAIN pre.tab
        BY <1>2, <4>1 DEF Stats!At
      <4> QED
        BY <3>1, <4>1, <4>2 DEF Stats!At
    <3>2. CASE sclass \in {"intf", "dsk", "nfs"}
      BY <1>7, <2>1, <3>2, ComparedIs DEF m
    <3> QED
      BY <1>1, <3>1, <3>2
  <2>3. PICK a \in 0 .. MAX32BITVAL - 1 : a = pre.tab[m].cnt
    BY <1>1, <1>3, <2>2
  <2>4. PICK t \in 0 .. MAX32BITVAL - 1 : t = took[cur.tab[i].name]
    BY <1>1
  <2>5. cur.tab[i].cnt = (a + t) % MAX32BITVAL
    BY <1>1, <1>7, <2>2, <2>3, <2>4 DEF Counted
  <2>6. Stats!At(pre.tab, m) = pre.tab[m]
    BY <2>2 DEF Stats!At
  <2>7. Stats!subcount((a + t) % MAX32BITVAL, a) = t
    BY SubcountIs
  <2> QED
    BY <1>7, <2>3, <2>4, <2>5, <2>6, <2>7 DEF m
<1>8. CASE ~(cur.tab[i].name \in Stats!NamesIn(pre.tab) /\ ~cur.tab[i].young)
  <2>1. m \notin DOMAIN pre.tab
    <3>1. CASE cur.tab[i].name \in Stats!NamesIn(pre.tab)
      <4>1. cur.tab[i].young /\ sclass = "nfs"
        BY <1>8, <3>1
      <4>2. m = 0
        BY <4>1, ComparedIs DEF m
      <4> QED
        BY <1>1, <4>2
    <3>2. CASE cur.tab[i].name \notin Stats!NamesIn(pre.tab)
      <4>1. CASE sclass \in {"cont", "cpu"}
        <5>1. m = i /\ Stats!At(pre.tab, i).name = cur.tab[i].name
          BY <1>6, <4>1 DEF m
        <5> QED
          BY <3>2, <5>1 DEF Stats!At, Stats!NamesIn
      <4>2. CASE sclass \in {"intf", "dsk", "nfs"}
        BY <3>2, <4>2, ComparedIs DEF m
      <4> QED
        BY <1>1, <4>1, <4>2
    <3> QED
      BY <3>1, <3>2
  <2>2. Stats!At(pre.tab, m).cnt = 0
    BY <1>2, <2>1 DEF Stats!At
  <2>3. Stats!subcount(cur.tab[i].cnt, 0) = cur.tab[i].cnt
    BY <1>4, SubcountIs
  <2> QED
    BY <1>8, <2>2, <2>3 DEF m
<1> QED
  BY <1>7, <1>8

\* deviatsyst compares the two samples.
LEMMA DeviatInv ==
  ASSUME Stats!StatsAssumption, StatsInv, Stats!deviatsyst
  PROVE  StatsInv'
<1>1. /\ spc.step = "dev" /\ spc' = [spc EXCEPT !.step = "tot"]
      /\ UNCHANGED <<sclass, kdevs, really, took, pre, tot, summed>>
  BY DEF Stats!deviatsyst
<1>2. /\ ifprops' \in Seq(Property)
      /\ cur' \in [tab : Seq(Device \cup Unused), n : Nat] /\ cur'.n = cur.n
      /\ Len(cur'.tab) = Len(cur.tab) /\ DOMAIN cur'.tab = DOMAIN cur.tab
      /\ sclass # "cpu" => cur'.tab \in Seq(Device)
      /\ \A i \in DOMAIN cur.tab : /\ cur'.tab[i].name = cur.tab[i].name
                                   /\ cur'.tab[i].cnt = cur.tab[i].cnt
                                   /\ cur'.tab[i].young = cur.tab[i].young
      /\ \A i \in DOMAIN dev'.tab :
           /\ i \in DOMAIN cur.tab
           /\ dev'.tab[i].name = cur.tab[i].name
           /\ dev'.tab[i].cnt = Stats!subcount(cur.tab[i].cnt, Stats!At(pre.tab, Stats!Compared[i]).cnt)
  BY DeviationsAre
<1>3. spc \in [samples : Nat, changes : Nat, step : {"photo", "dev", "tot"}] /\ sclass # "none"
  BY <1>1 DEF StatsInv, KernelInv, NoneInv
<1>4. spc' \in [samples : Nat, changes : Nat, step : {"photo", "dev", "tot"}] /\ spc'.step = "tot"
  BY <1>1, <1>3
<1>5. KernelInv' /\ NoneInv'
  BY <1>1, <1>3, <1>4 DEF StatsInv, KernelInv, NoneInv
<1>6. TableInv(cur)' /\ TableInv(pre)'
  <2>1. Different(cur.tab)
    BY DEF StatsInv, TableInv
  <2>2. Different(cur'.tab)
    BY <1>2, <2>1 DEF Different
  <2> QED
    BY <1>1, <1>2, <2>2 DEF StatsInv, TableInv
<1>7. NamedInv'
  <2>1. ASSUME sclass = "intf", NEW i \in DOMAIN dev'.tab PROVE dev'.tab[i].name \in Names
    <3>1. cur.tab \in Seq(Device)
      BY <2>1 DEF StatsInv, TableInv
    <3>2. cur.tab[i] \in Device
      BY <1>2, <2>1, <3>1
    <3> QED
      BY <1>2, <2>1, <3>2, DeviceIs
  <2> QED
    BY <1>1, <2>1 DEF NamedInv
<1>8. Counted(kdevs, cur.tab, really)' /\ Counted(cur.tab, pre.tab, took)'
  <2>1. Counted(kdevs, cur.tab, really) /\ Counted(cur.tab, pre.tab, took)
    BY DEF StatsInv
  <2> QED
    BY <1>1, <1>2, <2>1 DEF Counted
<1>9. (sclass = "dsk" => Follows(kdevs, cur.tab) /\ Follows(cur.tab, pre.tab))'
  <2>1. ASSUME sclass = "dsk" PROVE Follows(kdevs, cur.tab)' /\ Follows(cur.tab, pre.tab)'
    <3>1. Follows(kdevs, cur.tab) /\ Follows(cur.tab, pre.tab)
      BY <2>1 DEF StatsInv
    <3> QED
      BY <1>1, <1>2, <3>1 DEF Follows
  <2> QED
    BY <1>1, <2>1
<1>10. Stats!HasTerminator' /\ Stats!TotalsUnmixed'
  BY <1>1, <1>2 DEF StatsInv, Stats!DevicesMatched, Stats!HasTerminator, Stats!TotalsUnmixed
<1>11. Stats!TrueDeviations'
  <2>1. SUFFICES ASSUME NEW i \in DOMAIN dev'.tab, dev'.tab[i].name \in Names, ~Stats!Recreated(i)',
                        sclass' \in {"cont", "cpu"} => Stats!At(pre.tab, i)'.name = dev'.tab[i].name
                 PROVE  dev'.tab[i].cnt = Stats!Truly(i)'
    BY DEF Stats!TrueDeviations
  <2>2. i \in DOMAIN cur.tab /\ dev'.tab[i].name = cur.tab[i].name
    BY <1>2
  <2>3. cur'.tab[i].young = cur.tab[i].young /\ cur'.tab[i].cnt = cur.tab[i].cnt
    BY <1>2, <2>2
  <2>4. Stats!NamesIn(pre.tab)' = Stats!NamesIn(pre.tab) /\ Stats!At(pre.tab, i)' = Stats!At(pre.tab, i)
    BY <1>1 DEF Stats!NamesIn, Stats!At
  <2>5. ~(cur.tab[i].young /\ cur.tab[i].name \in Stats!NamesIn(pre.tab) /\ sclass # "nfs")
    BY <1>1, <2>1, <2>2, <2>3, <2>4 DEF Stats!Recreated
  <2>6. sclass \in {"cont", "cpu"} => Stats!At(pre.tab, i).name = cur.tab[i].name
    BY <1>1, <2>1, <2>2, <2>4
  <2>7. cur.tab[i].name \in Names
    BY <2>1, <2>2
  <2>8. Stats!subcount(cur.tab[i].cnt, Stats!At(pre.tab, Stats!Compared[i]).cnt) =
           IF cur.tab[i].name \in Stats!NamesIn(pre.tab) /\ ~cur.tab[i].young THEN took[cur.tab[i].name]
           ELSE cur.tab[i].cnt
    BY <1>3, <2>2, <2>5, <2>6, <2>7, TrueDeviation
  <2>9. dev'.tab[i].cnt = IF cur.tab[i].name \in Stats!NamesIn(pre.tab) /\ ~cur.tab[i].young
                          THEN took[cur.tab[i].name] ELSE cur.tab[i].cnt
    BY <1>2, <2>8
  <2>10. Stats!Truly(i)' = IF cur.tab[i].name \in Stats!NamesIn(pre.tab) /\ ~cur.tab[i].young
                           THEN took[cur.tab[i].name] ELSE cur.tab[i].cnt
    BY <1>1, <2>2, <2>3, <2>4 DEF Stats!Truly
  <2> QED
    BY <2>9, <2>10
<1> QED
  BY <1>2, <1>5, <1>6, <1>7, <1>8, <1>9, <1>10, <1>11 DEF StatsInv, Stats!DevicesMatched

\* totalsyst adds the deviations up.
LEMMA TotalInv ==
  ASSUME Stats!StatsAssumption, StatsInv, Stats!totalsyst
  PROVE  StatsInv'
<1>1. /\ spc.step = "tot" /\ spc' = [spc EXCEPT !.step = "photo"]
      /\ UNCHANGED <<sclass, kdevs, really, took, cur, pre, dev, ifprops>>
  BY DEF Stats!totalsyst
<1>3. spc \in [samples : Nat, changes : Nat, step : {"photo", "dev", "tot"}] /\ sclass # "none"
  BY <1>1 DEF StatsInv, KernelInv, NoneInv
<1>4. spc' \in [samples : Nat, changes : Nat, step : {"photo", "dev", "tot"}] /\ spc'.step = "photo"
  BY <1>1, <1>3
<1>5. KernelInv' /\ NoneInv' /\ NamedInv' /\ TableInv(cur)' /\ TableInv(pre)'
  BY <1>1, <1>3, <1>4 DEF StatsInv, KernelInv, NoneInv, NamedInv, TableInv
<1>6. /\ Counted(kdevs, cur.tab, really)' /\ Counted(cur.tab, pre.tab, took)'
      /\ (sclass = "dsk" => Follows(kdevs, cur.tab) /\ Follows(cur.tab, pre.tab))'
  BY <1>1 DEF StatsInv
<1>7. Stats!HasTerminator' /\ Stats!TrueDeviations'
  BY <1>1, <1>4 DEF StatsInv, Stats!DevicesMatched, Stats!HasTerminator, Stats!TrueDeviations, Stats!Deviated
<1>8. ASSUME sclass = "intf", NEW i \in DOMAIN tot' PROVE summed'[i] = {tot'[i].name}
  <2>1. PICK new : new = (spc.samples % Stats!SummaryCnt = 1)
    OBVIOUS
  <2>2. PICK old : old = IF new THEN << >> ELSE tot
    OBVIOUS
  <2>3. PICK from : from = IF new THEN << >> ELSE summed
    OBVIOUS
  <2>4. /\ tot' = [k \in DOMAIN dev.tab |-> Stats!Added(dev.tab[k], Stats!At(old, k))]
        /\ summed' = [k \in DOMAIN dev.tab |-> {dev.tab[k].name} \union
                         (IF Stats!SameEntry(dev.tab[k], Stats!At(old, k)) THEN from[k] ELSE {})]
    BY <2>1, <2>2, <2>3 DEF Stats!totalsyst
  <2>5. i \in DOMAIN dev.tab /\ dev.tab[i].name \in Names
    BY <1>8, <2>4 DEF StatsInv, NamedInv
  <2>6. tot'[i].name = dev.tab[i].name
    BY <2>4, <2>5 DEF Stats!Added
  <2>7. Stats!SameEntry(dev.tab[i], Stats!At(old, i)) => from[i] = {dev.tab[i].name}
    <3>1. SUFFICES ASSUME Stats!At(old, i).name = dev.tab[i].name PROVE from[i] = {dev.tab[i].name}
      BY <1>8 DEF Stats!SameEntry
    <3>2. i \in DOMAIN old
      BY <2>5, <3>1, DeviceIs DEF Stats!At
    <3>3. ~new /\ old = tot /\ from = summed
      BY <2>2, <2>3, <3>2
    <3>4. summed[i] = {tot[i].name}
      BY <1>8, <3>2, <3>3 DEF StatsInv, Stats!DevicesMatched, Stats!TotalsUnmixed
    <3> QED
      BY <3>1, <3>2, <3>3, <3>4 DEF Stats!At
  <2>8. summed'[i] = {dev.tab[i].name}
    BY <2>4, <2>5, <2>7
  <2> QED
    BY <2>6, <2>8
<1>9. Stats!TotalsUnmixed'
  BY <1>1, <1>8 DEF Stats!TotalsUnmixed
<1> QED
  BY <1>1, <1>5, <1>6, <1>7, <1>9 DEF StatsInv, Stats!DevicesMatched

-----------------------------------------------------------------------------
(* The theorems.                                                           *)

\* The invariant holds before the system is chosen.
LEMMA StatsStart ==
  ASSUME Stats!StatsAssumption, Stats!Init
  PROVE  StatsInv
<1>1. /\ sclass = "none" /\ kdevs = << >> /\ really = [d \in Names |-> 0] /\ took = [d \in Names |-> 0]
      /\ cur = Stats!NoTable /\ pre = Stats!NoTable /\ dev = Stats!NoTable
      /\ tot = << >> /\ summed = << >> /\ ifprops = << >>
      /\ spc = [samples |-> 0, changes |-> 0, step |-> "photo"]
  BY DEF Stats!Init
<1>2. Stats!NoTable.tab = << >> /\ Stats!NoTable.n = 0 /\ Stats!NoTable \in [tab : Seq(Device \cup Unused), n : Nat]
  BY DEF Stats!NoTable
<1>3. 0 \in 0 .. MAX32BITVAL - 1
  BY DeviceIs
<1>4. DOMAIN << >> = {}
  OBVIOUS
<1>5. \A s : Counted(<< >>, << >>, s)
  BY <1>4 DEF Counted
<1>6. Different(<< >>) /\ Follows(<< >>, << >>)
  BY <1>4 DEF Different, Follows
<1>7. KernelInv
  BY <1>1, <1>3, <1>6 DEF KernelInv
<1>8. TableInv(cur) /\ TableInv(pre) /\ NoneInv /\ NamedInv
  BY <1>1, <1>2, <1>6 DEF TableInv, NoneInv, NamedInv
<1>9. Stats!DevicesMatched
  BY <1>1 DEF Stats!DevicesMatched, Stats!TrueDeviations, Stats!Deviated, Stats!HasTerminator, Stats!TotalsUnmixed
<1>10. ifprops \in Seq(Property)
  BY <1>1
<1> QED
  BY <1>1, <1>2, <1>5, <1>6, <1>7, <1>8, <1>9, <1>10 DEF StatsInv

\* Every step of the kernel and of the statistics keeps the invariant.
LEMMA StatsStep ==
  ASSUME Stats!StatsAssumption, DisksComeLast, StatsInv, Stats!Next
  PROVE  StatsInv'
<1>1. CASE Stats!Boot
  BY <1>1, BootInv
<1>2. CASE Stats!Plug
  BY <1>2, PlugInv
<1>3. CASE Stats!Unplug
  BY <1>3, UnplugInv
<1>4. CASE Stats!Count
  BY <1>4, CountInv
<1>5. CASE Stats!SetSpeed
  BY <1>5, SetSpeedInv
<1>6. CASE Stats!photosyst
  BY <1>6, PhotoInv
<1>7. CASE Stats!deviatsyst
  BY <1>7, DeviatInv
<1>8. CASE Stats!totalsyst
  BY <1>8, TotalInv
<1> QED
  BY <1>1, <1>2, <1>3, <1>4, <1>5, <1>6, <1>7, <1>8 DEF Stats!Next

\* So does a step that leaves the statistics alone.
LEMMA StatsStutters ==
  ASSUME StatsInv, UNCHANGED stats
  PROVE  StatsInv'
<1>1. /\ sclass' = sclass /\ kdevs' = kdevs /\ really' = really /\ took' = took /\ cur' = cur /\ pre' = pre
      /\ dev' = dev /\ tot' = tot /\ summed' = summed /\ ifprops' = ifprops /\ spc' = spc
  BY DEF stats
<1>2. KernelInv' /\ NoneInv' /\ NamedInv' /\ TableInv(cur)' /\ TableInv(pre)'
  BY <1>1 DEF StatsInv, KernelInv, NoneInv, NamedInv, TableInv
<1>3. /\ Counted(kdevs, cur.tab, really)' /\ Counted(cur.tab, pre.tab, took)'
      /\ (sclass = "dsk" => Follows(kdevs, cur.tab) /\ Follows(cur.tab, pre.tab))'
  BY <1>1 DEF StatsInv
<1>4. Stats!HasTerminator' /\ Stats!TotalsUnmixed'
  BY <1>1 DEF StatsInv, Stats!DevicesMatched, Stats!HasTerminator, Stats!TotalsUnmixed
<1>5. Stats!TrueDeviations'
  <2>1. Stats!TrueDeviations
    BY DEF StatsInv, Stats!DevicesMatched
  <2>2. Stats!Deviated' <=> Stats!Deviated
    BY <1>1 DEF Stats!Deviated
  <2>3. \A i : /\ Stats!Truly(i)' = Stats!Truly(i) /\ (Stats!Recreated(i)' <=> Stats!Recreated(i))
               /\ Stats!At(pre.tab, i)' = Stats!At(pre.tab, i)
    BY <1>1 DEF Stats!Truly, Stats!Recreated, Stats!NamesIn, Stats!At
  <2> QED
    BY <1>1, <2>1, <2>2, <2>3 DEF Stats!TrueDeviations
<1> QED
  BY <1>1, <1>2, <1>3, <1>4, <1>5 DEF StatsInv, Stats!DevicesMatched

ScreenStats == part = "stats" => StatsInv

\* The invariant holds in every state of a behaviour about the statistics.
LEMMA StatsInvariant ==
  ASSUME Stats!StatsAssumption, DisksComeLast
  PROVE  SpecScreen => []ScreenStats
<1>1. InitScreen => ScreenStats
  BY StatsStart DEF InitScreen, ScreenStats
<1>2. ScreenStats /\ [NextScreen]_<<part, rdr, stats, ui, ln>> => ScreenStats'
  <2>1. SUFFICES ASSUME ScreenStats, [NextScreen]_<<part, rdr, stats, ui, ln>>, part' = "stats"
                 PROVE  StatsInv'
    BY DEF ScreenStats
  <2>2. part = "stats" /\ StatsInv
    BY <2>1 DEF NextScreen, ScreenStats
  <2>3. Stats!Next \/ UNCHANGED stats
    BY <2>1, <2>2 DEF NextScreen
  <2> QED
    BY <2>2, <2>3, StatsStep, StatsStutters
<1> QED
  BY <1>1, <1>2, PTL DEF SpecScreen

\* Whatever devices come, go and count between the samples, and however full
\* the tables are: deviatsyst subtracts counters of the same device, also
\* when they have wrapped, the tables that it walks have a terminator, and
\* totalsyst adds up interfaces of one name only.
THEOREM StatsDevicesMatched ==
  ASSUME DisksComeLast
  PROVE  SpecScreen => []DevicesMatched
<1>1. ScreenStats => DevicesMatched
  BY DEF ScreenStats, StatsInv, DevicesMatched
<1>2. SpecScreen => []ScreenStats
  BY ScreenAssumption, StatsInvariant
<1> QED
  BY <1>1, <1>2, PTL

\* deviatsyst fills in the speed that the kernel says and the one of the
\* sample before.
LEMMA SpeedsAre ==
  ASSUME Stats!StatsAssumption, StatsInv, Stats!deviatsyst, sclass = "intf", NEW i \in DOMAIN dev'.tab
  PROVE  /\ \A p \in 1 .. Stats!Min({Len(kdevs), MaxTab - 1}) :
              kdevs[p].name = dev'.tab[i].name => dev'.tab[i].speed = kdevs[p].speed
         /\ \A p \in DOMAIN pre.tab :
              pre.tab[p].name = dev'.tab[i].name => dev'.tab[i].speedp = pre.tab[p].speed
<1>1. /\ ifprops' \in Seq(Property) /\ ifprops' = Stats!initifprop
      /\ i \in DOMAIN cur.tab /\ dev'.tab[i].name = cur.tab[i].name
      /\ dev'.tab[i].speed = WithSpeeds(i).speed /\ dev'.tab[i].speedp = WithSpeeds(i).speedp
  BY DeviationsAre
<1>2. /\ KernelInv /\ ifprops \in Seq(Property) /\ kdevs \in Seq(Device) /\ Different(kdevs)
      /\ pre.tab \in Seq(Device)
  BY DEF StatsInv, KernelInv, TableInv
<1>3. PICK props : props = ifprops'
  OBVIOUS
<1>4. PICK n : n = Stats!Min({Len(kdevs), MaxTab - 1})
  OBVIOUS
<1>5. n \in Nat /\ n <= Len(kdevs) /\ Len(kdevs) \in Nat /\ DOMAIN kdevs = 1 .. Len(kdevs)
  <2>1. Len(kdevs) \in Nat /\ MaxTab - 1 \in Nat
    BY <1>2 DEF Stats!StatsAssumption
  <2> QED
    BY <1>2, <1>4, <2>1, LeastOfTwo
<1>6. /\ props \in Seq(Property)
      /\ \A p \in 1 .. n : p \in DOMAIN props /\ props[p] = [name |-> kdevs[p].name, speed |-> kdevs[p].speed]
  BY <1>1, <1>2, <1>3, <1>4, PropertiesAre
<1>7. \A p \in 1 .. n : p \in DOMAIN props /\ props[p].name = kdevs[p].name /\ props[p].speed = kdevs[p].speed
  <2>1. SUFFICES ASSUME NEW p \in 1 .. n
                 PROVE  p \in DOMAIN props /\ props[p].name = kdevs[p].name /\ props[p].speed = kdevs[p].speed
    OBVIOUS
  <2>2. PICK a, b : a = kdevs[p].name /\ b = kdevs[p].speed
    OBVIOUS
  <2>3. p \in DOMAIN props /\ props[p] = [name |-> a, speed |-> b]
    BY <1>6, <2>2
  <2>4. [name |-> a, speed |-> b].name = a /\ [name |-> a, speed |-> b].speed = b
    OBVIOUS
  <2> QED
    BY <2>2, <2>3, <2>4
<1>8. /\ WithSpeeds(i).speed = Stats!getifprop(props, cur.tab[i].name)
      /\ WithSpeeds(i).speedp = IF Stats!Compared[i] = 0 THEN WithSpeeds(i).speed
                                ELSE pre.tab[Stats!Compared[i]].speed
  BY <1>1, <1>3, SpeedsTyped
<1>9. ASSUME NEW p \in 1 .. n, kdevs[p].name = cur.tab[i].name
      PROVE  Stats!getifprop(props, cur.tab[i].name) = kdevs[p].speed
  <2>1. p \in DOMAIN props /\ props[p].name = cur.tab[i].name /\ props[p].speed = kdevs[p].speed
    BY <1>9, <1>7
  <2>2. ASSUME NEW k \in 1 .. p - 1 PROVE props[k].name # cur.tab[i].name
    <3>1. k \in 1 .. n /\ k \in DOMAIN kdevs /\ p \in DOMAIN kdevs /\ k # p
      BY <1>5
    <3>2. kdevs[k].name # kdevs[p].name
      <4>1. kdevs[k] \in Device
        BY <1>2, <3>1
      <4>2. kdevs[k].name \in Names
        BY <4>1 DEF Device
      <4> QED
        BY <1>2, <3>1, <4>2 DEF Different
    <3>3. props[k].name = kdevs[k].name
      BY <1>7, <3>1
    <3> QED
      BY <1>9, <3>2, <3>3
  <2> QED
    BY <1>6, <2>1, <2>2, SpeedIs
<1>10. ASSUME NEW p \in DOMAIN pre.tab, pre.tab[p].name = cur.tab[i].name
      PROVE  WithSpeeds(i).speedp = pre.tab[p].speed
  <2>1. Stats!Compared[i] = p
    BY <1>1, <1>10, ComparedIs
  <2>2. p # 0
    BY <1>2
  <2> QED
    BY <1>8, <2>1, <2>2
<1> QED
  BY <1>1, <1>4, <1>8, <1>9, <1>10

\* Only deviatsyst goes on to the totals.
LEMMA OnlyDeviat ==
  ASSUME KernelInv, Stats!Next, spc.step = "dev", spc'.step = "tot"
  PROVE  Stats!deviatsyst
<1>1. spc \in [samples : Nat, changes : Nat, step : {"photo", "dev", "tot"}]
  BY DEF KernelInv
<1>2. ~Stats!Boot
  BY DEF Stats!Boot
<1>3. ~Stats!Change
  BY <1>1 DEF Stats!Change
<1>4. ~Stats!photosyst /\ ~Stats!totalsyst
  BY DEF Stats!photosyst, Stats!totalsyst
<1> QED
  BY <1>2, <1>3, <1>4 DEF Stats!Next, Stats!Plug, Stats!Unplug, Stats!Count, Stats!SetSpeed

\* Whatever the interfaces are, however they come and go and however often
\* their speed changes: deviatsyst gives an interface the speed that the
\* kernel says at that moment, from a table that is never cleared, and the
\* speed of the sample before.
THEOREM StatsSpeedsCurrent ==
  ASSUME DisksComeLast
  PROVE  SpecScreen => SpeedsCurrent
<1> DEFINE Refreshed ==
      spc.step = "dev" /\ spc'.step = "tot" /\ sclass = "intf" =>
        \A i \in DOMAIN dev'.tab :
          /\ \A p \in 1 .. Stats!Min({Len(kdevs), MaxTab - 1}) :
               kdevs[p].name = dev'.tab[i].name => dev'.tab[i].speed = kdevs[p].speed
          /\ \A p \in DOMAIN pre.tab :
               pre.tab[p].name = dev'.tab[i].name => dev'.tab[i].speedp = pre.tab[p].speed
<1>1. ScreenStats /\ [NextScreen]_<<part, rdr, stats, ui, ln>> => [Refreshed]_Stats!vars
  <2>1. SUFFICES ASSUME ScreenStats, [NextScreen]_<<part, rdr, stats, ui, ln>>, ~UNCHANGED stats,
                        spc.step = "dev", spc'.step = "tot", sclass = "intf", NEW i \in DOMAIN dev'.tab
                 PROVE  /\ \A p \in 1 .. Stats!Min({Len(kdevs), MaxTab - 1}) :
                             kdevs[p].name = dev'.tab[i].name => dev'.tab[i].speed = kdevs[p].speed
                        /\ \A p \in DOMAIN pre.tab :
                             pre.tab[p].name = dev'.tab[i].name => dev'.tab[i].speedp = pre.tab[p].speed
    BY DEF stats, Stats!vars
  <2>2. part = "stats" /\ Stats!Next /\ StatsInv
    BY <2>1 DEF NextScreen, ScreenStats
  <2>3. Stats!deviatsyst
    BY <2>1, <2>2, OnlyDeviat DEF StatsInv
  <2> QED
    BY <2>1, <2>2, <2>3, ScreenAssumption, SpeedsAre
<1>2. SpecScreen => []ScreenStats
  BY ScreenAssumption, StatsInvariant
<1>3. SpecScreen => [][Refreshed]_Stats!vars
  BY <1>1, <1>2, PTL DEF SpecScreen
<1> QED
  BY <1>3 DEF SpeedsCurrent, Stats!SpeedsCurrent

-----------------------------------------------------------------------------
(* The interactive list.  First what is needed of sets of numbers.         *)

\* Max of a finite set of numbers is one of them.
LEMMA MostOf ==
  ASSUME NEW n \in Nat, NEW s \in SUBSET (1 .. n), s # {}
  PROVE  Max(s) \in s
<1> DEFINE B == {m \in Nat : \E x \in s : m = n - x}
<1>1. \A x \in s : x \in Nat /\ n - x \in Nat
  OBVIOUS
<1>2. B \in SUBSET Nat /\ B # {}
  BY <1>1
<1>3. PICK m \in B : \A j \in B : m <= j
  BY <1>2, SmallestElement
<1>4. PICK x \in s : m = n - x
  BY <1>3
<1>5. \A y \in s : x >= y
  <2>1. SUFFICES ASSUME NEW y \in s PROVE x >= y
    OBVIOUS
  <2>2. n - y \in B
    BY <1>1
  <2> QED
    BY <1>1, <1>3, <1>4, <2>2
<1> QED
  BY <1>4, <1>5 DEF Max

\* A set of numbers up to n has n at most.
LEMMA SmallNumbers ==
  ASSUME NEW n \in Nat, NEW s \in SUBSET (1 .. n)
  PROVE  IsFiniteSet(s) /\ Cardinality(s) \in Nat /\ Cardinality(s) <= n
<1>1. IsFiniteSet(1 .. n) /\ Cardinality(1 .. n) = IF 1 > n THEN 0 ELSE n - 1 + 1
  BY FS_Interval
<1>2. IsFiniteSet(s) /\ Cardinality(s) <= Cardinality(1 .. n)
  BY <1>1, FS_Subset
<1>3. Cardinality(s) \in Nat
  BY <1>2, FS_CardinalityType
<1> QED
  BY <1>1, <1>2, <1>3

\* What is true of the empty set, and of a set when it is true of each set
\* with one element less, is true of every subset of 1 .. n.
LEMMA FewerNumbers ==
  ASSUME NEW n \in Nat, NEW G, {} \in G,
         \A s \in SUBSET (1 .. n) : s # {} /\ (\A x \in s : s \ {x} \in G) => s \in G
  PROVE  \A s \in SUBSET (1 .. n) : s \in G
<1> DEFINE D == 1 .. n
           B == {s \in SUBSET D : s \notin G}
           K == {Cardinality(s) : s \in B}
<1> SUFFICES ASSUME B # {} PROVE FALSE
  OBVIOUS
<1>0. IsFiniteSet(D)
  BY FS_Interval
<1>1. \A s \in B : Cardinality(s) \in Nat
  BY <1>0, FS_Subset, FS_CardinalityType
<1>2. K \in SUBSET Nat /\ K # {}
  BY <1>1
<1>3. PICK k \in K : \A j \in K : k <= j
  BY <1>2, SmallestElement
<1>4. PICK s \in B : k = Cardinality(s)
  BY <1>3
<1>5. PICK x \in s : s \ {x} \notin G
  BY <1>4
<1>6. PICK t : t = s \ {x}
  OBVIOUS
<1>7. t \in B
  BY <1>4, <1>5, <1>6
<1>8. IsFiniteSet(s)
  BY <1>0, <1>4, FS_Subset
<1>9. Cardinality(t) = Cardinality(s) - 1 /\ Cardinality(s) \in Nat /\ Cardinality(t) \in Nat
  BY <1>1, <1>4, <1>6, <1>7, <1>8, FS_RemoveElement
<1> QED
  BY <1>3, <1>4, <1>7, <1>9

-----------------------------------------------------------------------------
(* The flags: do_flags or generic_init, one after the other.               *)

Flagged(rc, r, f) == IF rc THEN do_flags(r, f) ELSE generic_init(r, f)

FlagStep(rc, r, flags, h, s) ==
  IF s = {} THEN r ELSE Flagged(rc, h[s \ {Max(s)}], flags[Max(s)])
FlagTable(rc, r, flags) ==
  CHOOSE h : h = [s \in SUBSET DOMAIN flags |-> FlagStep(rc, r, flags, h, s)]

\* The fold of Start is the last entry of such a table.
LEMMA FlagsUnfold ==
  ASSUME NEW r, NEW flags
  PROVE  /\ FoldLeft(do_flags, r, flags) = FlagTable(TRUE, r, flags)[DOMAIN flags]
         /\ FoldLeft(generic_init, r, flags) = FlagTable(FALSE, r, flags)[DOMAIN flags]
<1>1. FoldLeft(do_flags, r, flags) = FlagTable(TRUE, r, flags)[DOMAIN flags]
  BY DEF FoldLeft, MapThenFoldSet, FlagTable, FlagStep, Flagged
<1>2. FoldLeft(generic_init, r, flags) = FlagTable(FALSE, r, flags)[DOMAIN flags]
  BY DEF FoldLeft, MapThenFoldSet, FlagTable, FlagStep, Flagged
<1> QED
  BY <1>1, <1>2

\* The table of the flags exists: from one for sets of less than m numbers one
\* for sets of m numbers.
FlagPart(n, m) == {s \in SUBSET (1 .. n) : Cardinality(s) <= m}
FlagsSolved(rc, r, flags, m) ==
  \E h : h = [s \in FlagPart(Len(flags), m) |-> FlagStep(rc, r, flags, h, s)]

\* One element more.
LEMMA FlagsSolvedMore ==
  ASSUME NEW rc, NEW r, NEW flags \in Seq(STRING), NEW m \in Nat \ {0}, FlagsSolved(rc, r, flags, m - 1)
  PROVE  FlagsSolved(rc, r, flags, m)
<1> DEFINE n == Len(flags)
<1>0. n \in Nat
  OBVIOUS
<1>1. PICK f : f = [s \in FlagPart(n, m - 1) |-> FlagStep(rc, r, flags, f, s)]
  BY DEF FlagsSolved
<1> DEFINE g == [s \in FlagPart(n, m) |-> IF Cardinality(s) < m THEN f[s] ELSE FlagStep(rc, r, flags, f, s)]
<1>2. ASSUME NEW s \in FlagPart(n, m) PROVE g[s] = FlagStep(rc, r, flags, g, s)
  <2>0. s \in SUBSET (1 .. n) /\ IsFiniteSet(s) /\ Cardinality(s) \in Nat /\ Cardinality(s) <= m
    <3>1. s \in SUBSET (1 .. n) /\ Cardinality(s) <= m
      BY DEF FlagPart
    <3>2. IsFiniteSet(s) /\ Cardinality(s) \in Nat
      BY <1>0, <3>1, SmallNumbers
    <3> QED
      BY <3>1, <3>2
  <2>1. s = {} \/ g[s \ {Max(s)}] = f[s \ {Max(s)}]
    <3> SUFFICES ASSUME s # {} PROVE g[s \ {Max(s)}] = f[s \ {Max(s)}]
      OBVIOUS
    <3>1. PICK t : t = s \ {Max(s)}
      OBVIOUS
    <3>2. Max(s) \in s
      BY <1>0, <2>0, MostOf
    <3>3. t \in SUBSET (1 .. n) /\ Cardinality(t) = Cardinality(s) - 1
      BY <2>0, <3>1, <3>2, FS_RemoveElement
    <3>4. Cardinality(t) <= m /\ Cardinality(t) < m
      BY <2>0, <3>3
    <3> QED
      BY <3>1, <3>3, <3>4 DEF FlagPart
  <2>2. FlagStep(rc, r, flags, g, s) = FlagStep(rc, r, flags, f, s)
    <3> HIDE DEF g
    <3> QED
      BY <2>1 DEF FlagStep
  <2>3. CASE Cardinality(s) < m
    <3>1. s \in FlagPart(n, m - 1)
      BY <2>0, <2>3 DEF FlagPart
    <3> QED
      BY <1>1, <2>2, <2>3, <3>1
  <2>4. CASE ~(Cardinality(s) < m)
    BY <2>2, <2>4
  <2> QED
    BY <2>3, <2>4
<1>3. g = [s \in FlagPart(n, m) |-> FlagStep(rc, r, flags, g, s)]
  BY <1>2
<1> QED
  BY <1>3 DEF FlagsSolved

\* So it is what its definition says.
LEMMA FlagTableIs ==
  ASSUME NEW rc, NEW r, NEW flags \in Seq(STRING)
  PROVE  \A s \in SUBSET (1 .. Len(flags)) :
           FlagTable(rc, r, flags)[s] = FlagStep(rc, r, flags, FlagTable(rc, r, flags), s)
<1> DEFINE n == Len(flags)
           S == {m \in Nat : ~FlagsSolved(rc, r, flags, m)}
<1>0. n \in Nat /\ DOMAIN flags = 1 .. n
  OBVIOUS
<1>1. \A s \in SUBSET (1 .. n) : IsFiniteSet(s) /\ Cardinality(s) \in Nat /\ Cardinality(s) <= n
  BY <1>0, SmallNumbers
<1>2. FlagsSolved(rc, r, flags, 0)
  <2>1. FlagPart(n, 0) = {{}}
    BY <1>1, FS_EmptySet DEF FlagPart
  <2> DEFINE f == [s \in {{}} |-> r]
  <2>2. f = [s \in {{}} |-> FlagStep(rc, r, flags, f, s)]
    BY DEF FlagStep
  <2> QED
    BY <2>1, <2>2 DEF FlagsSolved
<1>3. ASSUME S # {} PROVE FALSE
  <2>1. PICK m \in S : \A j \in S : m <= j
    BY <1>3, SmallestElement
  <2>2. m \in Nat \ {0} /\ m - 1 \in Nat /\ ~(m <= m - 1)
    BY <1>2, <2>1
  <2>3. FlagsSolved(rc, r, flags, m - 1)
    BY <2>1, <2>2
  <2> QED
    BY <2>1, <2>2, <2>3, FlagsSolvedMore
<1>4. FlagPart(n, n) = SUBSET (1 .. n)
  BY <1>1 DEF FlagPart
<1>5. FlagsSolved(rc, r, flags, n)
  BY <1>0, <1>3
<1>6. \E h : h = [s \in SUBSET DOMAIN flags |-> FlagStep(rc, r, flags, h, s)]
  BY <1>0, <1>4, <1>5 DEF FlagsSolved
<1>7. FlagTable(rc, r, flags) = [s \in SUBSET DOMAIN flags |-> FlagStep(rc, r, flags, FlagTable(rc, r, flags), s)]
  BY <1>6 DEF FlagTable
<1> QED
  BY <1>0, <1>7

-----------------------------------------------------------------------------
(* The clock of the display.                                               *)

ClockFields == {"pc", "screen", "raw", "interval", "paused", "alarm"}

\* s has the clock of r.
SameClock(r, s) ==
  /\ DOMAIN s = DOMAIN r
  /\ s.screen = r.screen /\ s.raw = r.raw /\ s.interval = r.interval
  /\ s.paused = r.paused /\ s.alarm = r.alarm /\ s.pc = r.pc

ClockTyped(r) ==
  /\ ClockFields \subseteq DOMAIN r
  /\ r.screen \in BOOLEAN /\ r.raw \in BOOLEAN /\ r.interval \in Nat
  /\ r.paused \in BOOLEAN /\ r.alarm \in BOOLEAN

\* Before a sample.
Ready(r) == ClockTyped(r) /\ ~r.paused

\* During a sample: a pause stops the timer, and nothing else does.
Clocked(r) ==
  /\ ClockTyped(r)
  /\ ~r.screen => ~r.paused
  /\ r.paused => ~r.alarm
  /\ ~r.raw /\ r.interval > 0 => r.alarm = ~r.paused

ListInv ==
  /\ ui.pc \in {"start", "engine", "show", "key", "stop"}
  /\ ui.pc \in {"start", "engine"} => Ready(ui)
  /\ ui.pc \in {"show", "key"} => Clocked(ui)
  /\ ui.pc = "key" => ui.screen

\* A flag says nothing about the clock.
LEMMA FlagKeepsClock ==
  ASSUME NEW rc, NEW r, NEW f, ClockFields \subseteq DOMAIN r
  PROVE  SameClock(r, Flagged(rc, r, f))
<1>1. \A v : SameClock(r, [r EXCEPT !.showorder = v])
  BY DEF SameClock, ClockFields
<1>2. \A v : SameClock(r, [r EXCEPT !.deviatonly = v])
  BY DEF SameClock, ClockFields
<1>3. \A v : SameClock(r, [r EXCEPT !.threadview = v])
  BY DEF SameClock, ClockFields
<1>4. \A v : SameClock(r, [r EXCEPT !.suppressexit = v])
  BY DEF SameClock, ClockFields
<1>5. \A v, w : SameClock(r, [r EXCEPT !.showtype = v]) /\ SameClock(r, [r EXCEPT !.showtype = v, !.showorder = w])
  BY DEF SameClock, ClockFields
<1>6. SameClock(r, WithReport(r, f))
  BY <1>5 DEF WithReport
<1>7. SameClock(r, do_flags(r, f))
  BY <1>1, <1>2, <1>3, <1>4, <1>6 DEF do_flags
<1>8. SameClock(r, r)
  BY DEF SameClock
<1>9. SameClock(r, generic_init(r, f))
  BY <1>1, <1>3, <1>4, <1>6, <1>8 DEF generic_init
<1> QED
  BY <1>7, <1>9 DEF Flagged

\* Nor do any number of them.
LEMMA FlagsKeepClock ==
  ASSUME NEW rc, NEW r, NEW flags \in Seq(STRING), ClockFields \subseteq DOMAIN r
  PROVE  SameClock(r, FlagTable(rc, r, flags)[DOMAIN flags])
<1> DEFINE n == Len(flags)
<1>1. PICK h : h = FlagTable(rc, r, flags)
  OBVIOUS
<1>2. n \in Nat /\ DOMAIN flags = 1 .. n
  OBVIOUS
<1>3. \A s \in SUBSET (1 .. n) : h[s] = FlagStep(rc, r, flags, h, s)
  BY <1>1, FlagTableIs
<1> DEFINE G == {s \in SUBSET (1 .. n) : SameClock(r, h[s])}
<1>4. {} \in G
  <2>1. h[{}] = r
    BY <1>3 DEF FlagStep
  <2> QED
    BY <2>1 DEF SameClock
<1>5. ASSUME NEW s \in SUBSET (1 .. n), s # {}, \A x \in s : s \ {x} \in G PROVE s \in G
  <2>1. Max(s) \in s
    BY <1>2, <1>5, MostOf
  <2>2. PICK q : q = h[s \ {Max(s)}]
    OBVIOUS
  <2>3. SameClock(r, q)
    BY <1>5, <2>1, <2>2
  <2>4. ClockFields \subseteq DOMAIN q
    BY <2>3 DEF SameClock
  <2>5. h[s] = Flagged(rc, q, flags[Max(s)])
    BY <1>3, <1>5, <2>2 DEF FlagStep
  <2>6. SameClock(q, h[s])
    BY <2>4, <2>5, FlagKeepsClock
  <2>7. SameClock(r, h[s])
    BY <2>3, <2>6 DEF SameClock
  <2> QED
    BY <2>7
<1>6. \A s \in SUBSET (1 .. n) : s \in G
  <2> HIDE DEF G
  <2> QED
    BY <1>2, <1>4, <1>5, FewerNumbers
<1>7. SameClock(r, h[1 .. n])
  BY <1>6
<1> QED
  BY <1>1, <1>2, <1>7

\* What was so of r is so of s.
LEMMA ClockStays ==
  ASSUME NEW r, NEW s, SameClock(r, s)
  PROVE  /\ ClockFields \subseteq DOMAIN r => ClockFields \subseteq DOMAIN s
         /\ ClockTyped(r) => ClockTyped(s)
         /\ Ready(r) => Ready(s)
         /\ Clocked(r) => Clocked(s)
BY DEF SameClock, ClockTyped, Ready, Clocked

\* The start.
LEMMA StartClock ==
  ASSUME ListInv, Start
  PROVE  ListInv'
<1>1. PICK screen \in Screens, raw \in Raws, interval \in Intervals, support \in Supports, rc \in RcFlags, flags \in Flags :
        ui' = FoldLeft(generic_init, FoldLeft(do_flags,
                [ui EXCEPT !.screen = screen, !.raw = raw, !.interval = IF raw THEN 0 ELSE interval,
                           !.support = support, !.pc = "engine"], rc), flags)
  BY DEF Start
<1>2. Ready(ui)
  BY DEF Start, ListInv
<1>3. screen \in BOOLEAN /\ raw \in BOOLEAN /\ interval \in Nat /\ rc \in Seq(STRING) /\ flags \in Seq(STRING)
  BY <1>1, ListAssumption
<1>4. PICK n \in Nat : n = IF raw THEN 0 ELSE interval
  BY <1>3
<1>5. PICK r : r = [ui EXCEPT !.screen = screen, !.raw = raw, !.interval = n, !.support = support, !.pc = "engine"]
  OBVIOUS
<1>6. Ready(r) /\ r.pc = "engine" /\ ClockFields \subseteq DOMAIN r
  BY <1>2, <1>3, <1>5 DEF Ready, ClockTyped, ClockFields
<1>7. PICK q : q = FoldLeft(do_flags, r, rc)
  OBVIOUS
<1>8. SameClock(r, q)
  <2>1. q = FlagTable(TRUE, r, rc)[DOMAIN rc]
    BY <1>7, FlagsUnfold
  <2>2. SameClock(r, FlagTable(TRUE, r, rc)[DOMAIN rc])
    BY <1>3, <1>6, FlagsKeepClock
  <2> QED
    BY <2>1, <2>2
<1>9. Ready(q) /\ q.pc = "engine" /\ ClockFields \subseteq DOMAIN q
  BY <1>6, <1>8, ClockStays DEF SameClock
<1>10. ui' = FoldLeft(generic_init, q, flags)
  BY <1>1, <1>4, <1>5, <1>7
<1>11. SameClock(q, ui')
  <2>1. ui' = FlagTable(FALSE, q, flags)[DOMAIN flags]
    BY <1>10, FlagsUnfold
  <2>2. SameClock(q, FlagTable(FALSE, q, flags)[DOMAIN flags])
    BY <1>3, <1>9, FlagsKeepClock
  <2> QED
    BY <2>1, <2>2
<1>12. Ready(ui') /\ ui'.pc = "engine"
  BY <1>9, <1>11, ClockStays DEF SameClock
<1> QED
  BY <1>12 DEF ListInv, Ready, ClockTyped

\* A redraw, and a return to the engine.
LEMMA RedrawClock ==
  ASSUME NEW r, Clocked(r), Redraw(r)
  PROVE  ListInv'
<1>1. ui' = [r EXCEPT !.pc = "show", !.keys = @ + 1]
  BY DEF Redraw
<1>2. Clocked(ui') /\ ui'.pc = "show"
  BY <1>1 DEF Clocked, ClockTyped, ClockFields
<1> QED
  BY <1>2 DEF ListInv, Clocked, ClockTyped

\* A return to the engine.
LEMMA ReturnClock ==
  ASSUME NEW r, Ready(r), Return(r)
  PROVE  ListInv'
<1>1. ui' = [r EXCEPT !.pc = "engine"]
  BY DEF Return
<1>2. Ready(ui') /\ ui'.pc = "engine"
  BY <1>1 DEF Ready, ClockTyped, ClockFields
<1> QED
  BY <1>2 DEF ListInv, Ready, ClockTyped

\* A new sample starts the timer.
LEMMA SampClock ==
  ASSUME ListInv, generic_samp
  PROVE  ListInv'
<1>1. PICK auto \in Autos, genline \in PidLines, page \in PageSizes \ {0}, support \in {ui.support, ui.support \ {"netatop"}} :
        ui' = [(IF ui.raw THEN ui ELSE getalarm(ui)) EXCEPT
                  !.pc = "show", !.auto = auto, !.genline = genline, !.page = page, !.support = support, !.firstproc = 0,
                  !.all = procall, !.act = procactive, !.tlast = "0", !.tsk = NoList, !.zip = FALSE, !.keys = @ + 1]
  BY DEF generic_samp
<1>2. Ready(ui)
  BY DEF generic_samp, ListInv
<1>3. PICK r : r = IF ui.raw THEN ui ELSE getalarm(ui)
  OBVIOUS
<1>4. Ready(r) /\ (~r.raw /\ r.interval > 0 => r.alarm)
  <2>1. CASE ui.raw
    BY <1>2, <1>3, <2>1
  <2>2. CASE ~ui.raw
    <3>1. PICK b \in BOOLEAN : b = (ui.interval > 0)
      <4>1. ui.interval > 0 \/ ~(ui.interval > 0)
        OBVIOUS
      <4>2. (ui.interval > 0) \in BOOLEAN
        BY <4>1
      <4> QED
        BY <4>2, Zenon
    <3>2. r = [ui EXCEPT !.alarm = b]
      BY <1>3, <2>2, <3>1 DEF getalarm
    <3>3. Ready(r) /\ r.alarm = b /\ r.interval = ui.interval
      BY <1>2, <3>2 DEF Ready, ClockTyped, ClockFields
    <3> QED
      BY <3>1, <3>3
  <2> QED
    BY <2>1, <2>2
<1>5. ui' = [r EXCEPT
                  !.pc = "show", !.auto = auto, !.genline = genline, !.page = page, !.support = support, !.firstproc = 0,
                  !.all = procall, !.act = procactive, !.tlast = "0", !.tsk = NoList, !.zip = FALSE, !.keys = @ + 1]
  BY <1>1, <1>3
<1>6. /\ DOMAIN ui' = DOMAIN r /\ ui'.screen = r.screen /\ ui'.raw = r.raw /\ ui'.interval = r.interval
      /\ ui'.paused = r.paused /\ ui'.alarm = r.alarm /\ ui'.pc = "show"
  BY <1>4, <1>5 DEF Ready, ClockTyped, ClockFields
<1>7. Clocked(ui')
  BY <1>4, <1>6 DEF Clocked, Ready, ClockTyped
<1> QED
  BY <1>6, <1>7 DEF ListInv

\* The lists of a redraw leave the clock alone.
LEMMA GroupsClock ==
  ASSUME NEW r, NEW order, ClockFields \subseteq DOMAIN r
  PROVE  SameClock(r, ShowGroups(r, order))
<1>1. ASSUME NEW a, NEW b, NEW c, NEW d, NEW e, NEW f
      PROVE  SameClock(r, [r EXCEPT !.act = a, !.all = b, !.groups = c, !.zip = d, !.list = e, !.alistsz = f])
  BY DEF SameClock, ClockFields
<1> QED
  BY <1>1 DEF ShowGroups

\* So does the list of tasks.
LEMMA TasksClock ==
  ASSUME NEW r, NEW order, ClockFields \subseteq DOMAIN r
  PROVE  SameClock(r, ShowTasks(r, order))
<1>1. ASSUME NEW q, ClockFields \subseteq DOMAIN q PROVE SameClock(q, Sorted(q, order))
  <2>1. SameClock(q, q)
    BY DEF SameClock
  <2>2. ASSUME NEW a, NEW b, NEW c, NEW d, NEW e
        PROVE  SameClock(q, [q EXCEPT !.list = a, !.zip = b, !.tlast = c, !.act = d, !.all = e])
    BY <1>1 DEF SameClock, ClockFields
  <2> QED
    BY <2>1, <2>2 DEF Sorted
<1>2. ASSUME NEW q, ClockFields \subseteq DOMAIN q PROVE SameClock(q, WithThreads(q))
  <2>1. ASSUME NEW a, NEW b, NEW c, NEW d, NEW e
        PROVE  SameClock(q, [q EXCEPT !.tsk = a, !.ntsk = b, !.tdev = c, !.zip = d, !.list = e])
    BY <1>2 DEF SameClock, ClockFields
  <2> QED
    BY <2>1 DEF WithThreads
<1>3. ASSUME NEW base PROVE SameClock(r, [r EXCEPT !.list = base]) /\ SameClock(r, Selected(r, base))
  <2>1. ASSUME NEW a, NEW b PROVE SameClock(r, [r EXCEPT !.list = a]) /\ SameClock(r, [r EXCEPT !.list = a, !.tlast = b])
    BY DEF SameClock, ClockFields
  <2> QED
    BY <2>1 DEF Selected
<1>4. PICK chosen : chosen = IF NoSelection(r) THEN [r EXCEPT !.list = IF ActiveOnly(r) THEN r.act ELSE r.all]
                             ELSE Selected(r, IF ActiveOnly(r) THEN r.act ELSE r.all)
  OBVIOUS
<1>5. SameClock(r, chosen) /\ ClockFields \subseteq DOMAIN chosen
  <2>1. SameClock(r, chosen)
    BY <1>3, <1>4
  <2> QED
    BY <2>1, ClockStays
<1>6. PICK sorted : sorted = Sorted(chosen, order)
  OBVIOUS
<1>7. SameClock(chosen, sorted) /\ ClockFields \subseteq DOMAIN sorted
  <2>1. SameClock(chosen, sorted)
    BY <1>1, <1>5, <1>6
  <2> QED
    BY <1>5, <2>1, ClockStays
<1>8. SameClock(sorted, WithThreads(sorted))
  BY <1>2, <1>7
<1>9. SameClock(r, chosen) /\ SameClock(r, sorted) /\ SameClock(r, WithThreads(sorted))
  BY <1>5, <1>7, <1>8 DEF SameClock
<1>10. PICK plistsz : plistsz = IF r.screen THEN r.page ELSE IF r.threadview THEN ntaskactive ELSE Len(chosen.list)
  OBVIOUS
<1>11. PICK shown : shown = IF chosen.list = << >> \/ plistsz = 0 THEN chosen
                            ELSE IF r.threadview THEN WithThreads(sorted) ELSE sorted
  OBVIOUS
<1>12. SameClock(r, shown)
  BY <1>9, <1>11
<1>13. ShowTasks(r, order) = [shown EXCEPT !.groups = << >>, !.alistsz = Len(shown.list)]
  BY <1>4, <1>6, <1>10, <1>11 DEF ShowTasks
<1>14. ASSUME NEW a, NEW b PROVE SameClock(shown, [shown EXCEPT !.groups = a, !.alistsz = b])
  <2>1. ClockFields \subseteq DOMAIN shown
    BY <1>12, ClockStays
  <2> QED
    BY <2>1 DEF SameClock, ClockFields
<1>15. SameClock(shown, ShowTasks(r, order))
  <2>1. PICK k : k = Len(shown.list)
    OBVIOUS
  <2>2. ShowTasks(r, order) = [shown EXCEPT !.groups = << >>, !.alistsz = k]
    BY <1>13, <2>1
  <2>3. SameClock(shown, [shown EXCEPT !.groups = << >>, !.alistsz = k])
    BY <1>14
  <2> QED
    BY <2>2, <2>3
<1> QED
  BY <1>12, <1>15 DEF SameClock

\* A pass of the loop leaves the clock alone.
LEMMA ShowClock ==
  ASSUME ListInv, Show
  PROVE  ListInv'
<1>1. ui.pc = "show" /\ Clocked(ui) /\ ClockFields \subseteq DOMAIN ui
  BY DEF Show, ListInv, Clocked, ClockTyped
<1>2. PICK order : order = IF ui.showorder = "A" THEN ui.auto ELSE ui.showorder
  OBVIOUS
<1>3. PICK r : r = [ui EXCEPT !.curorder = order]
  OBVIOUS
<1>4. PICK s : s = IF r.showtype \in Cum THEN ShowGroups(r, order) ELSE ShowTasks(r, order)
  OBVIOUS
<1>5. ui' = IF ui.screen /\ ui.page = TooSmall THEN [ui EXCEPT !.pc = "stop"]
            ELSE IF ~ui.screen THEN [priproc(s) EXCEPT !.pc = "engine"]
            ELSE IF s.alistsz > 0 /\ ui.page > 0 THEN [priphead(s) EXCEPT !.pc = "key"]
            ELSE [s EXCEPT !.pc = "key"]
  BY <1>2, <1>3, <1>4 DEF Show
<1>6. SameClock(ui, r) /\ ClockFields \subseteq DOMAIN r
  BY <1>1, <1>3 DEF SameClock, ClockFields
<1>7. SameClock(r, s)
  BY <1>4, <1>6, GroupsClock, TasksClock
<1>8. SameClock(ui, s)
  BY <1>6, <1>7 DEF SameClock
<1>9. Clocked(s) /\ ClockFields \subseteq DOMAIN s /\ s.screen = ui.screen /\ (~s.screen => Ready(s))
  BY <1>1, <1>8, ClockStays DEF SameClock, Clocked, Ready
<1>10. CASE ui.screen /\ ui.page = TooSmall
  <2>1. ui'.pc = "stop"
    BY <1>1, <1>5, <1>10 DEF ClockFields
  <2> QED
    BY <2>1 DEF ListInv
<1>11. CASE ~ui.screen
  <2>1. SameClock(s, priproc(s))
    BY <1>9 DEF priproc, SameClock, ClockFields
  <2>2. Ready(priproc(s))
    BY <1>9, <1>11, <2>1, ClockStays
  <2>3. Return(priproc(s))
    BY <1>5, <1>11 DEF Return
  <2> QED
    BY <2>2, <2>3, ReturnClock
<1>12. ASSUME NEW q, Clocked(q), q.screen, ui' = [q EXCEPT !.pc = "key"] PROVE ListInv'
  <2>1. Clocked(ui') /\ ui'.pc = "key" /\ ui'.screen
    BY <1>12 DEF Clocked, ClockTyped, ClockFields
  <2> QED
    BY <2>1 DEF ListInv
<1>13. SameClock(s, priphead(s))
  <2>1. SameClock(s, s)
    BY DEF SameClock
  <2>2. ASSUME NEW a, NEW b, NEW c, NEW d
        PROVE  SameClock(s, [s EXCEPT !.prevsup = a, !.prevthr = b, !.showtype = c, !.curorder = d])
    BY <1>9 DEF SameClock, ClockFields
  <2> QED
    BY <2>1, <2>2 DEF priphead
<1>14. CASE ui.screen /\ ~(ui.page = TooSmall)
  <2>1. Clocked(priphead(s)) /\ priphead(s).screen /\ s.screen
    BY <1>9, <1>13, <1>14, ClockStays DEF SameClock
  <2> QED
    BY <1>5, <1>9, <1>12, <1>14, <2>1
<1> QED
  BY <1>10, <1>11, <1>14

\* A prompt stops the clock, and starts it again unless there is a pause.
LEMMA PromptTyped ==
  ASSUME NEW r, ClockTyped(r), ~r.screen => ~r.paused
  PROVE  Clocked(Prompted(r))
<1>1. SameClock(r, Top(r))
  BY DEF Top, ClockTyped, ClockFields, SameClock
<1>2. PICK b \in BOOLEAN : b <=> (r.interval > 0 /\ ~r.paused /\ ~r.raw)
  OBVIOUS
<1>3. PICK q : q = Top(r)
  OBVIOUS
<1>4. Prompted(r) = [q EXCEPT !.alarm = b]
  <2>1. (r.interval > 0 /\ ~r.paused /\ ~r.raw) = b
    BY <1>2
  <2> QED
    BY <1>3, <2>1 DEF Prompted
<1>5. PICK p : p = [q EXCEPT !.alarm = b]
  OBVIOUS
<1>6. /\ ClockFields \subseteq DOMAIN p /\ p.screen = r.screen /\ p.raw = r.raw /\ p.interval = r.interval
      /\ p.paused = r.paused /\ p.alarm = b
  BY <1>1, <1>3, <1>5 DEF SameClock, ClockTyped, ClockFields
<1>7. Clocked(p)
  BY <1>2, <1>6 DEF Clocked, ClockTyped
<1> QED
  BY <1>4, <1>5, <1>7

\* To go to the top of the list, with a prompt or without, keeps the clock.
LEMMA PromptClock ==
  ASSUME NEW r, Clocked(r)
  PROVE  Clocked(Top(r)) /\ Clocked(Prompted(r))
<1>1. Clocked(Top(r))
  BY DEF Top, Clocked, ClockTyped, ClockFields
<1>2. Clocked(Prompted(r))
  BY PromptTyped DEF Clocked
<1> QED
  BY <1>1, <1>2

\* The clock of a changed record.
LEMMA FieldClock ==
  ASSUME NEW r, Clocked(r)
  PROVE  /\ \A v : Clocked([r EXCEPT !.showorder = v]) /\ Clocked([r EXCEPT !.showtype = v])
         /\ \A v, w : Clocked([r EXCEPT !.showtype = v, !.showorder = w])
         /\ \A v, w : Clocked([r EXCEPT !.deviatonly = v, !.tlast = w])
         /\ \A v : Clocked([r EXCEPT !.threadview = v]) /\ Clocked([r EXCEPT !.suppressexit = v])
         /\ \A v : Clocked([r EXCEPT !.firstproc = v]) /\ Clocked([r EXCEPT !.page = v])
         /\ \A v : Clocked([r EXCEPT !.sel = v])
         /\ \A v, w : Clocked([r EXCEPT !.sel = v, !.genline = w])
<1>1. \A v : Clocked([r EXCEPT !.showorder = v]) /\ Clocked([r EXCEPT !.showtype = v])
  BY DEF Clocked, ClockTyped, ClockFields
<1>2. \A v, w : Clocked([r EXCEPT !.showtype = v, !.showorder = w])
  BY DEF Clocked, ClockTyped, ClockFields
<1>3. \A v, w : Clocked([r EXCEPT !.deviatonly = v, !.tlast = w])
  BY DEF Clocked, ClockTyped, ClockFields
<1>4. \A v : Clocked([r EXCEPT !.threadview = v]) /\ Clocked([r EXCEPT !.suppressexit = v])
  BY DEF Clocked, ClockTyped, ClockFields
<1>5. \A v : Clocked([r EXCEPT !.firstproc = v]) /\ Clocked([r EXCEPT !.page = v])
  BY DEF Clocked, ClockTyped, ClockFields
<1>6. \A v : Clocked([r EXCEPT !.sel = v])
  BY DEF Clocked, ClockTyped, ClockFields
<1>7. \A v, w : Clocked([r EXCEPT !.sel = v, !.genline = w])
  BY DEF Clocked, ClockTyped, ClockFields
<1> QED
  BY <1>1, <1>2, <1>3, <1>4, <1>5, <1>6, <1>7

\* The keys that ask for a sample.
LEMMA SampleKeysClock ==
  ASSUME ListInv, TimerExpires \/ MQUIT \/ MSAMPNEXT \/ MSAMPPREV \/ MSAMPBRANCH \/ MRESET
  PROVE  ListInv'
<1>1. ui.pc = "key" /\ Clocked(ui)
  BY DEF ListInv, TimerExpires, MQUIT, MSAMPNEXT, MSAMPPREV, MSAMPBRANCH, MRESET, Pressed, Waiting
<1>2. ASSUME ~ui.paused PROVE Ready(ui) /\ Ready(getalarm(ui))
  <2>1. Ready(ui)
    BY <1>1, <1>2 DEF Clocked, Ready
  <2>2. (ui.interval > 0) \in BOOLEAN
    OBVIOUS
  <2> QED
    BY <2>1, <2>2 DEF Ready, ClockTyped, ClockFields, getalarm
<1>3. CASE TimerExpires
  <2>1. ui.alarm /\ Return(getalarm(ui))
    BY <1>3 DEF TimerExpires
  <2>2. ~ui.paused
    BY <1>1, <2>1 DEF Clocked
  <2> QED
    BY <1>2, <2>1, <2>2, ReturnClock
<1>4. CASE MQUIT
  <2>1. ui'.pc = "stop"
    BY <1>1, <1>4 DEF MQUIT, Clocked, ClockTyped, ClockFields
  <2> QED
    BY <2>1 DEF ListInv
<1>5. CASE MSAMPNEXT
  BY <1>1, <1>2, <1>5, RedrawClock, ReturnClock DEF MSAMPNEXT, SampleAllowed
<1>6. CASE MSAMPPREV
  BY <1>1, <1>2, <1>6, RedrawClock, ReturnClock DEF MSAMPPREV, SampleAllowed
<1>7. CASE MSAMPBRANCH
  BY <1>1, <1>2, <1>7, RedrawClock, ReturnClock DEF MSAMPBRANCH, SampleAllowed
<1>8. CASE MRESET
  <2>1. Return([getalarm(ui) EXCEPT !.paused = FALSE])
    BY <1>8 DEF MRESET
  <2>2. (ui.interval > 0) \in BOOLEAN
    OBVIOUS
  <2>3. Ready([getalarm(ui) EXCEPT !.paused = FALSE])
    BY <1>1, <2>2 DEF Clocked, Ready, ClockTyped, ClockFields, getalarm
  <2> QED
    BY <2>1, <2>3, ReturnClock
<1> QED
  BY <1>3, <1>4, <1>5, <1>6, <1>7, <1>8

\* The keys that change the report, or only the window.
LEMMA ReportKeysClock ==
  ASSUME ListInv,
         \/ MSORT \/ MPROC \/ MCUM \/ MHELP \/ MALLPROC \/ MTHREAD \/ MSUPEXITS
         \/ Layout \/ KEY_DOWN \/ KEY_UP \/ KEY_NPAGE \/ KEY_PPAGE
  PROVE  ListInv'
<1>1. ui.pc = "key" /\ Clocked(ui)
  BY DEF ListInv, MSORT, MPROC, MCUM, MHELP, MALLPROC, MTHREAD, MSUPEXITS,
         Layout, KEY_DOWN, KEY_UP, KEY_NPAGE, KEY_PPAGE, Pressed, Waiting
<1>2. Clocked(Top(ui)) /\ Clocked(Prompted(ui))
  BY <1>1, PromptClock
<1>3. PICK t : t = Top(ui)
  OBVIOUS
<1>4. /\ \A v : Clocked([t EXCEPT !.showorder = v]) /\ Clocked([t EXCEPT !.showtype = v])
      /\ \A v, w : Clocked([t EXCEPT !.showtype = v, !.showorder = w])
      /\ \A v, w : Clocked([t EXCEPT !.deviatonly = v, !.tlast = w])
      /\ \A v : Clocked([t EXCEPT !.threadview = v]) /\ Clocked([t EXCEPT !.suppressexit = v])
  BY <1>2, <1>3, FieldClock
<1>5. CASE MSORT
  <2>1. PICK o : Redraw([t EXCEPT !.showorder = o]) \/ Redraw(ui)
    BY <1>3, <1>5 DEF MSORT
  <2> QED
    BY <1>1, <1>4, <2>1, RedrawClock
<1>6. CASE MPROC
  <2>1. PICK v, w : Redraw([t EXCEPT !.showtype = v, !.showorder = w]) \/ Redraw(ui)
    BY <1>3, <1>6 DEF MPROC
  <2> QED
    BY <1>1, <1>4, <2>1, RedrawClock
<1>7. CASE MCUM
  <2>1. PICK v : Redraw([t EXCEPT !.showtype = v])
    BY <1>3, <1>7 DEF MCUM
  <2> QED
    BY <1>4, <2>1, RedrawClock
<1>8. CASE MHELP
  BY <1>2, <1>8, RedrawClock DEF MHELP
<1>9. CASE MALLPROC
  <2>1. PICK v : Redraw([t EXCEPT !.deviatonly = v, !.tlast = "0"])
    BY <1>3, <1>9 DEF MALLPROC
  <2> QED
    BY <1>4, <2>1, RedrawClock
<1>10. CASE MTHREAD
  <2>1. PICK v : Redraw([t EXCEPT !.threadview = v])
    BY <1>3, <1>10 DEF MTHREAD
  <2> QED
    BY <1>4, <2>1, RedrawClock
<1>11. CASE MSUPEXITS
  <2>1. PICK v : Redraw([t EXCEPT !.suppressexit = v])
    BY <1>3, <1>11 DEF MSUPEXITS
  <2> QED
    BY <1>4, <2>1, RedrawClock
<1>12. CASE Layout
  BY <1>1, <1>2, <1>12, RedrawClock DEF Layout
<1>13. \A v : Clocked([ui EXCEPT !.firstproc = v])
  BY <1>1, FieldClock
<1>14. CASE KEY_DOWN \/ KEY_UP \/ KEY_NPAGE \/ KEY_PPAGE
  <2>1. PICK v : Redraw([ui EXCEPT !.firstproc = v])
    <3>1. CASE KEY_DOWN
      BY <3>1 DEF KEY_DOWN
    <3>2. CASE KEY_UP
      BY <3>2 DEF KEY_UP
    <3>3. CASE KEY_NPAGE
      BY <3>3 DEF KEY_NPAGE
    <3>4. CASE KEY_PPAGE
      BY <3>4 DEF KEY_PPAGE
    <3> QED
      BY <1>14, <3>1, <3>2, <3>3, <3>4
  <2> QED
    BY <1>13, <2>1, RedrawClock
<1> QED
  BY <1>5, <1>6, <1>7, <1>8, <1>9, <1>10, <1>11, <1>12, <1>14

\* The keys with a prompt.
LEMMA PromptKeysClock ==
  ASSUME ListInv, MSELUSER \/ MSELPROC \/ MSELARG \/ MSELCONT \/ MSELPID
  PROVE  ListInv'
<1>1. ui.pc = "key" /\ Clocked(ui)
  BY DEF ListInv, MSELUSER, MSELPROC, MSELARG, MSELCONT, MSELPID, Pressed, Waiting
<1>2. \A v, w : Clocked([ui EXCEPT !.sel = v]) /\ Clocked([ui EXCEPT !.sel = v, !.genline = w])
  BY <1>1, FieldClock
<1>3. \A v, w : Clocked(Prompted([ui EXCEPT !.sel = v])) /\ Clocked(Prompted([ui EXCEPT !.sel = v, !.genline = w]))
  BY <1>2, PromptClock
<1>4. CASE MSELUSER \/ MSELPROC \/ MSELARG \/ MSELCONT
  <2>1. PICK v : Redraw(Prompted([ui EXCEPT !.sel = v]))
    <3>1. CASE MSELUSER
      BY <3>1 DEF MSELUSER
    <3>2. CASE MSELPROC
      BY <3>2 DEF MSELPROC
    <3>3. CASE MSELARG
      BY <3>3 DEF MSELARG
    <3>4. CASE MSELCONT
      BY <3>4 DEF MSELCONT
    <3> QED
      BY <1>4, <3>1, <3>2, <3>3, <3>4
  <2> QED
    BY <1>3, <2>1, RedrawClock
<1>5. CASE MSELPID
  <2>1. PICK v, w : Redraw(Prompted([ui EXCEPT !.sel = v, !.genline = w]))
    BY <1>5 DEF MSELPID
  <2> QED
    BY <1>3, <2>1, RedrawClock
<1> QED
  BY <1>4, <1>5

\* The keys that change the clock or the size of the list.
LEMMA ClockKeysClock ==
  ASSUME ListInv, MKILLPROC \/ MINTERVAL \/ MSELSYS \/ MSYSLIMIT \/ MSYSFIXED \/ KEY_RESIZE \/ MPAUSE
  PROVE  ListInv'
<1>1. ui.pc = "key" /\ Clocked(ui) /\ ui.screen
  BY DEF ListInv, MKILLPROC, MINTERVAL, MSELSYS, MSYSLIMIT, MSYSFIXED, KEY_RESIZE, MPAUSE, Pressed, Waiting
<1>2. Clocked(Top(ui)) /\ Clocked(Prompted(ui))
  BY <1>1, PromptClock
<1>3. ASSUME NEW r, Clocked(r), Resized(r) PROVE ListInv'
  <2>1. PICK v : Redraw([r EXCEPT !.page = v])
    BY <1>3 DEF Resized
  <2>2. Clocked([r EXCEPT !.page = v])
    BY <1>3, FieldClock
  <2> QED
    BY <2>1, <2>2, RedrawClock
<1>4. CASE MSELSYS \/ MSYSLIMIT \/ MSYSFIXED \/ KEY_RESIZE
  BY <1>1, <1>2, <1>3, <1>4 DEF MSELSYS, MSYSLIMIT, MSYSFIXED, KEY_RESIZE
<1>5. CASE MKILLPROC
  <2>1. PICK t : t = Top(ui)
    OBVIOUS
  <2>2. Clocked([t EXCEPT !.alarm = ~ui.paused])
    <3>1. Clocked(t) /\ t.paused = ui.paused
      BY <1>1, <1>2, <2>1 DEF Top, Clocked, ClockTyped, ClockFields
    <3> QED
      BY <3>1 DEF Clocked, ClockTyped, ClockFields
  <2>3. Redraw(ui) \/ Redraw([t EXCEPT !.alarm = ~ui.paused])
    BY <1>5, <2>1 DEF MKILLPROC
  <2> QED
    BY <1>1, <2>2, <2>3, RedrawClock
<1>6. CASE MINTERVAL
  <2>1. PICK n \in Intervals \cup {ui.interval} : Redraw(IF ui.raw THEN ui ELSE Prompted([ui EXCEPT !.interval = n]))
    BY <1>6 DEF MINTERVAL
  <2>2. n \in Nat
    BY <1>1, <2>1, ListAssumption DEF Clocked, ClockTyped
  <2>3. CASE ui.raw
    BY <1>1, <2>1, <2>3, RedrawClock
  <2>4. CASE ~ui.raw
    <3>1. PICK r : r = [ui EXCEPT !.interval = n]
      OBVIOUS
    <3>2. ClockTyped(r) /\ r.paused = ui.paused /\ r.screen = ui.screen
      BY <1>1, <2>2, <3>1 DEF Clocked, ClockTyped, ClockFields
    <3>3. Clocked(Prompted(r))
      BY <1>1, <3>2, PromptTyped DEF Clocked
    <3> QED
      BY <2>1, <2>4, <3>1, <3>3, RedrawClock
  <2> QED
    BY <2>3, <2>4
<1>7. CASE MPAUSE
  <2>1. CASE ui.paused
    <3>1. PICK b \in BOOLEAN : b = IF ui.raw THEN ui.alarm ELSE TRUE
      BY <1>1 DEF Clocked, ClockTyped
    <3>2. Redraw([ui EXCEPT !.paused = FALSE, !.alarm = b])
      BY <1>7, <2>1, <3>1 DEF MPAUSE
    <3>3. Clocked([ui EXCEPT !.paused = FALSE, !.alarm = b])
      BY <1>1, <3>1 DEF Clocked, ClockTyped, ClockFields
    <3> QED
      BY <3>2, <3>3, RedrawClock
  <2>2. CASE ~ui.paused
    <3>1. Redraw([ui EXCEPT !.paused = TRUE, !.alarm = FALSE])
      BY <1>7, <2>2 DEF MPAUSE
    <3>2. Clocked([ui EXCEPT !.paused = TRUE, !.alarm = FALSE])
      BY <1>1 DEF Clocked, ClockTyped, ClockFields
    <3> QED
      BY <3>1, <3>2, RedrawClock
  <2> QED
    BY <2>1, <2>2
<1> QED
  BY <1>4, <1>5, <1>6, <1>7

-----------------------------------------------------------------------------
\* Every step of the display keeps the invariant.
LEMMA ListStep ==
  ASSUME ListInv, Next
  PROVE  ListInv'
<1>1. CASE Start
  BY <1>1, StartClock
<1>2. CASE generic_samp
  BY <1>2, SampClock
<1>3. CASE Show
  BY <1>3, ShowClock
<1>4. CASE TimerExpires \/ MQUIT \/ MSAMPNEXT \/ MSAMPPREV \/ MSAMPBRANCH \/ MRESET
  BY <1>4, SampleKeysClock
<1>5. CASE \/ MSORT \/ MPROC \/ MCUM \/ MHELP \/ MALLPROC \/ MTHREAD \/ MSUPEXITS
           \/ Layout \/ KEY_DOWN \/ KEY_UP \/ KEY_NPAGE \/ KEY_PPAGE
  BY <1>5, ReportKeysClock
<1>6. CASE MSELUSER \/ MSELPROC \/ MSELARG \/ MSELCONT \/ MSELPID
  BY <1>6, PromptKeysClock
<1>7. CASE MKILLPROC \/ MINTERVAL \/ MSELSYS \/ MSYSLIMIT \/ MSYSFIXED \/ KEY_RESIZE \/ MPAUSE
  BY <1>7, ClockKeysClock
<1> QED
  BY <1>1, <1>2, <1>3, <1>4, <1>5, <1>6, <1>7 DEF Next

ScreenList == part = "list" => ListInv

\* The invariant holds in every state of a behaviour about the display.
LEMMA ListInvariant == SpecScreen => []ScreenList
<1>1. InitScreen => ScreenList
  <2>1. SUFFICES ASSUME Init PROVE ListInv
    BY DEF InitScreen, ScreenList
  <2>2. Ready(ui) /\ ui.pc = "start"
    BY <2>1 DEF Init, Ready, ClockTyped, ClockFields
  <2> QED
    BY <2>2 DEF ListInv
<1>2. ScreenList /\ [NextScreen]_<<part, rdr, stats, ui, ln>> => ScreenList'
  <2>1. SUFFICES ASSUME ScreenList, [NextScreen]_<<part, rdr, stats, ui, ln>>, part' = "list"
                 PROVE  ListInv'
    BY DEF ScreenList
  <2>2. part = "list" /\ ListInv
    BY <2>1 DEF NextScreen, ScreenList
  <2>3. Next \/ UNCHANGED ui
    BY <2>1, <2>2 DEF NextScreen
  <2>4. CASE UNCHANGED ui
    BY <2>2, <2>4 DEF ListInv
  <2> QED
    BY <2>2, <2>3, <2>4, ListStep
<1> QED
  BY <1>1, <1>2, PTL DEF SpecScreen

\* Whatever keys are pressed, prompts answered and flags given, and whatever
\* tasks there are: while the display is paused no key and no timer leads to
\* another sample, except for the one that ends the pause.
THEOREM ListPausedHolds == SpecScreen => PausedHolds
<1> DEFINE Held == Waiting /\ ui.paused /\ ui'.pc = "engine" => ~ui'.paused
<1>1. ScreenList' /\ [NextScreen]_<<part, rdr, stats, ui, ln>> => [Held]_ui
  <2>1. SUFFICES ASSUME ScreenList', [NextScreen]_<<part, rdr, stats, ui, ln>>, ui' # ui, ui'.pc = "engine"
                 PROVE  ~ui'.paused
    BY DEF Waiting
  <2>2. part' = "list"
    BY <2>1 DEF NextScreen
  <2> QED
    BY <2>1, <2>2 DEF ScreenList, ListInv, Ready
<1>2. SpecScreen => [][Held]_ui
  BY <1>1, ListInvariant, PTL DEF SpecScreen
<1> QED
  BY <1>2 DEF PausedHolds

\* For any keys, prompts, flags, intervals and tasks: while atop waits for a
\* key in live mode with an interval, the timer runs unless there is a pause.
THEOREM ListClockRuns == SpecScreen => [](part = "list" => ClockRuns)
<1>1. ScreenList => (part = "list" => ClockRuns)
  BY DEF ScreenList, ListInv, Clocked, ClockRuns, Waiting
<1> QED
  BY <1>1, ListInvariant, PTL
=============================================================================
