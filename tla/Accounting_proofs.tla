-------------------------- MODULE Accounting_proofs --------------------------
(* Proofs about the two ways in which atop gets the records of processes     *)
(* that ended: the shadow files of atopacctd (atopacctd.c, acctproc.c), for  *)
(* any number of atops, any size of a shadow file and any kills; and private *)
(* accounting (acctproc.c), for any number of atops.                         *)
EXTENDS ShadowAccounting, PrivateAccounting, Vectors_proofs, FiniteSetTheorems

---------------------------------------------------------------------------
(* The inductive invariant.                                                  *)

DaemonLabels == {"never", "off", "stopped", "loop", "got", "clients", "reset", "recreate", "pass",
                 "next", "wipe", "write", "rest"}
AtopLabels == {"off", "none", "claimed", "open", "vers", "lost", "lock", "on", "sample"}

DaemonSet == [pc : DaemonLabels, afd : Nat, sfd : 0 .. 2, open : [1 .. 2 -> Nat],
              cur : 0 .. MaxSeq, old : Nat, busy : BOOLEAN, stot : 0 .. MaxShadowRec,
              atot : Nat, buf : Seq(Nat)]
AtopSet == [pc : AtopLabels, seq : Nat, ino : Nat, off : Int, acctsize : Int, size : Nat,
            n : Int, got : Nat, stray : BOOLEAN]

ShadowTypes ==
  /\ born \in 0 .. MaxRec /\ on \in BOOLEAN /\ source \in Seq(Nat)
  /\ dir \in BOOLEAN /\ entry \in [0 .. MaxSeq -> Nat] /\ content \in Seq(Seq(Nat))
  /\ current \in Int /\ d \in DaemonSet /\ c \in [Clients -> AtopSet] /\ log \in Seq(Nat)

\* The place in the log where a shadow file begins.
Base(s) == s * MaxShadowRec

\* No two names for one file, and no file above its size.
FileInv ==
  /\ \A s \in 0 .. MaxSeq : entry[s] \in 0 .. Len(content)
  /\ \A s, t \in 0 .. MaxSeq : entry[s] = entry[t] /\ entry[s] # 0 => s = t
  /\ \A f \in 1 .. Len(content) : Len(content[f]) <= MaxShadowRec

Held(s) == IF s < d.cur THEN MaxShadowRec ELSE d.stot

\* A shadow file is there with its piece of the log.
Whole(s) ==
  /\ entry[s] # 0 /\ Len(content[entry[s]]) = Held(s)
  /\ \A k \in 1 .. Held(s) : content[entry[s]][k] = log[Base(s) + k]

\* Files are removed from the oldest on: behind one that is there all are there.
LogInv ==
  /\ Len(log) = Base(d.cur) + d.stot
  /\ \A s \in 0 .. d.cur : entry[s] # 0 => \A t \in s .. d.cur : Whole(t)

\* The daemon writes to the newest file, although it knows it by number only.
Writing == {"loop", "got", "clients", "pass", "next", "wipe", "write", "rest"}
DaemonInv ==
  /\ Running => /\ dir /\ d.sfd = 1 /\ d.open[2] = 0 /\ d.old <= d.cur
                /\ \A s \in 0 .. d.old - 1 : entry[s] = 0
                /\ d.pc \notin {"wipe", "write"} => current = d.cur
  /\ d.pc \in Writing => d.open[1] = entry[d.cur] /\ entry[d.cur] # 0
  /\ d.pc \in {"loop", "got", "clients", "pass"} => d.stot < MaxShadowRec
  /\ d.pc \in {"got", "clients", "pass"} => Len(d.buf) \in 1 .. MaxBatch
  /\ d.pc = "next" => d.stot = MaxShadowRec /\ Len(d.buf) < MaxShadowRec
  /\ d.pc \in {"wipe", "write", "rest"} => d.stot = 0 /\ Len(d.buf) < MaxShadowRec
  /\ d.pc \in {"reset", "recreate"} => d.buf = << >>
  /\ d.pc = "recreate" => d.old = 0

\* What the file "current" may say: the newest file, unless that is still
\* empty, and an old number only right after a reset.
CurrentInv ==
  current < 0 \/ current = d.cur \/ (d.stot = 0 /\ (current = d.cur - 1 \/ d.cur = 0))

\* The records come in the order in which the kernel made them.
Ascending(q) == \A k, m \in 1 .. Len(q) : k < m => q[k] < q[m]
OrderInv ==
  /\ Ascending(log) /\ Ascending(d.buf) /\ Ascending(source)
  /\ \A k \in 1 .. Len(log) : log[k] \in 1 .. born
  /\ \A k \in 1 .. Len(d.buf) : d.buf[k] \in 1 .. born
  /\ \A k \in 1 .. Len(source) : source[k] \in 1 .. born
  /\ \A k \in 1 .. Len(log), m \in 1 .. Len(d.buf) : log[k] < d.buf[m]
  /\ \A m \in d.afd + 1 .. Len(source) :
        /\ \A k \in 1 .. Len(log) : log[k] < source[m]
        /\ \A k \in 1 .. Len(d.buf) : d.buf[k] < source[m]

\* An atop has its file open; one that is not stray has it under the name it
\* thinks, and is at the place it thinks.
Spot(a) == Base(c[a].seq) + c[a].acctsize
Linked(a) == c[a].seq <= d.cur /\ entry[c[a].seq] = c[a].ino

\* From the lock on.
AtopPlaced(a) ==
  /\ Linked(a) /\ c[a].acctsize \in 0 .. Len(content[c[a].ino]) /\ c[a].off = c[a].acctsize
  /\ c[a].got # 0 => \E k \in 1 .. Spot(a) : c[a].got = log[k]
  /\ c[a].pc = "on" /\ c[a].got # 0 => c[a].got = log[Spot(a)]
  /\ c[a].pc = "sample" =>
        /\ c[a].n >= 1 /\ Spot(a) + c[a].n <= Len(log)
        /\ c[a].acctsize <= c[a].size /\ c[a].size <= Len(content[c[a].ino])
        /\ c[a].size < MaxShadowRec => c[a].n <= c[a].size - c[a].acctsize

AtopInv(a) ==
  /\ c[a].pc \in {"vers", "lock", "on", "sample"} => c[a].ino \in 1 .. Len(content)
  /\ c[a].pc \in {"lock", "on", "sample"} => c[a].acctsize >= 0 /\ c[a].off >= 0
  /\ c[a].pc = "sample" => c[a].n >= 1 /\ c[a].size <= MaxShadowRec
  /\ c[a].pc \in {"vers", "lock"} /\ ~c[a].stray => c[a].seq <= d.cur
  /\ c[a].pc \in {"claimed", "open", "vers"} => c[a].acctsize = 0
  /\ c[a].pc = "lock" /\ ~c[a].stray /\ Linked(a) /\ c[a].acctsize <= MaxShadowRec =>
        /\ c[a].acctsize \in 1 .. Len(content[c[a].ino]) /\ c[a].off = c[a].acctsize
        /\ c[a].got = log[Spot(a)]
  /\ a \in Regular => AtopPlaced(a)

ShadowInv ==
  /\ ShadowTypes /\ FileInv /\ LogInv /\ DaemonInv /\ CurrentInv /\ OrderInv
  /\ \A a \in Clients : AtopInv(a)

---------------------------------------------------------------------------
(* Arithmetic of places, and what a step leaves alone.                       *)

\* Every file begins a whole file behind the one before it.
LEMMA BaseFacts ==
  ASSUME BatchFits
  PROVE  /\ Base(0) = 0
         /\ \A s \in Nat : Base(s) \in Nat /\ Base(s + 1) = Base(s) + MaxShadowRec
         /\ \A s, t \in Nat : s < t => Base(s) + MaxShadowRec <= Base(t)
<1>0. MaxShadowRec \in Nat
  BY DEF BatchFits
<1>1. \A s \in Nat : Base(s) \in Nat /\ Base(s + 1) = Base(s) + MaxShadowRec
  BY <1>0 DEF Base
<1>2. ASSUME NEW s \in Nat, NEW t \in Nat, s < t PROVE Base(s) + MaxShadowRec <= Base(t)
  <2>1. PICK r \in Nat : t = (s + 1) + r
    <3>1. t = (s + 1) + (t - s - 1) /\ t - s - 1 \in Nat
      BY <1>2
    <3> QED
      BY <3>1
  <2>2. ((s + 1) + r) * MaxShadowRec = (s + 1) * MaxShadowRec + r * MaxShadowRec
    BY <1>0
  <2>3. r * MaxShadowRec >= 0 /\ r * MaxShadowRec \in Nat
    BY <1>0
  <2> QED
    BY <1>0, <1>1, <2>1, <2>2, <2>3 DEF Base
<1> QED
  BY <1>0, <1>1, <1>2 DEF Base

\* The files are sequences of records.
LEMMA Contents ==
  ASSUME NEW q \in Seq(Seq(Nat))
  PROVE  \A f \in 1 .. Len(q) : q[f] \in Seq(Nat) /\ Len(q[f]) \in Nat
<1>1. \A f \in 1 .. Len(q) : q[f] \in Seq(Nat)
  OBVIOUS
<1> QED
  BY <1>1

\* A range within a larger one.
LEMMA Shifted ==
  ASSUME NEW x \in Nat, NEW y \in Nat, NEW z \in Nat, x + y <= z
  PROVE  \A k \in 1 .. y : x + k \in 1 .. z
OBVIOUS

\* The parts of the daemon's record.
LEMMA DaemonFields ==
  ASSUME ShadowTypes
  PROVE  /\ d.pc \in DaemonLabels /\ d.afd \in Nat /\ d.sfd \in 0 .. 2 /\ d.open \in [1 .. 2 -> Nat]
         /\ d.cur \in 0 .. MaxSeq /\ d.old \in Nat /\ d.busy \in BOOLEAN
         /\ d.stot \in 0 .. MaxShadowRec /\ d.atot \in Nat /\ d.buf \in Seq(Nat)
BY DEF ShadowTypes, DaemonSet

\* The parts of an atop's record.
LEMMA AtopFields ==
  ASSUME ShadowTypes, NEW a \in Clients
  PROVE  /\ c[a] \in AtopSet /\ c[a].pc \in AtopLabels /\ c[a].seq \in Nat /\ c[a].ino \in Nat
         /\ c[a].off \in Int /\ c[a].acctsize \in Int /\ c[a].size \in Nat /\ c[a].n \in Int
         /\ c[a].got \in Nat /\ c[a].stray \in BOOLEAN
<1>1. c[a] \in AtopSet
  BY DEF ShadowTypes
<1> QED
  BY <1>1 DEF AtopSet

\* A place within a file that is there is a place of the log.
LEMMA WholeInLog ==
  ASSUME BatchFits, ShadowTypes, LogInv, NEW s \in 0 .. d.cur
  PROVE  /\ Base(s) \in Nat /\ Held(s) \in 0 .. MaxShadowRec
         /\ Base(s) + Held(s) <= Len(log) /\ Len(log) \in Nat
         /\ Held(s) < MaxShadowRec => s = d.cur /\ Base(s) + Held(s) = Len(log)
<1>1. d.cur \in Nat /\ d.stot \in 0 .. MaxShadowRec /\ MaxShadowRec \in Nat /\ Len(log) \in Nat
  BY DaemonFields DEF ShadowTypes, BatchFits
<1>2. s \in Nat
  BY <1>1
<1>3. Len(log) = Base(d.cur) + d.stot /\ Base(s) \in Nat /\ Base(d.cur) \in Nat
  BY <1>1, <1>2, BaseFacts DEF LogInv
<1>4. s < d.cur => Base(s) + MaxShadowRec <= Base(d.cur)
  BY <1>1, <1>2, BaseFacts
<1>5. s = d.cur => Base(s) = Base(d.cur)
  OBVIOUS
<1> QED
  BY <1>1, <1>3, <1>4, <1>5 DEF Held

\* The numbers of a state are what they should be.
LEMMA Numbers ==
  ASSUME BatchFits, ShadowTypes
  PROVE  /\ d.cur \in Nat /\ d.cur <= MaxSeq /\ d.cur \in 0 .. MaxSeq /\ d.stot \in Nat /\ d.stot <= MaxShadowRec
         /\ MaxShadowRec \in Nat /\ MaxShadowRec >= 1 /\ MaxSeq \in Nat /\ d.old \in Nat
         /\ content \in Seq(Seq(Nat)) /\ Len(content) \in Nat /\ log \in Seq(Nat) /\ Len(log) \in Nat
         /\ Base(d.cur) \in Nat /\ d.buf \in Seq(Nat) /\ Len(d.buf) \in Nat
<1>1. /\ content \in Seq(Seq(Nat)) /\ Len(content) \in Nat /\ log \in Seq(Nat) /\ Len(log) \in Nat
  BY DEF ShadowTypes
<1>2. MaxShadowRec \in Nat /\ MaxShadowRec >= 1 /\ MaxSeq \in Nat
  BY DEF BatchFits
<1>3. /\ d.cur \in 0 .. MaxSeq /\ d.stot \in 0 .. MaxShadowRec
      /\ d.old \in Nat /\ d.buf \in Seq(Nat) /\ Len(d.buf) \in Nat
  BY DaemonFields
<1>4. d.cur \in Nat /\ d.cur <= MaxSeq /\ d.stot \in Nat /\ d.stot <= MaxShadowRec
  BY <1>2, <1>3
<1>5. Base(d.cur) \in Nat
  BY <1>4, BaseFacts
<1> QED
  BY <1>1, <1>2, <1>3, <1>4, <1>5

\* A name that is there is the name of a file.
LEMMA NamedFile ==
  ASSUME BatchFits, ShadowTypes, FileInv, NEW s \in 0 .. MaxSeq, entry[s] # 0
  PROVE  /\ entry[s] \in 1 .. Len(content) /\ content[entry[s]] \in Seq(Nat)
         /\ Len(content[entry[s]]) \in Nat /\ Len(content[entry[s]]) <= MaxShadowRec
<1>1. entry[s] \in 0 .. Len(content)
  BY DEF FileInv
<1>2. entry[s] \in 1 .. Len(content)
  BY <1>1, Numbers
<1> QED
  BY <1>2, Numbers, Contents DEF FileInv

\* What a step of the daemon that does not reset may do to the atops.
Kept ==
  /\ c' = c /\ d'.cur >= d.cur /\ Len(content') >= Len(content) /\ Len(log') >= Len(log)
  /\ \A k \in 1 .. Len(log) : log'[k] = log[k]
  /\ \A s \in 0 .. d.cur : /\ entry'[s] \in {0, entry[s]}
                           /\ entry[s] \in Locked => entry'[s] = entry[s]
                           /\ entry[s] # 0 => Len(content'[entry[s]]) >= Len(content[entry[s]])

\* Such a step keeps what is known of the atops.
LEMMA AtopsKept ==
  ASSUME BatchFits, ShadowInv, Kept, LogInv', ShadowTypes', NEW a \in Clients
  PROVE  AtopInv(a)'
<1>0. ShadowTypes /\ FileInv /\ LogInv /\ AtopInv(a)
  BY DEF ShadowInv
<1>1. c'[a] = c[a] /\ c[a].seq \in Nat /\ c[a].acctsize \in Int /\ Base(c[a].seq) \in Nat
  BY <1>0, AtopFields, BaseFacts DEF Kept
<1>2. Spot(a)' = Spot(a)
  BY <1>1 DEF Spot, Base
<1>3. (a \in Regular)' <=> a \in Regular
  BY <1>1 DEF Regular
<1>4. /\ d.cur \in 0 .. MaxSeq /\ d'.cur \in 0 .. MaxSeq /\ d'.cur >= d.cur /\ MaxSeq \in Nat
      /\ Len(content) \in Nat /\ Len(content') \in Nat /\ Len(content') >= Len(content)
      /\ Len(log) \in Nat /\ Len(log') \in Nat /\ Len(log') >= Len(log)
  <2>1. d.cur \in 0 .. MaxSeq /\ d'.cur \in 0 .. MaxSeq /\ MaxSeq \in Nat
    BY <1>0, DaemonFields DEF ShadowTypes, DaemonSet, BatchFits
  <2>2. Len(content) \in Nat /\ Len(content') \in Nat /\ Len(log) \in Nat /\ Len(log') \in Nat
    BY <1>0 DEF ShadowTypes
  <2> QED
    BY <2>1, <2>2 DEF Kept
<1>5. ASSUME Linked(a), c[a].ino # 0
      PROVE  /\ Len(content'[c[a].ino]) >= Len(content[c[a].ino])
             /\ Len(content[c[a].ino]) \in Nat /\ Len(content'[c[a].ino]) \in Nat
             /\ Base(c[a].seq) + Len(content[c[a].ino]) <= Len(log)
  <2>1. c[a].seq \in 0 .. d.cur /\ entry[c[a].seq] = c[a].ino
    BY <1>1, <1>4, <1>5 DEF Linked
  <2>2. c[a].ino \in 1 .. Len(content)
    BY <1>0, <1>4, <1>5, <2>1 DEF FileInv
  <2>3. Len(content[c[a].ino]) \in Nat /\ Len(content'[c[a].ino]) \in Nat
    <3>1. c[a].ino \in 1 .. Len(content')
      BY <1>4, <2>2
    <3> QED
      BY <1>0, <2>2, <3>1, Contents DEF ShadowTypes
  <2>4. Len(content'[c[a].ino]) >= Len(content[c[a].ino])
    BY <1>5, <2>1 DEF Kept
  <2>5. Whole(c[a].seq)
    BY <1>0, <1>4, <1>5, <2>1 DEF LogInv
  <2>6. Len(content[c[a].ino]) = Held(c[a].seq)
    BY <2>1, <2>5 DEF Whole
  <2>7. Base(c[a].seq) + Held(c[a].seq) <= Len(log)
    BY <1>0, <2>1, WholeInLog
  <2> QED
    BY <2>3, <2>4, <2>6, <2>7
<1>6. ASSUME Linked(a)', c[a].seq <= d.cur, c[a].ino # 0 PROVE Linked(a)
  BY <1>1, <1>4, <1>6 DEF Linked, Kept
<1>7. ASSUME a \in Regular PROVE AtopPlaced(a)'
  <2>1. AtopPlaced(a)
    BY <1>0, <1>7 DEF AtopInv
  <2>2. c[a].ino # 0 /\ c[a].ino \in Locked
    BY <1>0, <1>7, <1>4 DEF AtopInv, Regular, Connected, Locked
  <2>3. Linked(a)
    BY <2>1 DEF AtopPlaced
  <2>4. Linked(a)'
    BY <1>1, <1>4, <2>2, <2>3 DEF Linked, Kept
  <2>5. /\ c[a].acctsize \in 0 .. Len(content[c[a].ino]) /\ c[a].off = c[a].acctsize
        /\ Spot(a) \in 0 .. Len(log)
    <3>1. c[a].acctsize \in 0 .. Len(content[c[a].ino]) /\ c[a].off = c[a].acctsize
      BY <2>1 DEF AtopPlaced
    <3>2. Len(content[c[a].ino]) \in Nat /\ Base(c[a].seq) + Len(content[c[a].ino]) <= Len(log)
      BY <1>5, <2>2, <2>3
    <3> QED
      <4>1. c[a].acctsize \in Nat /\ c[a].acctsize <= Len(content[c[a].ino])
        BY <1>1, <3>1, <3>2
      <4>2. Len(log) \in Nat /\ Base(c[a].seq) \in Nat
        BY <1>1, <1>4
      <4>3. Base(c[a].seq) + c[a].acctsize \in 0 .. Len(log)
        BY <3>2, <4>1, <4>2
      <4> QED
        BY <3>1, <4>3 DEF Spot
  <2>6. \A k \in 1 .. Spot(a) : log'[k] = log[k]
    BY <1>4, <2>5 DEF Kept
  <2>7. /\ c[a].got # 0 => \E k \in 1 .. Spot(a) : c[a].got = log'[k]
        /\ c[a].pc = "on" /\ c[a].got # 0 => c[a].got = log'[Spot(a)]
    <3>1. /\ c[a].got # 0 => \E k \in 1 .. Spot(a) : c[a].got = log[k]
          /\ c[a].pc = "on" /\ c[a].got # 0 => c[a].got = log[Spot(a)]
      BY <2>1 DEF AtopPlaced
    <3>2. (\E k \in 1 .. Spot(a) : TRUE) => Spot(a) \in 1 .. Spot(a)
      BY <2>5
    <3> QED
      BY <2>6, <3>1, <3>2
  <2>8. c[a].acctsize \in 0 .. Len(content'[c[a].ino])
    <3>1. /\ Len(content[c[a].ino]) \in Nat /\ Len(content'[c[a].ino]) \in Nat
          /\ Len(content'[c[a].ino]) >= Len(content[c[a].ino])
      BY <1>5, <2>2, <2>3
    <3> QED
      BY <2>5, <3>1
  <2>9. c[a].pc = "sample" =>
          /\ c[a].n >= 1 /\ Spot(a) + c[a].n <= Len(log')
          /\ c[a].acctsize <= c[a].size /\ c[a].size <= Len(content'[c[a].ino])
          /\ c[a].size < MaxShadowRec => c[a].n <= c[a].size - c[a].acctsize
    <3> SUFFICES ASSUME c[a].pc = "sample"
                 PROVE  /\ c[a].n >= 1 /\ Spot(a) + c[a].n <= Len(log')
                        /\ c[a].acctsize <= c[a].size /\ c[a].size <= Len(content'[c[a].ino])
                        /\ c[a].size < MaxShadowRec => c[a].n <= c[a].size - c[a].acctsize
      OBVIOUS
    <3>1. /\ c[a].n >= 1 /\ Spot(a) + c[a].n <= Len(log)
          /\ c[a].acctsize <= c[a].size /\ c[a].size <= Len(content[c[a].ino])
          /\ c[a].size < MaxShadowRec => c[a].n <= c[a].size - c[a].acctsize
      BY <2>1 DEF AtopPlaced
    <3>2. c[a].n \in Int /\ c[a].size \in Nat
      BY <1>0, AtopFields
    <3> QED
      <4>1. Len(content'[c[a].ino]) >= Len(content[c[a].ino])
        BY <1>5, <2>2, <2>3
      <4>2. Len(content[c[a].ino]) \in Nat /\ Len(content'[c[a].ino]) \in Nat
        BY <1>5, <2>2, <2>3
      <4>3. c[a].size <= Len(content'[c[a].ino])
        BY <3>1, <3>2, <4>1, <4>2
      <4>4. Spot(a) + c[a].n <= Len(log')
        <5>1. Spot(a) \in Nat /\ Len(log) \in Nat /\ Len(log') \in Nat /\ Len(log') >= Len(log)
          BY <1>4, <2>5
        <5> QED
          BY <3>1, <3>2, <5>1
      <4> QED
        BY <3>1, <4>3, <4>4
  <2> QED
    BY <1>1, <1>2, <2>4, <2>5, <2>7, <2>8, <2>9 DEF AtopPlaced
<1>8. ASSUME c[a].pc = "lock", ~c[a].stray, Linked(a)', c[a].acctsize <= MaxShadowRec
      PROVE  /\ c[a].acctsize \in 1 .. Len(content'[c[a].ino]) /\ c[a].off = c[a].acctsize
             /\ c[a].got = log'[Spot(a)]
  <2>1. c[a].ino # 0 /\ c[a].seq <= d.cur
    BY <1>0, <1>4, <1>8 DEF AtopInv
  <2>2. Linked(a)
    BY <1>6, <1>8, <2>1
  <2>3. /\ c[a].acctsize \in 1 .. Len(content[c[a].ino]) /\ c[a].off = c[a].acctsize
        /\ c[a].got = log[Spot(a)]
    BY <1>0, <1>8, <2>2 DEF AtopInv
  <2>4. Spot(a) \in 1 .. Len(log)
    <3>1. Len(content[c[a].ino]) \in Nat /\ Base(c[a].seq) + Len(content[c[a].ino]) <= Len(log)
      BY <1>5, <2>1, <2>2
    <3>2. /\ c[a].acctsize \in Nat /\ 1 <= c[a].acctsize /\ c[a].acctsize <= Len(content[c[a].ino])
          /\ Len(log) \in Nat /\ Base(c[a].seq) \in Nat
      BY <1>1, <1>4, <2>3, <3>1
    <3>3. Base(c[a].seq) + c[a].acctsize \in 1 .. Len(log)
      BY <3>1, <3>2
    <3> QED
      BY <3>3 DEF Spot
  <2> QED
    BY <1>4, <1>5, <2>1, <2>2, <2>3, <2>4, SMTT(30) DEF Kept
<1>9. /\ c[a].pc \in {"vers", "lock", "on", "sample"} => c[a].ino \in 1 .. Len(content')
      /\ c[a].pc \in {"vers", "lock"} /\ ~c[a].stray => c[a].seq <= d'.cur
  BY <1>0, <1>1, <1>4 DEF AtopInv
<1> QED
  BY <1>0, <1>1, <1>2, <1>3, <1>7, <1>8, <1>9 DEF AtopInv

\* The mark of a stray atop.
LEMMA StrayedTypes ==
  ASSUME ShadowTypes
  PROVE  [a \in Clients |-> [c[a] EXCEPT !.stray = a \in Claimed]] \in [Clients -> AtopSet]
<1>1. ASSUME NEW a \in Clients PROVE [c[a] EXCEPT !.stray = a \in Claimed] \in AtopSet
  <2>1. c[a] \in AtopSet /\ (a \in Claimed) \in BOOLEAN
    BY AtopFields
  <2>2. \A x \in BOOLEAN : [c[a] EXCEPT !.stray = x] \in AtopSet
    BY <2>1 DEF AtopSet
  <2> QED
    BY <2>1, <2>2
<1> QED
  BY <1>1

\* When the daemon begins anew, every atop that is counted is stray.
LEMMA AtopsStrayed ==
  ASSUME ShadowInv, ShadowTypes', Len(content') >= Len(content),
         c' = [a \in Clients |-> [c[a] EXCEPT !.stray = a \in Claimed]], NEW a \in Clients
  PROVE  AtopInv(a)'
<1>0. ShadowTypes /\ AtopInv(a)
  BY DEF ShadowInv
<1>1. c'[a] = [c[a] EXCEPT !.stray = a \in Claimed] /\ c[a] \in AtopSet
  BY <1>0, AtopFields
<1>2. /\ c'[a].pc = c[a].pc /\ c'[a].ino = c[a].ino /\ c'[a].acctsize = c[a].acctsize
      /\ c'[a].n = c[a].n /\ c'[a].size = c[a].size /\ c'[a].seq = c[a].seq
      /\ c'[a].off = c[a].off
  BY <1>1 DEF AtopSet
<1>3. c'[a].pc \in {"vers", "lock", "on", "sample"} => c'[a].stray
  BY <1>1, <1>2 DEF AtopSet, Claimed
<1>4. Len(content) \in Nat /\ Len(content') \in Nat
  BY <1>0 DEF ShadowTypes
<1>5. c[a].ino \in 1 .. Len(content) => c[a].ino \in 1 .. Len(content')
  BY <1>4
<1>6. a \notin Regular'
  BY <1>3 DEF Regular, Connected
<1> QED
  BY <1>0, <1>2, <1>3, <1>5, <1>6 DEF AtopInv

\* A step that leaves the files, the log and the atops alone.
LEMMA QuietInv ==
  ASSUME BatchFits, ShadowInv, UNCHANGED <<entry, content, log, c>>,
         d'.cur = d.cur, d'.stot = d.stot,
         ShadowTypes', DaemonInv', CurrentInv', OrderInv'
  PROVE  ShadowInv'
<1>1. FileInv'
  BY DEF ShadowInv, FileInv
<1>2. LogInv'
  BY DEF ShadowInv, LogInv, Whole, Held, Base
<1>3. Kept
  <2>1. d.cur \in 0 .. MaxSeq /\ Len(content) \in Nat /\ Len(log) \in Nat
    BY DaemonFields, SMTT(30) DEF ShadowInv, ShadowTypes
  <2>2. \A s \in 0 .. d.cur : entry[s] # 0 => Len(content[entry[s]]) \in Nat
    <3> SUFFICES ASSUME NEW s \in 0 .. d.cur, entry[s] # 0 PROVE Len(content[entry[s]]) \in Nat
      OBVIOUS
    <3>1. entry[s] \in 1 .. Len(content)
      BY <2>1 DEF ShadowInv, FileInv, BatchFits
    <3> QED
      BY <3>1, Contents DEF ShadowInv, ShadowTypes
  <2> QED
    BY <2>1, <2>2 DEF Kept
<1> QED
  BY <1>1, <1>2, <1>3, AtopsKept DEF ShadowInv

---------------------------------------------------------------------------
(* The steps of the kernel and of the daemon.                                *)

\* The kernel's records are numbered in order (Exit).
LEMMA ExitInv ==
  ASSUME BatchFits, ShadowInv, Exit
  PROVE  ShadowInv'
<1>0. ShadowTypes /\ OrderInv
  BY DEF ShadowInv
<1>1. d' = d /\ UNCHANGED <<entry, content, log, c>>
  BY DEF Exit, files
<1>2. ShadowTypes'
  <2>1. born' \in 0 .. MaxRec /\ source' \in Seq(Nat)
    BY <1>0 DEF Exit, ShadowTypes, BatchFits
  <2> QED
    BY <1>0, <2>1 DEF Exit, ShadowTypes, files
<1>3. DaemonInv' /\ CurrentInv'
  BY DEF Exit, ShadowInv, DaemonInv, CurrentInv, Running, files
<1>4. OrderInv'
  <2>1. born \in Nat /\ born' = born + 1 /\ source \in Seq(Nat) /\ d.afd \in Nat /\ d.buf \in Seq(Nat)
    BY <1>0, DaemonFields DEF Exit, ShadowTypes
  <2>2. \A k \in 1 .. Len(source') : \/ k \in 1 .. Len(source) /\ source'[k] = source[k]
                                     \/ k = Len(source) + 1 /\ source'[k] = born + 1
    BY <2>1 DEF Exit
  <2>3. /\ \A k \in 1 .. Len(log) : log[k] \in 1 .. born'
        /\ \A k \in 1 .. Len(d.buf) : d.buf[k] \in 1 .. born'
    BY <1>0, <2>1 DEF OrderInv
  <2>4. \A k \in 1 .. Len(source) : source[k] \in 1 .. born
    BY <1>0 DEF OrderInv
  <2>5. \A k \in 1 .. Len(source') : source'[k] \in 1 .. born'
    BY <2>1, <2>2, <2>4
  <2>6. Ascending(source')
    <3> SUFFICES ASSUME NEW k \in 1 .. Len(source'), NEW m \in 1 .. Len(source'), k < m
                 PROVE  source'[k] < source'[m]
      BY DEF Ascending
    <3>1. k \in 1 .. Len(source) /\ source'[k] = source[k]
      BY <2>1, <2>2
    <3>2. CASE m \in 1 .. Len(source) /\ source'[m] = source[m]
      BY <1>0, <3>1, <3>2 DEF OrderInv, Ascending
    <3>3. CASE source'[m] = born + 1
      BY <2>1, <2>4, <3>1, <3>3
    <3> QED
      BY <2>2, <3>2, <3>3
  <2>7. \A m \in d.afd + 1 .. Len(source') :
           /\ \A k \in 1 .. Len(log) : log[k] < source'[m]
           /\ \A k \in 1 .. Len(d.buf) : d.buf[k] < source'[m]
    <3> SUFFICES ASSUME NEW m \in d.afd + 1 .. Len(source')
                 PROVE  /\ \A k \in 1 .. Len(log) : log[k] < source'[m]
                        /\ \A k \in 1 .. Len(d.buf) : d.buf[k] < source'[m]
      OBVIOUS
    <3>0. m \in 1 .. Len(source')
      BY <2>1
    <3>1. CASE m \in 1 .. Len(source) /\ source'[m] = source[m]
      <4>1. m \in d.afd + 1 .. Len(source)
        BY <2>1, <3>1
      <4> QED
        BY <1>0, <3>1, <4>1 DEF OrderInv
    <3>2. CASE source'[m] = born + 1
      <4>1. /\ \A k \in 1 .. Len(log) : log[k] \in 1 .. born
            /\ \A k \in 1 .. Len(d.buf) : d.buf[k] \in 1 .. born
        BY <1>0 DEF OrderInv
      <4>2. \A x \in 1 .. born : x < born + 1
        BY <2>1
      <4> QED
        BY <3>2, <4>1, <4>2
    <3> QED
      BY <2>2, <3>0, <3>1, <3>2
  <2> QED
    BY <1>0, <1>1, <2>3, <2>5, <2>6, <2>7 DEF OrderInv
<1> QED
  BY <1>1, <1>2, <1>3, <1>4, QuietInv

\* The lower of two numbers.
LEMMA MinOfTwo ==
  ASSUME NEW x \in Int, NEW y \in Int
  PROVE  Min({x, y}) = IF x <= y THEN x ELSE y
BY DEF Min

\* The daemon is killed, or another one finds the directory: nothing changes
\* but the daemon's place.
LEMMA DieInv ==
  ASSUME BatchFits, ShadowInv, d' = [d EXCEPT !.pc = "off"], current' = current,
         UNCHANGED <<born, files, log, c>>,
         UNCHANGED <<on, source>> \/ (source' = << >> /\ on' = FALSE)
  PROVE  ShadowInv'
<1>0. ShadowTypes /\ OrderInv /\ CurrentInv
  BY DEF ShadowInv
<1>1. /\ d'.pc = "off" /\ d'.cur = d.cur /\ d'.stot = d.stot /\ d'.buf = d.buf /\ d'.afd = d.afd
      /\ d' \in DaemonSet
  BY <1>0 DEF ShadowTypes, DaemonSet, DaemonLabels
<1>2. ShadowTypes'
  <2>1. << >> \in Seq(Nat)
    OBVIOUS
  <2>2. source' \in Seq(Nat) /\ on' \in BOOLEAN
    BY <1>0, <2>1 DEF ShadowTypes
  <2> QED
    BY <1>0, <1>1, <2>2 DEF ShadowTypes, files
<1>3. DaemonInv'
  BY <1>1 DEF DaemonInv, Running, Writing
<1>4. CurrentInv'
  BY <1>0, <1>1 DEF CurrentInv
<1>5. OrderInv'
  <2>1. CASE UNCHANGED source
    BY <1>0, <1>1, <2>1 DEF OrderInv
  <2>2. CASE source' = << >>
    <3>1. Len(source') = 0 /\ d.afd \in Nat
      BY <1>0, <2>2, DaemonFields
    <3> QED
      BY <1>0, <1>1, <3>1 DEF OrderInv, Ascending
  <2> QED
    BY <2>1, <2>2
<1> QED
  BY <1>1, <1>2, <1>3, <1>4, <1>5, QuietInv DEF files

\* The records of q from x + 1 to y, and their place in the order.
IsPiece(p, q, x, y) ==
  /\ p \in Seq(Nat) /\ Len(p) = y - x
  /\ \A k \in 1 .. Len(p) : /\ p[k] = q[x + k] /\ x + k \in 1 .. Len(q)
                            /\ x + k \in x + 1 .. Len(q) /\ x + k <= y
  /\ \A k \in y + 1 .. Len(q) : k \in 1 .. Len(q) /\ k \in x + 1 .. Len(q)
  /\ Ascending(p)
  /\ \A m \in y + 1 .. Len(q), k \in 1 .. Len(p) : p[k] < q[m]

\* SubSeq takes such a piece.
LEMMA PieceOf ==
  ASSUME NEW q \in Seq(Nat), NEW x \in Nat, NEW y \in Nat, x <= y, y <= Len(q), Ascending(q)
  PROVE  IsPiece(SubSeq(q, x + 1, y), q, x, y)
<1> DEFINE p == SubSeq(q, x + 1, y)
<1>1. \A k \in x + 1 .. y : q[k] \in Nat
  OBVIOUS
<1>2. /\ p \in Seq(Nat) /\ Len(p) = IF x + 1 <= y THEN y - (x + 1) + 1 ELSE 0
      /\ \A k \in 1 .. y - (x + 1) + 1 : p[k] = q[(x + 1) + k - 1]
  <2>1. x + 1 \in Int /\ y \in Int
    OBVIOUS
  <2> QED
    BY <1>1, <2>1, SubSeqProperties, SMTT(60)
<1>3. p \in Seq(Nat) /\ Len(p) = y - x
  BY <1>2
<1>4. \A k \in 1 .. y - x : (x + 1) + k - 1 = x + k /\ k \in 1 .. y - (x + 1) + 1
  OBVIOUS
<1>5. \A k \in 1 .. y - x : p[k] = q[x + k]
  BY <1>2, <1>4
<1> HIDE DEF p
<1>6. \A k \in 1 .. y - x : x + k \in 1 .. Len(q) /\ x + k \in x + 1 .. Len(q) /\ x + k <= y
  OBVIOUS
<1>7. \A k \in y + 1 .. Len(q) : k \in 1 .. Len(q) /\ k \in x + 1 .. Len(q)
  OBVIOUS
<1>8. Ascending(p) /\ \A m \in y + 1 .. Len(q), k \in 1 .. y - x : p[k] < q[m]
  <2>1. ASSUME NEW k \in 1 .. y - x, NEW m \in 1 .. y - x, k < m PROVE p[k] < p[m]
    BY <1>5, <1>6, <2>1 DEF Ascending
  <2>2. ASSUME NEW m \in y + 1 .. Len(q), NEW k \in 1 .. y - x PROVE p[k] < q[m]
    <3>1. x + k < m /\ x + k \in 1 .. Len(q) /\ m \in 1 .. Len(q)
      OBVIOUS
    <3> QED
      BY <1>5, <3>1 DEF Ascending
  <2> QED
    BY <1>3, <2>1, <2>2 DEF Ascending
<1>9. IsPiece(p, q, x, y)
  BY <1>3, <1>5, <1>6, <1>7, <1>8 DEF IsPiece
<1> QED
  BY <1>9 DEF p

\* The daemon reads at most one buffer of records (ReadSource).
LEMMA ReadSourceInv ==
  ASSUME BatchFits, ShadowInv, ReadSource
  PROVE  ShadowInv'
<1> DEFINE upto == Min({Len(source), d.afd + MaxBatch})
<1>0. ShadowTypes /\ OrderInv /\ CurrentInv /\ DaemonInv
  BY DEF ShadowInv
<1>1. /\ source \in Seq(Nat) /\ Len(source) \in Nat /\ d.afd \in Nat /\ MaxBatch \in Nat \ {0}
      /\ d.afd < Len(source)
  <2>1. d.afd < Len(source)
    BY DEF ReadSource
  <2>2. MaxBatch \in Nat \ {0}
    BY DEF BatchFits
  <2>3. source \in Seq(Nat) /\ Len(source) \in Nat
    BY <1>0 DEF ShadowTypes
  <2> QED
    BY <1>0, <2>1, <2>2, <2>3, DaemonFields
<1>2. upto \in Nat /\ d.afd < upto /\ upto <= Len(source) /\ upto <= d.afd + MaxBatch
  <2>1. upto = IF Len(source) <= d.afd + MaxBatch THEN Len(source) ELSE d.afd + MaxBatch
    BY <1>1, MinOfTwo, SMTT(30)
  <2> QED
    BY <1>1, <2>1
<1> DEFINE got == SubSeq(source, d.afd + 1, upto)
<1>3. IsPiece(got, source, d.afd, upto)
  <2>1. Ascending(source) /\ d.afd <= upto
    BY <1>0, <1>1, <1>2 DEF OrderInv
  <2> HIDE DEF upto
  <2> QED
    BY <1>1, <1>2, <2>1, PieceOf
<1>4. d' = [d EXCEPT !.buf = got, !.afd = upto, !.pc = "got"]
  BY DEF ReadSource
<1> HIDE DEF upto, got
<1>5. /\ d' \in DaemonSet /\ d'.pc = "got" /\ d'.cur = d.cur /\ d'.stot = d.stot /\ d'.buf = got
      /\ d'.afd = upto /\ d'.old = d.old /\ d'.sfd = d.sfd /\ d'.open = d.open
  BY <1>0, <1>1, <1>2, <1>3, <1>4 DEF IsPiece, ShadowTypes, DaemonSet, DaemonLabels
<1>6. UNCHANGED <<born, on, source, dir, entry, content, current, c, log>> /\ d.pc = "loop"
  BY DEF ReadSource, kernel, files
<1>7. ShadowTypes'
  BY <1>0, <1>5, <1>6 DEF ShadowTypes
<1>8. DaemonInv'
  <2>1. Len(got) \in 1 .. MaxBatch
    BY <1>1, <1>2, <1>3 DEF IsPiece
  <2> QED
    BY <1>0, <1>5, <1>6, <2>1 DEF DaemonInv, Running, Writing
<1>9. CurrentInv'
  BY <1>0, <1>5, <1>6 DEF CurrentInv
<1>10. OrderInv'
  <2>1. \A k \in 1 .. Len(got) : got[k] \in 1 .. born
    BY <1>0, <1>3 DEF IsPiece, OrderInv
  <2>2. \A k \in 1 .. Len(log), m \in 1 .. Len(got) : log[k] < got[m]
    BY <1>0, <1>3 DEF IsPiece, OrderInv
  <2>3. \A m \in upto + 1 .. Len(source), k \in 1 .. Len(log) : log[k] < source[m]
    BY <1>0, <1>3 DEF IsPiece, OrderInv
  <2> QED
    BY <1>0, <1>3, <1>5, <1>6, <2>1, <2>2, <2>3 DEF IsPiece, OrderInv
<1> QED
  BY <1>5, <1>6, <1>7, <1>8, <1>9, <1>10, QuietInv

\* The source file begins anew, with a record that the daemon reads itself or
\* with none (Reactivate).
LEMMA ReactivateInv ==
  ASSUME BatchFits, ShadowInv, Reactivate
  PROVE  ShadowInv'
<1>0. ShadowTypes /\ OrderInv /\ CurrentInv /\ DaemonInv
  BY DEF ShadowInv
<1>1. UNCHANGED <<dir, entry, content, current, c, log>> /\ d.pc = "loop"
  BY DEF Reactivate, files
<1>2. born \in Nat /\ born < MaxRec /\ MaxRec \in Nat
  BY <1>0 DEF Reactivate, ShadowTypes, BatchFits
<1>3. /\ born' \in {born, born + 1} /\ on' \in BOOLEAN /\ source' \in Seq(Nat)
      /\ d'.afd = Len(source') /\ Len(source') \in {0, 1}
      /\ \A k \in 1 .. Len(source') : source'[k] = born + 1 /\ born' = born + 1
  <2>1. << >> \in Seq(Nat) /\ <<born + 1>> \in Seq(Nat)
    BY <1>2
  <2>2. CASE on' = TRUE
    <3>1. born' = born + 1 /\ source' = <<born + 1>> /\ d' = [d EXCEPT !.afd = 1, !.atot = 1]
      BY <2>2 DEF Reactivate, swonpacct
    <3> QED
      BY <1>0, <1>2, <2>1, <2>2, <3>1, SMTT(30) DEF ShadowTypes, DaemonSet
  <2>3. CASE on' = FALSE
    <3>1. born' = born /\ source' = << >> /\ d' = [d EXCEPT !.afd = 0, !.atot = 0]
      BY <2>3 DEF Reactivate, swonpacct
    <3>2. Len(source') = 0 /\ 1 .. Len(source') = {} /\ source' \in Seq(Nat)
      BY <2>1, <3>1
    <3>3. d'.afd = 0
      BY <1>0, <3>1 DEF ShadowTypes, DaemonSet
    <3> QED
      BY <2>3, <3>1, <3>2, <3>3
  <2> QED
    BY <2>2, <2>3 DEF Reactivate, swonpacct
<1>4. /\ d' \in DaemonSet /\ d'.pc = d.pc /\ d'.cur = d.cur /\ d'.stot = d.stot /\ d'.buf = d.buf
      /\ d'.old = d.old /\ d'.sfd = d.sfd /\ d'.open = d.open
  <2>1. PICK x \in {0, 1} : d' = [d EXCEPT !.afd = x, !.atot = x]
    BY DEF Reactivate, swonpacct
  <2>2. x \in Nat
    OBVIOUS
  <2> QED
    BY <1>0, <2>1, <2>2 DEF ShadowTypes, DaemonSet
<1>5. ShadowTypes'
  <2>1. born' \in 0 .. MaxRec
    BY <1>2, <1>3
  <2> QED
    BY <1>0, <1>1, <1>3, <1>4, <2>1 DEF ShadowTypes
<1>6. DaemonInv' /\ CurrentInv'
  BY <1>0, <1>1, <1>4 DEF DaemonInv, CurrentInv, Running, Writing
<1>7. OrderInv'
  <2>1. /\ \A k \in 1 .. Len(log) : log[k] \in 1 .. born'
        /\ \A k \in 1 .. Len(d.buf) : d.buf[k] \in 1 .. born'
        /\ \A k \in 1 .. Len(source') : source'[k] \in 1 .. born'
    BY <1>0, <1>2, <1>3 DEF OrderInv
  <2>2. Ascending(source')
    BY <1>3 DEF Ascending
  <2>3. d'.afd + 1 .. Len(source') = {}
    BY <1>3
  <2> QED
    BY <1>0, <1>1, <1>4, <2>1, <2>2, <2>3 DEF OrderInv
<1> QED
  BY <1>1, <1>4, <1>5, <1>6, <1>7, QuietInv

\* The source file is wiped together with the daemon's place in it
\* (TruncateSource).
LEMMA TruncateSourceInv ==
  ASSUME BatchFits, ShadowInv, TruncateSource
  PROVE  ShadowInv'
<1>0. ShadowTypes /\ OrderInv /\ CurrentInv /\ DaemonInv
  BY DEF ShadowInv
<1>1. UNCHANGED <<born, on, dir, entry, content, current, c, log>> /\ d.pc = "got"
  BY DEF TruncateSource, files
<1>2. Len(d.buf) \in Nat /\ d.atot \in Nat /\ d.buf \in Seq(Nat)
  BY <1>0, DaemonFields
<1>3. /\ d' \in DaemonSet /\ d'.pc = "clients" /\ d'.cur = d.cur /\ d'.stot = d.stot /\ d'.buf = d.buf
      /\ d'.old = d.old /\ d'.sfd = d.sfd /\ d'.open = d.open
  <2>1. PICK x \in Nat, y \in Nat : d' = [d EXCEPT !.pc = "clients", !.afd = x, !.atot = y]
    <3>1. d.afd \in Nat /\ d.atot + Len(d.buf) \in Nat
      BY <1>0, <1>2, DaemonFields
    <3> QED
      BY <3>1 DEF TruncateSource
  <2> QED
    BY <1>0, <1>2, <2>1 DEF ShadowTypes, DaemonSet, DaemonLabels
<1>4. (source' = << >> /\ d'.afd = 0) \/ (source' = source /\ d'.afd = d.afd)
  BY <1>0 DEF TruncateSource, ShadowTypes, DaemonSet
<1>5. ShadowTypes'
  <2>1. << >> \in Seq(Nat)
    OBVIOUS
  <2> QED
    BY <1>0, <1>1, <1>3, <1>4, <2>1 DEF ShadowTypes
<1>6. DaemonInv' /\ CurrentInv'
  BY <1>0, <1>1, <1>3 DEF DaemonInv, CurrentInv, Running, Writing
<1>7. OrderInv'
  <2>1. CASE source' = << >> /\ d'.afd = 0
    <3>1. 1 .. Len(source') = {} /\ d'.afd + 1 .. Len(source') = {}
      BY <2>1
    <3> QED
      BY <1>0, <1>1, <1>3, <3>1 DEF OrderInv, Ascending
  <2>2. CASE source' = source /\ d'.afd = d.afd
    BY <1>0, <1>1, <1>3, <2>2 DEF OrderInv
  <2> QED
    BY <1>4, <2>1, <2>2
<1> QED
  BY <1>1, <1>3, <1>5, <1>6, <1>7, QuietInv

\* A step that changes only the place of the daemon, its buffer (kept or
\* dropped), its busy flag and the file "current".
LEMMA PlaceInv ==
  ASSUME BatchFits, ShadowInv, UNCHANGED <<born, on, source, dir, entry, content, c, log>>,
         current' \in Int, d' \in DaemonSet, d'.cur = d.cur, d'.stot = d.stot, d'.afd = d.afd,
         d'.buf \in {d.buf, << >>}, DaemonInv', CurrentInv'
  PROVE  ShadowInv'
<1>0. ShadowTypes /\ OrderInv
  BY DEF ShadowInv
<1>1. ShadowTypes'
  BY <1>0 DEF ShadowTypes
<1>2. OrderInv'
  <2>1. CASE d'.buf = << >>
    <3>1. 1 .. Len(d'.buf) = {}
      BY <2>1
    <3> QED
      BY <1>0, <3>1 DEF OrderInv, Ascending
  <2>2. CASE d'.buf = d.buf
    BY <1>0, <2>2 DEF OrderInv
  <2> QED
    BY <2>1, <2>2
<1> QED
  BY <1>1, <1>2, QuietInv

\* Without an atop the buffer is dropped (NumClients).
LEMMA NumClientsInv ==
  ASSUME BatchFits, ShadowInv, NumClients
  PROVE  ShadowInv'
<1>0. ShadowTypes /\ CurrentInv /\ DaemonInv
  BY DEF ShadowInv
<1>1. UNCHANGED <<born, on, source, dir, entry, content, current, c, log>> /\ d.pc = "clients"
  BY DEF NumClients, kernel, files
<1>2. << >> \in Seq(Nat)
  OBVIOUS
<1>3. /\ d' \in DaemonSet /\ d'.cur = d.cur /\ d'.stot = d.stot /\ d'.afd = d.afd
      /\ d'.old = d.old /\ d'.sfd = d.sfd /\ d'.open = d.open
      /\ (d'.pc = "pass" /\ d'.buf = d.buf) \/ (d'.pc \in {"reset", "loop"} /\ d'.buf = << >>)
  <2>1. CASE Claimed # {}
    <3>1. d' = [d EXCEPT !.busy = TRUE, !.pc = "pass"]
      BY <2>1 DEF NumClients
    <3> QED
      BY <1>0, <3>1 DEF ShadowTypes, DaemonSet, DaemonLabels
  <2>2. CASE Claimed = {}
    <3>1. d' = [d EXCEPT !.buf = <<>>, !.pc = IF d.busy THEN "reset" ELSE "loop"]
      BY <2>2 DEF NumClients
    <3> QED
      BY <1>0, <1>2, <3>1 DEF ShadowTypes, DaemonSet, DaemonLabels
  <2> QED
    BY <2>1, <2>2
<1>4. DaemonInv'
  BY <1>0, <1>1, <1>3 DEF DaemonInv, Running, Writing
<1>5. CurrentInv'
  BY <1>0, <1>1, <1>3 DEF CurrentInv
<1>6. current' \in Int
  BY <1>0, <1>1 DEF ShadowTypes
<1> QED
  BY <1>1, <1>3, <1>4, <1>5, <1>6, PlaceInv

\* The file "current" is wiped, and then gets the new number (setcurrent).
LEMMA SetCurrentInv ==
  ASSUME BatchFits, ShadowInv, WipeCurrent \/ setcurrent
  PROVE  ShadowInv'
<1>0. ShadowTypes /\ CurrentInv /\ DaemonInv
  BY DEF ShadowInv
<1>1. UNCHANGED <<born, on, source, dir, entry, content, c, log>>
  BY DEF WipeCurrent, setcurrent, kernel, files
<1>2. /\ d' \in DaemonSet /\ d'.cur = d.cur /\ d'.stot = d.stot /\ d'.afd = d.afd
      /\ d'.old = d.old /\ d'.sfd = d.sfd /\ d'.open = d.open /\ d'.buf = d.buf
  BY <1>0, ZenonT(60) DEF WipeCurrent, setcurrent, ShadowTypes, DaemonSet, DaemonLabels
<1>3. \/ d.pc = "wipe" /\ d'.pc = "write" /\ current' = -1
      \/ d.pc = "write" /\ d'.pc \in {"loop", "rest"} /\ current' = d.cur
  BY <1>0 DEF WipeCurrent, setcurrent, Wiped, ShadowTypes, DaemonSet
<1>4. current' \in Int
  BY <1>0, <1>3, DaemonFields
<1>5. CurrentInv'
  BY <1>2, <1>3 DEF CurrentInv
<1>6. DaemonInv'
  <2>1. MaxShadowRec > 0 /\ d.stot = 0
    BY <1>0, <1>3 DEF BatchFits, DaemonInv
  <2> QED
    BY <1>0, <1>1, <1>2, <1>3, <2>1 DEF DaemonInv, Running, Writing
<1> QED
  BY <1>1, <1>2, <1>4, <1>5, <1>6, PlaceInv

\* Two sequences of records one behind the other.
LEMMA Joined ==
  ASSUME NEW p \in Seq(Nat), NEW q \in Seq(Nat)
  PROVE  /\ p \o q \in Seq(Nat) /\ Len(p \o q) = Len(p) + Len(q)
         /\ \A k \in 1 .. Len(p) : (p \o q)[k] = p[k]
         /\ \A k \in 1 .. Len(q) : (p \o q)[Len(p) + k] = q[k]
         /\ \A k \in 1 .. Len(p \o q) : k \in 1 .. Len(p) \/ \E m \in 1 .. Len(q) : k = Len(p) + m
<1>1. /\ p \o q \in Seq(Nat) /\ Len(p \o q) = Len(p) + Len(q)
      /\ \A k \in 1 .. Len(p) : (p \o q)[k] = p[k]
      /\ \A k \in 1 .. Len(q) : (p \o q)[Len(p) + k] = q[k]
  OBVIOUS
<1>2. ASSUME NEW k \in 1 .. Len(p) + Len(q), k \notin 1 .. Len(p)
      PROVE  \E m \in 1 .. Len(q) : k = Len(p) + m
  <2>1. k - Len(p) \in 1 .. Len(q) /\ k = Len(p) + (k - Len(p))
    BY <1>2
  <2> QED
    BY <2>1
<1> QED
  BY <1>1, <1>2

\* A part of the buffer goes to the log and the rest stays or is dropped.
LEMMA OrderPassed ==
  ASSUME ShadowInv, NEW n \in Nat, n <= Len(d.buf), UNCHANGED <<source, born>>, d'.afd = d.afd,
         log' = log \o SubSeq(d.buf, 1, n), d'.buf \in {SubSeq(d.buf, n + 1, Len(d.buf)), << >>}
  PROVE  OrderInv'
<1> DEFINE recs == SubSeq(d.buf, 1, n)
           rest == SubSeq(d.buf, n + 1, Len(d.buf))
<1>0. OrderInv /\ ShadowTypes
  BY DEF ShadowInv
<1>1. log \in Seq(Nat) /\ d.buf \in Seq(Nat) /\ Len(d.buf) \in Nat /\ Len(log) \in Nat
  BY <1>0, DaemonFields, SMTT(30) DEF ShadowTypes
<1>2. Ascending(d.buf) /\ Ascending(log)
  BY <1>0 DEF OrderInv
<1>3. IsPiece(recs, d.buf, 0, n)
  <2>1. IsPiece(SubSeq(d.buf, 0 + 1, n), d.buf, 0, n)
    BY <1>1, <1>2, PieceOf
  <2> QED
    BY <2>1
<1>4. IsPiece(rest, d.buf, n, Len(d.buf))
  BY <1>1, <1>2, PieceOf
<1> HIDE DEF recs, rest
<1>5. \A k \in 1 .. Len(recs) : recs[k] = d.buf[k] /\ k \in 1 .. Len(d.buf)
  BY <1>3 DEF IsPiece
<1>6. \A k \in 1 .. Len(rest) : rest[k] = d.buf[n + k] /\ n + k \in 1 .. Len(d.buf) /\ n + k \in n + 1 .. Len(d.buf)
  BY <1>4 DEF IsPiece
<1>7. /\ log' \in Seq(Nat) /\ Len(log') = Len(log) + Len(recs) /\ recs \in Seq(Nat)
      /\ \A k \in 1 .. Len(log) : log'[k] = log[k]
      /\ \A k \in 1 .. Len(recs) : log'[Len(log) + k] = recs[k]
      /\ \A k \in 1 .. Len(log') : k \in 1 .. Len(log) \/ \E m \in 1 .. Len(recs) : k = Len(log) + m
  BY <1>1, <1>3, Joined, ZenonT(60) DEF IsPiece, recs
<1>8. \A k \in 1 .. Len(log') : \/ k \in 1 .. Len(log) /\ log'[k] = log[k]
                                \/ \E m \in 1 .. Len(recs) : /\ k = Len(log) + m /\ log'[k] = d.buf[m]
                                                             /\ m \in 1 .. Len(d.buf)
  <2> SUFFICES ASSUME NEW k \in 1 .. Len(log'), k \notin 1 .. Len(log)
               PROVE  \E m \in 1 .. Len(recs) : k = Len(log) + m /\ log'[k] = d.buf[m] /\ m \in 1 .. Len(d.buf)
    BY <1>7
  <2>1. PICK m \in 1 .. Len(recs) : k = Len(log) + m
    BY <1>7
  <2>2. log'[k] = recs[m]
    BY <1>7, <2>1
  <2> QED
    BY <1>5, <2>1, <2>2
<1>9. Ascending(log')
  <2> SUFFICES ASSUME NEW k \in 1 .. Len(log'), NEW m \in 1 .. Len(log'), k < m PROVE log'[k] < log'[m]
    BY DEF Ascending
  <2>1. CASE m \in 1 .. Len(log) /\ log'[m] = log[m]
    <3>1. k \in 1 .. Len(log) /\ log'[k] = log[k]
      BY <1>1, <1>7, <2>1
    <3> QED
      BY <1>2, <2>1, <3>1 DEF Ascending
  <2>2. ASSUME NEW j \in 1 .. Len(recs), m = Len(log) + j, log'[m] = d.buf[j], j \in 1 .. Len(d.buf)
        PROVE  log'[k] < log'[m]
    <3>1. CASE k \in 1 .. Len(log) /\ log'[k] = log[k]
      BY <1>0, <2>2, <3>1 DEF OrderInv
    <3>2. ASSUME NEW h \in 1 .. Len(recs), k = Len(log) + h, log'[k] = d.buf[h], h \in 1 .. Len(d.buf)
          PROVE  log'[k] < log'[m]
      <4>1. h < j
        BY <1>1, <2>2, <3>2
      <4> QED
        BY <1>2, <2>2, <3>2, <4>1 DEF Ascending
    <3> QED
      BY <1>8, <3>1, <3>2
  <2> QED
    BY <1>8, <2>1, <2>2
<1>10. \A k \in 1 .. Len(log') : log'[k] \in 1 .. born
  BY <1>0, <1>8 DEF OrderInv
<1>11. \A m \in d.afd + 1 .. Len(source), k \in 1 .. Len(log') : log'[k] < source[m]
  BY <1>0, <1>8 DEF OrderInv
<1>12. CASE d'.buf = << >>
  <2>1. 1 .. Len(d'.buf) = {}
    BY <1>12
  <2> QED
    BY <1>0, <1>9, <1>10, <1>11, <2>1 DEF OrderInv, Ascending
<1>13. CASE d'.buf = rest
  <2>1. Ascending(rest)
    BY <1>4 DEF IsPiece
  <2>2. \A k \in 1 .. Len(rest) : rest[k] \in 1 .. born
    BY <1>0, <1>6 DEF OrderInv
  <2>3. \A m \in d.afd + 1 .. Len(source), k \in 1 .. Len(rest) : rest[k] < source[m]
    BY <1>0, <1>6 DEF OrderInv
  <2>4. \A k \in 1 .. Len(log'), m \in 1 .. Len(rest) : log'[k] < rest[m]
    <3> SUFFICES ASSUME NEW k \in 1 .. Len(log'), NEW m \in 1 .. Len(rest) PROVE log'[k] < rest[m]
      OBVIOUS
    <3>0. rest[m] = d.buf[n + m] /\ n + m \in 1 .. Len(d.buf) /\ n + m \in n + 1 .. Len(d.buf)
      BY <1>6
    <3>1. CASE k \in 1 .. Len(log) /\ log'[k] = log[k]
      BY <1>0, <3>0, <3>1 DEF OrderInv
    <3>2. ASSUME NEW h \in 1 .. Len(recs), log'[k] = d.buf[h], h \in 1 .. Len(d.buf)
          PROVE  log'[k] < rest[m]
      <4>1. recs[h] < d.buf[n + m]
        BY <1>3, <3>0 DEF IsPiece
      <4> QED
        BY <1>5, <3>0, <3>2, <4>1
    <3> QED
      BY <1>8, <3>1, <3>2
  <2> QED
    BY <1>0, <1>9, <1>10, <1>11, <1>13, <2>1, <2>2, <2>3, <2>4 DEF OrderInv
<1> QED
  BY <1>12, <1>13 DEF rest

\* The newest file gets the records that the log gets (pass2shadow).
LEMMA WriteInv ==
  ASSUME BatchFits, ShadowInv, NEW recs \in Seq(Nat), d.pc \in {"pass", "rest"}, pass2shadow(recs),
         d.stot + Len(recs) <= MaxShadowRec, d'.cur = d.cur, d'.stot = d.stot + Len(recs),
         UNCHANGED <<entry, c>>
  PROVE  FileInv' /\ LogInv' /\ Kept /\ content' \in Seq(Seq(Nat)) /\ log' \in Seq(Nat)
<1> DEFINE f == entry[d.cur]
<1>0. ShadowTypes /\ FileInv /\ LogInv /\ DaemonInv
  BY DEF ShadowInv
<1>1. /\ d.cur \in 0 .. MaxSeq /\ d.cur \in Nat /\ d.stot \in Nat /\ MaxShadowRec \in Nat /\ MaxSeq \in Nat
      /\ content \in Seq(Seq(Nat)) /\ Len(content) \in Nat /\ log \in Seq(Nat) /\ Len(log) \in Nat
      /\ Len(recs) \in Nat
  BY <1>0, Numbers
<1>2. f \in 1 .. Len(content) /\ d.open[d.sfd] = f
  BY <1>0, <1>1, SMTT(30) DEF DaemonInv, Running, Writing, FileInv
<1>3. /\ content[f] \in Seq(Nat) /\ Len(content[f]) = d.stot
      /\ \A k \in 1 .. d.stot : content[f][k] = log[Base(d.cur) + k]
  <2>1. Whole(d.cur)
    <3>1. d.cur \in 0 .. d.cur /\ d.cur \in d.cur .. d.cur /\ entry[d.cur] # 0
      BY <1>1, <1>2
    <3> QED
      BY <1>0, <3>1 DEF LogInv
  <2>2. Held(d.cur) = d.stot
    BY <1>1 DEF Held
  <2> QED
    BY <1>1, <1>2, <2>1, <2>2, Contents DEF Whole
<1>4. content' = [content EXCEPT ![f] = content[f] \o recs] /\ log' = log \o recs
  BY <1>2 DEF pass2shadow
<1> HIDE DEF f
<1>5. /\ content[f] \o recs \in Seq(Nat) /\ Len(content[f] \o recs) = d.stot + Len(recs)
      /\ \A k \in 1 .. d.stot : (content[f] \o recs)[k] = content[f][k]
      /\ \A k \in 1 .. Len(recs) : (content[f] \o recs)[d.stot + k] = recs[k]
  <2>1. content[f] \in Seq(Nat) /\ Len(content[f]) = d.stot
    BY <1>3
  <2>2. /\ content[f] \o recs \in Seq(Nat) /\ Len(content[f] \o recs) = Len(content[f]) + Len(recs)
        /\ \A k \in 1 .. Len(content[f]) : (content[f] \o recs)[k] = content[f][k]
        /\ \A k \in 1 .. Len(recs) : (content[f] \o recs)[Len(content[f]) + k] = recs[k]
    BY <2>1, Joined
  <2> QED
    BY <2>1, <2>2
<1>6. /\ content' \in Seq(Seq(Nat)) /\ Len(content') = Len(content)
      /\ content'[f] = content[f] \o recs
      /\ \A g \in 1 .. Len(content) : g # f => content'[g] = content[g]
  <2>1. f \in 1 .. Len(content) /\ content[f] \o recs \in Seq(Nat)
    BY <1>2, <1>5 DEF f
  <2> QED
    BY <1>1, <1>4, <2>1, ExceptSeq, SMTT(30)
<1>7. /\ log' \in Seq(Nat) /\ Len(log') = Len(log) + Len(recs)
      /\ \A k \in 1 .. Len(log) : log'[k] = log[k]
      /\ \A k \in 1 .. Len(recs) : log'[Len(log) + k] = recs[k]
  BY <1>1, <1>4, Joined
<1>8. FileInv'
  <2>1. \A g \in 1 .. Len(content') : Len(content'[g]) <= MaxShadowRec
    <3> SUFFICES ASSUME NEW g \in 1 .. Len(content) PROVE Len(content'[g]) <= MaxShadowRec
      BY <1>6
    <3>1. CASE g = f
      BY <1>5, <1>6, <3>1
    <3>2. CASE g # f
      BY <1>0, <1>6, <3>2 DEF FileInv
    <3> QED
      BY <3>1, <3>2
  <2> QED
    BY <1>0, <1>6, <2>1 DEF FileInv
<1>9. Len(log) = Base(d.cur) + d.stot /\ Base(d.cur) \in Nat
  BY <1>0, <1>1, BaseFacts DEF LogInv
<1>10. ASSUME NEW t \in 0 .. d.cur, Whole(t) PROVE Whole(t)'
  <2>1. CASE t = d.cur
    <3>1. entry'[t] = f /\ f # 0 /\ Base(t)' = Base(d.cur) /\ Held(t)' = d.stot + Len(recs)
      BY <1>1, <1>2, <2>1 DEF f, Held, Base
    <3>2. ASSUME NEW k \in 1 .. d.stot + Len(recs)
          PROVE  (content[f] \o recs)[k] = log'[Base(d.cur) + k]
      <4>1. CASE k \in 1 .. d.stot
        <5>1. Base(d.cur) + k \in 1 .. Len(log)
          BY <1>1, <1>9, <4>1, SMTT(30)
        <5> QED
          BY <1>3, <1>5, <1>7, <4>1, <5>1
      <4>2. CASE k \notin 1 .. d.stot
        <5>1. k - d.stot \in 1 .. Len(recs) /\ d.stot + (k - d.stot) = k
          BY <1>1, <3>2, <4>2, SMTT(30)
        <5>2. Len(log) + (k - d.stot) = Base(d.cur) + k
          BY <1>1, <1>9
        <5>3. (content[f] \o recs)[d.stot + (k - d.stot)] = recs[k - d.stot]
          BY <1>5, <5>1
        <5>4. log'[Len(log) + (k - d.stot)] = recs[k - d.stot]
          BY <1>7, <5>1
        <5> QED
          BY <5>1, <5>2, <5>3, <5>4
      <4> QED
        BY <4>1, <4>2
    <3> QED
      BY <1>5, <1>6, <3>1, <3>2 DEF Whole
  <2>2. CASE t # d.cur
    <3>1. entry[t] # 0 /\ entry[t] # f /\ entry[t] \in 1 .. Len(content)
      <4>1. entry[t] # 0 /\ t \in 0 .. MaxSeq
        BY <1>1, <1>10 DEF Whole
      <4>2. entry[t] # f
        BY <1>0, <1>1, <2>2, <4>1 DEF FileInv, f
      <4> QED
        BY <1>0, <4>1, <4>2, NamedFile
    <3>2. Held(t)' = Held(t) /\ Base(t)' = Base(t)
      BY <1>1, <2>2 DEF Held, Base
    <3>3. content'[entry[t]] = content[entry[t]]
      BY <1>6, <3>1
    <3>4. \A k \in 1 .. Held(t) : Base(t) + k \in 1 .. Len(log)
      <4>1. Base(t) \in Nat /\ Held(t) \in 0 .. MaxShadowRec /\ Base(t) + Held(t) <= Len(log)
        BY <1>0, WholeInLog
      <4>2. Held(t) \in Nat
        BY <1>1, <4>1
      <4> QED
        BY <1>1, <4>1, <4>2, Shifted
    <3>5. \A k \in 1 .. Held(t) : content[entry[t]][k] = log'[Base(t) + k]
      BY <1>7, <1>10, <3>4 DEF Whole
    <3> QED
      BY <1>10, <3>1, <3>2, <3>3, <3>5 DEF Whole
  <2> QED
    BY <2>1, <2>2
<1>11. LogInv'
  <2>1. Len(log') = Base(d.cur)' + d'.stot
    BY <1>1, <1>7, <1>9, SMTT(30) DEF Base
  <2>2. ASSUME NEW s \in 0 .. d.cur, entry[s] # 0, NEW t \in s .. d.cur PROVE Whole(t)'
    <3>1. t \in 0 .. d.cur
      BY <1>1
    <3> QED
      BY <1>0, <1>10, <2>2, <3>1 DEF LogInv
  <2> QED
    BY <2>1, <2>2 DEF LogInv, Base
<1>12. Kept
  <2>1. ASSUME NEW s \in 0 .. d.cur, entry[s] # 0
        PROVE  Len(content'[entry[s]]) >= Len(content[entry[s]])
    <3>1. entry[s] \in 1 .. Len(content)
      BY <1>0, <1>1, <2>1 DEF FileInv
    <3>2. Len(content[entry[s]]) \in Nat
      BY <1>1, <3>1, Contents
    <3>3. CASE entry[s] = f
      BY <1>1, <1>3, <1>5, <1>6, <3>3
    <3>4. CASE entry[s] # f
      BY <1>6, <3>1, <3>2, <3>4
    <3> QED
      BY <3>3, <3>4
  <2>2. Len(log') >= Len(log) /\ Len(content') >= Len(content) /\ d'.cur >= d.cur
    BY <1>1, <1>6, <1>7
  <2> QED
    BY <1>7, <2>1, <2>2 DEF Kept
<1> QED
  BY <1>6, <1>7, <1>8, <1>11, <1>12

\* The parts of the invariant after a step that keeps the atops.
LEMMA KeptInv ==
  ASSUME BatchFits, ShadowInv, Kept,
         ShadowTypes', FileInv', LogInv', DaemonInv', CurrentInv', OrderInv'
  PROVE  ShadowInv'
BY AtopsKept DEF ShadowInv

\* A file is filled exactly to its maximum, and the rest of the buffer waits
\* for the next one (Pass).
LEMMA PassInv ==
  ASSUME BatchFits, ShadowInv, Pass
  PROVE  ShadowInv'
<1> DEFINE recs == SubSeq(d.buf, 1, Part)
           rest == SubSeq(d.buf, Part + 1, Len(d.buf))
<1>0. ShadowTypes /\ CurrentInv /\ DaemonInv /\ OrderInv
  BY DEF ShadowInv
<1>1. UNCHANGED <<born, on, source, dir, entry, current, c>> /\ d.pc = "pass"
  BY DEF Pass, kernel
<1>2. /\ d.stot \in Nat /\ d.stot < MaxShadowRec /\ MaxShadowRec \in Nat /\ d.buf \in Seq(Nat)
      /\ Len(d.buf) \in Nat /\ 1 <= Len(d.buf) /\ Len(d.buf) <= MaxShadowRec
  <2>1. Len(d.buf) \in 1 .. MaxBatch /\ d.stot < MaxShadowRec
    BY <1>0, <1>1 DEF DaemonInv
  <2>2. MaxBatch \in Nat /\ MaxBatch <= MaxShadowRec /\ MaxShadowRec \in Nat
    BY DEF BatchFits
  <2> QED
    BY <1>0, <2>1, <2>2, Numbers
<1>3. Part \in Nat /\ 1 <= Part /\ Part <= Len(d.buf) /\ d.stot + Part <= MaxShadowRec
  <2>1. Part = IF Len(d.buf) <= MaxShadowRec - d.stot THEN Len(d.buf) ELSE MaxShadowRec - d.stot
    BY <1>2, MinOfTwo, SMTT(30) DEF Part
  <2> QED
    BY <1>2, <2>1
<1>4. current' \in Int /\ current = d.cur
  BY <1>0, <1>1 DEF ShadowTypes, DaemonInv, Running
<1>5. << >> \in Seq(Nat)
  OBVIOUS
<1>6. CASE d' = [d EXCEPT !.pc = "loop", !.buf = <<>>] /\ UNCHANGED <<content, log>>
  <2>1. /\ d' \in DaemonSet /\ d'.cur = d.cur /\ d'.stot = d.stot /\ d'.afd = d.afd
        /\ d'.old = d.old /\ d'.sfd = d.sfd /\ d'.open = d.open /\ d'.buf = << >> /\ d'.pc = "loop"
    BY <1>0, <1>5, <1>6 DEF ShadowTypes, DaemonSet, DaemonLabels
  <2>2. DaemonInv' /\ CurrentInv'
    BY <1>0, <1>1, <2>1 DEF DaemonInv, CurrentInv, Running, Writing
  <2> QED
    BY <1>1, <1>4, <1>6, <2>1, <2>2, PlaceInv
<1>7. CASE /\ pass2shadow(recs)
           /\ d' = [d EXCEPT !.stot = @ + Part,
                             !.pc = IF d.stot + Part >= MaxShadowRec THEN "next" ELSE "loop",
                             !.buf = IF d.stot + Part >= MaxShadowRec
                                     THEN SubSeq(@, Part + 1, Len(@)) ELSE <<>>]
  <2>1. recs \in Seq(Nat) /\ Len(recs) = Part /\ rest \in Seq(Nat) /\ Len(rest) = Len(d.buf) - Part
    <3>1. Ascending(d.buf)
      BY <1>0 DEF OrderInv
    <3>2. IsPiece(SubSeq(d.buf, 0 + 1, Part), d.buf, 0, Part)
      BY <1>2, <1>3, <3>1, PieceOf
    <3>3. IsPiece(rest, d.buf, Part, Len(d.buf))
      BY <1>2, <1>3, <3>1, PieceOf
    <3>4. 0 + 1 = 1 /\ Part - 0 = Part
      BY <1>3
    <3> QED
      BY <3>2, <3>3, <3>4 DEF IsPiece
  <2> HIDE DEF recs, rest
  <2>2. /\ d' \in DaemonSet /\ d'.cur = d.cur /\ d'.afd = d.afd
        /\ d'.old = d.old /\ d'.sfd = d.sfd /\ d'.open = d.open /\ d'.stot = d.stot + Part
        /\ \/ d'.pc = "next" /\ d'.buf = rest /\ d.stot + Part >= MaxShadowRec
           \/ d'.pc = "loop" /\ d'.buf = << >> /\ ~(d.stot + Part >= MaxShadowRec)
    <3>0. d.stot + Part \in 0 .. MaxShadowRec
      BY <1>2, <1>3
    <3>1. CASE d.stot + Part >= MaxShadowRec
      <4>1. d' = [d EXCEPT !.stot = d.stot + Part, !.pc = "next", !.buf = rest]
        BY <1>7, <3>1 DEF rest
      <4> QED
        BY <1>0, <2>1, <3>0, <3>1, <4>1 DEF ShadowTypes, DaemonSet, DaemonLabels
    <3>2. CASE ~(d.stot + Part >= MaxShadowRec)
      <4>1. d' = [d EXCEPT !.stot = d.stot + Part, !.pc = "loop", !.buf = << >>]
        BY <1>7, <3>2
      <4> QED
        BY <1>0, <1>5, <3>0, <3>2, <4>1 DEF ShadowTypes, DaemonSet, DaemonLabels
    <3> QED
      BY <3>1, <3>2
  <2>3. FileInv' /\ LogInv' /\ Kept /\ content' \in Seq(Seq(Nat)) /\ log' \in Seq(Nat)
    BY <1>1, <1>3, <1>7, <2>1, <2>2, WriteInv
  <2>4. ShadowTypes'
    BY <1>0, <1>1, <2>2, <2>3 DEF ShadowTypes
  <2>5. CurrentInv'
    BY <1>1, <1>4, <2>2 DEF CurrentInv
  <2>6. DaemonInv'
    <3>1. CASE d'.pc = "next" /\ d'.buf = rest /\ d.stot + Part >= MaxShadowRec
      <4>1. d'.stot = MaxShadowRec /\ Len(d'.buf) < MaxShadowRec
        <5>1. d.stot + Part = MaxShadowRec
          BY <1>2, <1>3, <3>1
        <5>2. Len(d.buf) - Part < MaxShadowRec
          BY <1>2, <1>3
        <5>3. d'.stot = d.stot + Part /\ Len(d'.buf) = Len(d.buf) - Part
          BY <2>1, <2>2, <3>1
        <5> QED
          BY <5>1, <5>2, <5>3
      <4> QED
        BY <1>0, <1>1, <2>2, <3>1, <4>1 DEF DaemonInv, Running, Writing
    <3>2. CASE d'.pc = "loop" /\ ~(d.stot + Part >= MaxShadowRec)
      <4>1. d'.stot < MaxShadowRec
        BY <1>2, <1>3, <2>2, <3>2
      <4> QED
        BY <1>0, <1>1, <2>2, <3>2, <4>1 DEF DaemonInv, Running, Writing
    <3> QED
      BY <2>2, <3>1, <3>2
  <2>7. OrderInv'
    <3>1. log' = log \o SubSeq(d.buf, 1, Part) /\ d'.buf \in {SubSeq(d.buf, Part + 1, Len(d.buf)), << >>}
      BY <1>7, <2>2 DEF pass2shadow, recs, rest
    <3> QED
      BY <1>1, <1>3, <2>2, <3>1, OrderPassed
  <2> QED
    BY <2>3, <2>4, <2>5, <2>6, <2>7, KeptInv
<1> QED
  BY <1>6, <1>7 DEF Pass

\* The rest of the buffer goes to the new file (PassRest).
LEMMA PassRestInv ==
  ASSUME BatchFits, ShadowInv, PassRest
  PROVE  ShadowInv'
<1>0. ShadowTypes /\ CurrentInv /\ DaemonInv /\ OrderInv
  BY DEF ShadowInv
<1>1. UNCHANGED <<born, on, source, dir, entry, current, c>> /\ d.pc = "rest"
  BY DEF PassRest, kernel
<1>2. /\ d.stot = 0 /\ MaxShadowRec \in Nat /\ d.buf \in Seq(Nat)
      /\ Len(d.buf) \in Nat /\ Len(d.buf) < MaxShadowRec
  BY <1>0, <1>1, Numbers DEF DaemonInv
<1>3. current' \in Int /\ current = d.cur
  BY <1>0, <1>1 DEF ShadowTypes, DaemonInv, Running
<1>4. << >> \in Seq(Nat)
  OBVIOUS
<1>5. CASE d' = [d EXCEPT !.buf = <<>>, !.pc = "loop"] /\ UNCHANGED <<content, log>>
  <2>1. /\ d' \in DaemonSet /\ d'.cur = d.cur /\ d'.stot = d.stot /\ d'.afd = d.afd
        /\ d'.old = d.old /\ d'.sfd = d.sfd /\ d'.open = d.open /\ d'.buf = << >> /\ d'.pc = "loop"
    BY <1>0, <1>4, <1>5 DEF ShadowTypes, DaemonSet, DaemonLabels
  <2>2. d.stot < MaxShadowRec
    BY <1>2
  <2>3. DaemonInv' /\ CurrentInv'
    BY <1>0, <1>1, <2>1, <2>2 DEF DaemonInv, CurrentInv, Running, Writing
  <2> QED
    BY <1>1, <1>3, <1>5, <2>1, <2>3, PlaceInv
<1>6. CASE pass2shadow(d.buf) /\ d' = [d EXCEPT !.stot = @ + Len(d.buf), !.buf = <<>>, !.pc = "loop"]
  <2>1. /\ d' \in DaemonSet /\ d'.cur = d.cur /\ d'.stot = d.stot + Len(d.buf) /\ d'.afd = d.afd
        /\ d'.old = d.old /\ d'.sfd = d.sfd /\ d'.open = d.open /\ d'.buf = << >> /\ d'.pc = "loop"
    <3>1. d.stot + Len(d.buf) \in 0 .. MaxShadowRec
      BY <1>2
    <3> QED
      BY <1>0, <1>4, <1>6, <3>1 DEF ShadowTypes, DaemonSet, DaemonLabels
  <2>2. d.stot + Len(d.buf) <= MaxShadowRec /\ d'.stot < MaxShadowRec
    BY <1>2, <2>1
  <2>3. FileInv' /\ LogInv' /\ Kept /\ content' \in Seq(Seq(Nat)) /\ log' \in Seq(Nat)
    BY <1>1, <1>2, <1>6, <2>1, <2>2, WriteInv
  <2>4. ShadowTypes'
    BY <1>0, <1>1, <2>1, <2>3 DEF ShadowTypes
  <2>5. CurrentInv'
    BY <1>1, <1>3, <2>1 DEF CurrentInv
  <2>6. DaemonInv'
    BY <1>0, <1>1, <2>1, <2>2 DEF DaemonInv, Running, Writing
  <2>7. OrderInv'
    <3>1. SubSeq(d.buf, 1, Len(d.buf)) = d.buf
      BY <1>2
    <3>2. log' = log \o SubSeq(d.buf, 1, Len(d.buf)) /\ Len(d.buf) <= Len(d.buf)
      BY <1>2, <1>6, <3>1 DEF pass2shadow
    <3> QED
      BY <1>1, <1>2, <2>1, <3>2, OrderPassed
  <2> QED
    BY <2>3, <2>4, <2>5, <2>6, <2>7, KeptInv
<1> QED
  BY <1>5, <1>6 DEF PassRest

\* createshadow: the lowest free descriptor is the one that main knows, and the
\* file of the name is empty and has no other name.
LEMMA ReopenedFacts ==
  ASSUME BatchFits, ShadowInv, Running, NEW s \in 0 .. MaxSeq
  PROVE  /\ Reopened(s).open \in [1 .. 2 -> Nat] /\ Reopened(s).open[1] = Reopened(s).ino
         /\ Reopened(s).open[2] = 0
         /\ Reopened(s).ino # 0
         /\ Reopened(s).ino = IF entry[s] = 0 THEN Len(content) + 1 ELSE entry[s]
         /\ Reopened(s).content = IF entry[s] = 0 THEN Append(content, <<>>)
                                  ELSE [content EXCEPT ![entry[s]] = <<>>]
<1>0. ShadowTypes /\ DaemonInv /\ FileInv
  BY DEF ShadowInv
<1> DEFINE closed == [d.open EXCEPT ![d.sfd] = 0]
           low == CHOOSE f \in 1 .. 2 : closed[f] = 0 /\ \A g \in 1 .. 2 : closed[g] = 0 => f <= g
           ino == IF entry[s] = 0 THEN Len(content) + 1 ELSE entry[s]
<1>1. d.sfd = 1 /\ d.open[2] = 0 /\ d.open \in [1 .. 2 -> Nat]
  BY <1>0, DaemonFields DEF DaemonInv
<1>2. closed \in [1 .. 2 -> Nat] /\ closed[1] = 0 /\ closed[2] = 0
  BY <1>1
<1>3. low = 1
  <2>1. \A f \in 1 .. 2 : closed[f] = 0
    BY <1>2
  <2>2. 1 \in 1 .. 2 /\ \A g \in 1 .. 2 : 1 <= g
    OBVIOUS
  <2>3. \A f \in 1 .. 2 : (\A g \in 1 .. 2 : f <= g) => f = 1
    OBVIOUS
  <2> HIDE DEF closed
  <2> QED
    BY <2>1, <2>2, <2>3
<1>4. ino \in Nat \ {0}
  <2>1. Len(content) \in Nat
    BY <1>0, Numbers
  <2>2. entry[s] \in Nat
    BY <1>0 DEF ShadowTypes
  <2> QED
    BY <2>1, <2>2
<1>5. /\ Reopened(s).open = [closed EXCEPT ![low] = ino] /\ Reopened(s).ino = ino
      /\ Reopened(s).content = IF entry[s] = 0 THEN Append(content, <<>>) ELSE [content EXCEPT ![ino] = <<>>]
  BY DEF Reopened
<1>6. [closed EXCEPT ![1] = ino] \in [1 .. 2 -> Nat] /\ [closed EXCEPT ![1] = ino][1] = ino
      /\ [closed EXCEPT ![1] = ino][2] = 0
  <2> HIDE DEF closed, ino
  <2> QED
    BY <1>2, <1>4
<1> QED
  BY <1>3, <1>4, <1>5, <1>6

\* What a name with an empty file does to the files.
LEMMA CreatedFiles ==
  ASSUME BatchFits, ShadowTypes, FileInv, NEW s \in 0 .. MaxSeq, NEW ino,
         ino = IF entry[s] = 0 THEN Len(content) + 1 ELSE entry[s],
         entry' = [entry EXCEPT ![s] = ino],
         content' = IF entry[s] = 0 THEN Append(content, <<>>) ELSE [content EXCEPT ![entry[s]] = <<>>]
  PROVE  /\ FileInv' /\ entry' \in [0 .. MaxSeq -> Nat] /\ content' \in Seq(Seq(Nat))
         /\ Len(content') >= Len(content) /\ entry'[s] = ino /\ ino # 0 /\ content'[ino] = << >>
         /\ \A t \in 0 .. MaxSeq : t # s => /\ entry'[t] = entry[t]
                                            /\ entry[t] # 0 => content'[entry[t]] = content[entry[t]]
<1>1. /\ MaxSeq \in Nat /\ content \in Seq(Seq(Nat)) /\ Len(content) \in Nat /\ MaxShadowRec \in Nat
      /\ entry \in [0 .. MaxSeq -> Nat]
  BY Numbers DEF ShadowTypes
<1>2. /\ content' \in Seq(Seq(Nat)) /\ Len(content') \in Nat /\ Len(content') >= Len(content)
      /\ ino \in 1 .. Len(content') /\ content'[ino] = << >>
      /\ \A g \in 1 .. Len(content') : g # ino => g \in 1 .. Len(content) /\ content'[g] = content[g]
      /\ \A g \in 1 .. Len(content) : g # ino => content'[g] = content[g]
  <2>0. << >> \in Seq(Nat)
    OBVIOUS
  <2>1. CASE entry[s] = 0
    <3>1. content' = Append(content, <<>>) /\ ino = Len(content) + 1
      BY <2>1
    <3>2. /\ content' \in Seq(Seq(Nat)) /\ Len(content') = Len(content) + 1
          /\ content'[Len(content) + 1] = << >>
          /\ \A g \in 1 .. Len(content) : content'[g] = content[g]
      BY <1>1, <2>0, <3>1
    <3>3. \A g \in 1 .. Len(content) + 1 : g # Len(content) + 1 => g \in 1 .. Len(content)
      BY <1>1
    <3> QED
      BY <1>1, <3>1, <3>2, <3>3
  <2>2. CASE entry[s] # 0
    <3>1. ino \in 1 .. Len(content) /\ ino = entry[s]
      BY <2>2, NamedFile
    <3>2. content' = [content EXCEPT ![ino] = << >>]
      BY <2>2, <3>1
    <3>3. /\ content' \in Seq(Seq(Nat)) /\ Len(content') = Len(content) /\ content'[ino] = << >>
          /\ \A g \in 1 .. Len(content) : g # ino => content'[g] = content[g]
      BY <1>1, <2>0, <3>1, <3>2, ExceptSeq
    <3> QED
      BY <1>1, <3>1, <3>3
  <2> QED
    BY <2>1, <2>2
<1>3. ino \in Nat \ {0}
  BY <1>2
<1>4. entry' \in [0 .. MaxSeq -> Nat] /\ entry'[s] = ino /\ \A t \in 0 .. MaxSeq : t # s => entry'[t] = entry[t]
  BY <1>1, <1>3
<1>5. ASSUME NEW t \in 0 .. MaxSeq, t # s, entry[t] # 0
      PROVE  entry[t] # ino /\ entry[t] \in 1 .. Len(content)
  <2>1. entry[t] \in 1 .. Len(content)
    BY <1>5, NamedFile
  <2>2. entry[t] # Len(content) + 1
    BY <1>1, <2>1
  <2>3. entry[s] # 0 => entry[t] # entry[s]
    BY <1>5 DEF FileInv
  <2> QED
    BY <2>1, <2>2, <2>3
<1>6. FileInv'
  <2>1. ASSUME NEW t \in 0 .. MaxSeq PROVE entry'[t] \in 0 .. Len(content')
    <3>1. CASE t = s
      BY <1>2, <1>4, <3>1
    <3>2. CASE t # s
      <4>1. entry[t] \in 0 .. Len(content) /\ entry'[t] = entry[t]
        BY <1>4, <3>2 DEF FileInv
      <4> QED
        BY <1>1, <1>2, <4>1
    <3> QED
      BY <3>1, <3>2
  <2>2. ASSUME NEW t \in 0 .. MaxSeq, NEW u \in 0 .. MaxSeq, entry'[t] = entry'[u], entry'[t] # 0
        PROVE  t = u
    BY <1>4, <1>5, <2>2 DEF FileInv
  <2>3. ASSUME NEW g \in 1 .. Len(content') PROVE Len(content'[g]) <= MaxShadowRec
    <3>1. CASE g = ino
      <4>1. Len(content'[g]) = 0
        BY <1>2, <3>1
      <4> QED
        BY <1>1, <4>1
    <3>2. CASE g # ino
      BY <1>2, <3>2 DEF FileInv
    <3> QED
      BY <3>1, <3>2
  <2> QED
    BY <2>1, <2>2, <2>3 DEF FileInv
<1> QED
  BY <1>2, <1>3, <1>4, <1>5, <1>6

\* The next shadow file begins where the log ends (NextFile).
LEMMA NextFileInv ==
  ASSUME BatchFits, ShadowInv, NextFile
  PROVE  ShadowInv'
<1>0. ShadowTypes /\ FileInv /\ LogInv /\ DaemonInv /\ OrderInv
  BY DEF ShadowInv
<1>1a. PICK s \in Nat : s = d.cur + 1
  BY <1>0, Numbers
<1> DEFINE r == Reopened(s)
<1>1. /\ UNCHANGED <<born, on, source, dir, current, c, log>> /\ d.pc = "next" /\ d.cur < MaxSeq
      /\ entry' = [entry EXCEPT ![s] = r.ino] /\ content' = r.content
      /\ d' = [d EXCEPT !.cur = s, !.stot = 0, !.open = r.open, !.pc = "wipe"]
  BY <1>1a DEF NextFile, createshadow, kernel
<1>2. /\ d.cur \in Nat /\ MaxSeq \in Nat /\ MaxShadowRec \in Nat /\ MaxShadowRec >= 1 /\ Len(log) \in Nat
      /\ Len(content) \in Nat /\ s \in 0 .. MaxSeq /\ Base(d.cur) \in Nat
  BY <1>0, <1>1a, <1>1, Numbers
<1>3. /\ d.sfd = 1 /\ d.old <= d.cur /\ dir /\ current = d.cur /\ d.stot = MaxShadowRec
      /\ Len(d.buf) < MaxShadowRec
      /\ \A t \in 0 .. d.old - 1 : entry[t] = 0
  BY <1>0, <1>1 DEF DaemonInv, Running
<1>4. /\ r.open \in [1 .. 2 -> Nat] /\ r.open[1] = r.ino /\ r.open[2] = 0 /\ r.ino # 0
      /\ r.ino = IF entry[s] = 0 THEN Len(content) + 1 ELSE entry[s]
      /\ r.content = IF entry[s] = 0 THEN Append(content, <<>>) ELSE [content EXCEPT ![entry[s]] = <<>>]
  BY <1>1, <1>2, ReopenedFacts DEF Running
<1> HIDE DEF r
<1>5. /\ FileInv' /\ entry' \in [0 .. MaxSeq -> Nat] /\ content' \in Seq(Seq(Nat))
      /\ Len(content') >= Len(content) /\ entry'[s] = r.ino /\ content'[r.ino] = << >>
      /\ \A t \in 0 .. MaxSeq : t # s => /\ entry'[t] = entry[t]
                                         /\ entry[t] # 0 => content'[entry[t]] = content[entry[t]]
  BY <1>0, <1>1, <1>2, <1>4, CreatedFiles
<1>6. /\ d' \in DaemonSet /\ d'.cur = s /\ d'.stot = 0 /\ d'.open = r.open /\ d'.pc = "wipe"
      /\ d'.buf = d.buf /\ d'.afd = d.afd /\ d'.old = d.old /\ d'.sfd = d.sfd
  <2>1. d \in DaemonSet /\ 0 \in 0 .. MaxShadowRec /\ s \in 0 .. MaxSeq /\ r.open \in [1 .. 2 -> Nat]
    BY <1>0, <1>2, <1>4 DEF ShadowTypes
  <2>2. d' = [d EXCEPT !.cur = s, !.stot = 0, !.open = r.open, !.pc = "wipe"]
    BY <1>1
  <2> QED
    BY <2>1, <2>2 DEF DaemonSet, DaemonLabels
<1>7. ShadowTypes'
  BY <1>0, <1>1, <1>5, <1>6 DEF ShadowTypes
<1>8. \A t \in 0 .. d.cur : t \in 0 .. MaxSeq /\ t # s /\ t < s /\ t \in Nat
  BY <1>1a, <1>2
<1>9. ASSUME NEW t \in 0 .. d.cur, Whole(t) PROVE Whole(t)'
  <2>1. Held(t) = MaxShadowRec
    BY <1>3 DEF Held
  <2>2. Held(t)' = MaxShadowRec
    BY <1>6, <1>8 DEF Held
  <2> QED
    BY <1>1, <1>5, <1>8, <1>9, <2>1, <2>2 DEF Whole, Base
<1>10. Whole(s)'
  <2>1. Held(s)' = 0
    BY <1>1a, <1>2, <1>6 DEF Held
  <2>2. entry'[s] # 0 /\ content'[entry'[s]] = << >>
    BY <1>4, <1>5
  <2>3. Len(content'[entry'[s]]) = 0 /\ 1 .. 0 = {}
    BY <2>2
  <2> QED
    BY <2>1, <2>2, <2>3 DEF Whole
<1>11. LogInv'
  <2>1. Len(log') = Base(d'.cur) + d'.stot
    <3>1. Base(s) = Base(d.cur) + MaxShadowRec
      BY <1>1a, <1>2, BaseFacts
    <3>2. Len(log) = Base(d.cur) + MaxShadowRec
      BY <1>0, <1>3 DEF LogInv
    <3>3. log' = log /\ d'.cur = s /\ d'.stot = 0 /\ Base(s) = Base(s) + 0
      BY <1>1, <1>2, <1>6, <3>1
    <3> QED
      BY <3>1, <3>2, <3>3
  <2>2. ASSUME NEW u \in 0 .. s, entry'[u] # 0, NEW t \in u .. s PROVE Whole(t)'
    <3>1. CASE t = s
      BY <1>10, <3>1
    <3>2. CASE t # s
      <4>1. t \in 0 .. d.cur /\ u \in 0 .. d.cur /\ t \in u .. d.cur
        BY <1>1a, <1>2, <3>2
      <4>2. entry[u] # 0
        BY <1>5, <1>8, <2>2, <4>1
      <4> QED
        BY <1>0, <1>9, <4>1, <4>2 DEF LogInv
    <3> QED
      BY <3>1, <3>2
  <2> QED
    BY <1>6, <2>1, <2>2 DEF LogInv, Base
<1>12. DaemonInv'
  <2>1. d.old <= s /\ d.old \in Nat
    BY <1>1a, <1>0, <1>2, <1>3, Numbers
  <2>2. \A t \in 0 .. d.old - 1 : t \in 0 .. d.cur
    BY <1>2, <1>3, <2>1
  <2>3. \A t \in 0 .. d.old - 1 : entry'[t] = 0
    BY <1>3, <1>5, <1>8, <2>2
  <2> QED
    BY <1>1, <1>3, <1>4, <1>5, <1>6, <2>1, <2>3 DEF DaemonInv, Running, Writing
<1>13. CurrentInv'
  <2>1. current' = d'.cur - 1
    BY <1>1a, <1>1, <1>2, <1>3, <1>6
  <2> QED
    BY <1>6, <2>1 DEF CurrentInv
<1>14. OrderInv'
  BY <1>0, <1>1, <1>6 DEF OrderInv
<1>15. Kept
  <2>1. \A t \in 0 .. d.cur : entry[t] # 0 => Len(content'[entry[t]]) >= Len(content[entry[t]])
    <3> SUFFICES ASSUME NEW t \in 0 .. d.cur, entry[t] # 0
                 PROVE  Len(content'[entry[t]]) >= Len(content[entry[t]])
      OBVIOUS
    <3>1. Len(content[entry[t]]) \in Nat
      BY <1>0, <1>8, NamedFile
    <3>2. content'[entry[t]] = content[entry[t]]
      BY <1>5, <1>8
    <3> QED
      BY <3>1, <3>2
  <2>2. d'.cur >= d.cur /\ Len(log') >= Len(log)
    BY <1>1a, <1>1, <1>2, <1>6
  <2>3. \A t \in 0 .. d.cur : entry'[t] = entry[t]
    BY <1>5, <1>8
  <2> QED
    BY <1>1, <1>5, <2>1, <2>2, <2>3 DEF Kept
<1> QED
  BY <1>5, <1>7, <1>11, <1>12, <1>13, <1>14, <1>15, KeptInv

\* After a reset the first file is empty again, and so is the log (Recreate).
LEMMA RecreateInv ==
  ASSUME BatchFits, ShadowInv, Recreate
  PROVE  ShadowInv'
<1> DEFINE r == Reopened(0)
<1>0. ShadowTypes /\ FileInv /\ DaemonInv /\ OrderInv
  BY DEF ShadowInv
<1>1. /\ UNCHANGED <<born, on, source, dir, current>> /\ d.pc = "recreate" /\ log' = << >>
      /\ entry' = [entry EXCEPT ![0] = r.ino] /\ content' = r.content
      /\ d' = [d EXCEPT !.cur = 0, !.stot = 0, !.open = r.open, !.busy = FALSE, !.pc = "wipe"]
      /\ c' = [a \in Clients |-> [c[a] EXCEPT !.stray = a \in Claimed]]
  BY DEF Recreate, kernel
<1>2. 0 \in 0 .. MaxSeq /\ MaxShadowRec \in Nat /\ MaxShadowRec >= 1 /\ 0 \in 0 .. MaxShadowRec
  BY <1>0, Numbers
<1>3. d.sfd = 1 /\ d.old = 0 /\ dir /\ d.buf = << >>
  BY <1>0, <1>1 DEF DaemonInv, Running
<1>4. /\ r.open \in [1 .. 2 -> Nat] /\ r.open[1] = r.ino /\ r.open[2] = 0 /\ r.ino # 0
      /\ r.ino = IF entry[0] = 0 THEN Len(content) + 1 ELSE entry[0]
      /\ r.content = IF entry[0] = 0 THEN Append(content, <<>>) ELSE [content EXCEPT ![entry[0]] = <<>>]
  BY <1>1, <1>2, ReopenedFacts DEF Running
<1> HIDE DEF r
<1>5. /\ FileInv' /\ entry' \in [0 .. MaxSeq -> Nat] /\ content' \in Seq(Seq(Nat))
      /\ Len(content') >= Len(content) /\ entry'[0] = r.ino /\ content'[r.ino] = << >>
  BY <1>0, <1>1, <1>2, <1>4, CreatedFiles
<1>6. /\ d' \in DaemonSet /\ d'.cur = 0 /\ d'.stot = 0 /\ d'.open = r.open /\ d'.pc = "wipe"
      /\ d'.buf = d.buf /\ d'.afd = d.afd /\ d'.old = d.old /\ d'.sfd = d.sfd
  BY <1>0, <1>1, <1>2, <1>4 DEF ShadowTypes, DaemonSet, DaemonLabels
<1>7. ShadowTypes'
  <2>1. c' \in [Clients -> AtopSet]
    BY <1>0, <1>1, StrayedTypes
  <2>2. log' \in Seq(Nat)
    BY <1>1
  <2> QED
    BY <1>0, <1>1, <1>5, <1>6, <2>1, <2>2 DEF ShadowTypes
<1>8. LogInv'
  <2>1. Len(log') = Base(d'.cur) + d'.stot
    <3>1. Len(log') = 0 /\ Base(0) = 0
      BY <1>1, BaseFacts
    <3> QED
      BY <1>6, <3>1
  <2>2. Whole(0)'
    <3>1. Held(0)' = 0 /\ Len(content'[entry'[0]]) = 0 /\ 1 .. 0 = {}
      BY <1>5, <1>6 DEF Held
    <3> QED
      BY <1>4, <1>5, <3>1 DEF Whole
  <2>3. \A u \in 0 .. 0 : \A t \in u .. 0 : t = 0
    OBVIOUS
  <2> QED
    BY <1>6, <2>1, <2>2, <2>3 DEF LogInv, Base
<1>9. DaemonInv'
  <2>1. Len(d'.buf) < MaxShadowRec /\ 0 .. 0 - 1 = {}
    BY <1>2, <1>3, <1>6
  <2> QED
    BY <1>1, <1>3, <1>4, <1>5, <1>6, <2>1 DEF DaemonInv, Running, Writing
<1>10. CurrentInv'
  BY <1>6 DEF CurrentInv
<1>11. OrderInv'
  <2>1. 1 .. Len(log') = {}
    BY <1>1
  <2> QED
    BY <1>0, <1>1, <1>6, <2>1 DEF OrderInv, Ascending
<1>12. \A a \in Clients : AtopInv(a)'
  BY <1>1, <1>5, <1>7, AtopsStrayed
<1> QED
  BY <1>5, <1>7, <1>8, <1>9, <1>10, <1>11, <1>12 DEF ShadowInv

\* gcshadows removes files from the oldest on, and none that is locked.
LEMMA GcFiles ==
  ASSUME BatchFits, ShadowInv, Running, NEW upto \in Nat, upto <= d.cur + 1, gcshadows(upto),
         UNCHANGED <<content, log, c>>, d'.cur = d.cur, d'.stot = d.stot
  PROVE  /\ FileInv' /\ LogInv' /\ Kept /\ entry' \in [0 .. MaxSeq -> Nat]
         /\ \A s \in 0 .. MaxSeq : entry'[s] = IF s \in Removable(upto) THEN 0 ELSE entry[s]
<1>0. ShadowTypes /\ FileInv /\ LogInv /\ DaemonInv
  BY DEF ShadowInv
<1>1. /\ d.cur \in Nat /\ d.cur <= MaxSeq /\ MaxSeq \in Nat /\ d.old \in Nat
      /\ Len(content) \in Nat /\ Len(log) \in Nat /\ entry \in [0 .. MaxSeq -> Nat]
  BY <1>0, Numbers DEF ShadowTypes
<1>2. /\ entry' \in [0 .. MaxSeq -> Nat]
      /\ \A s \in 0 .. MaxSeq : entry'[s] = IF s \in Removable(upto) THEN 0 ELSE entry[s]
  BY <1>1 DEF gcshadows
<1>3. FileInv'
  <2>1. \A s \in 0 .. MaxSeq : entry'[s] # 0 => entry'[s] = entry[s]
    BY <1>2
  <2>2. ASSUME NEW s \in 0 .. MaxSeq PROVE entry'[s] \in 0 .. Len(content)
    <3>1. entry[s] \in 0 .. Len(content) /\ 0 \in 0 .. Len(content)
      BY <1>0, <1>1 DEF FileInv
    <3> QED
      BY <1>2, <3>1
  <2>3. \A s, t \in 0 .. MaxSeq : entry'[s] = entry'[t] /\ entry'[s] # 0 => s = t
    BY <1>0, <2>1 DEF FileInv
  <2> QED
    BY <1>0, <2>2, <2>3 DEF FileInv
<1>4. \A s \in 0 .. d.cur : s \in 0 .. MaxSeq
  BY <1>1
<1>5. ASSUME NEW s \in 0 .. d.cur, NEW t \in s .. d.cur, entry'[s] # 0 PROVE Whole(t)'
  <2>1. entry[s] # 0 /\ s \notin Removable(upto) /\ t \in 0 .. d.cur /\ t \in Nat /\ s \in Nat /\ s <= t
    BY <1>1, <1>2, <1>4, <1>5
  <2>2. Whole(t)
    BY <1>0, <2>1 DEF LogInv
  <2>3. s >= d.old
    BY <1>0, <1>1, <2>1 DEF DaemonInv
  <2>4. t \notin Removable(upto)
    <3> SUFFICES ASSUME t \in Removable(upto) PROVE FALSE
      OBVIOUS
    <3>1. /\ t \in d.old .. upto - 1
          /\ \A u \in d.old .. t : u \in DOMAIN entry /\ entry[u] \notin {0} \union Locked
      BY DEF Removable
    <3>2. s \in d.old .. upto - 1 /\ \A u \in d.old .. s : u \in d.old .. t
      BY <1>1, <2>1, <2>3, <3>1
    <3>3. s \in Removable(upto)
      BY <3>1, <3>2 DEF Removable
    <3> QED
      BY <2>1, <3>3
  <2>5. entry'[t] = entry[t]
    BY <1>2, <1>4, <2>1, <2>4
  <2> QED
    BY <2>2, <2>5 DEF Whole, Held, Base
<1>6. LogInv'
  <2>1. Len(log') = Base(d'.cur) + d'.stot
    BY <1>0 DEF LogInv
  <2> QED
    BY <1>5, <2>1 DEF LogInv, Base
<1>7. Kept
  <2>1. ASSUME NEW s \in 0 .. d.cur
        PROVE  /\ entry'[s] \in {0, entry[s]}
               /\ entry[s] \in Locked => entry'[s] = entry[s]
               /\ entry[s] # 0 => Len(content'[entry[s]]) >= Len(content[entry[s]])
    <3>1. entry'[s] \in {0, entry[s]}
      BY <1>2, <1>4
    <3>2. ASSUME entry[s] \in Locked PROVE s \notin Removable(upto)
      <4>1. s \in Removable(upto) => s \in d.old .. s
        BY <1>1 DEF Removable
      <4> QED
        BY <3>2, <4>1 DEF Removable
    <3>3. entry[s] # 0 => Len(content[entry[s]]) \in Nat
      BY <1>0, <1>4, NamedFile
    <3>4. entry[s] # 0 => Len(content'[entry[s]]) >= Len(content[entry[s]])
      BY <3>3
    <3> QED
      BY <1>2, <1>4, <3>1, <3>2, <3>4
  <2>2. d'.cur >= d.cur /\ Len(content') >= Len(content) /\ Len(log') >= Len(log)
    BY <1>1
  <2> QED
    BY <2>1, <2>2 DEF Kept
<1> QED
  BY <1>2, <1>3, <1>6, <1>7

\* The last atop has gone: the files go as well (Reset).
LEMMA ResetInv ==
  ASSUME BatchFits, ShadowInv, Reset
  PROVE  ShadowInv'
<1>0. ShadowTypes /\ CurrentInv /\ DaemonInv /\ OrderInv
  BY DEF ShadowInv
<1>1. /\ UNCHANGED <<born, on, source, dir, content, current, c, log>> /\ d.pc = "reset"
      /\ gcshadows(d.cur + 1) /\ d' = [d EXCEPT !.old = 0, !.pc = "recreate"]
  BY DEF Reset, kernel
<1>2. /\ d' \in DaemonSet /\ d'.cur = d.cur /\ d'.stot = d.stot /\ d'.open = d.open /\ d'.pc = "recreate"
      /\ d'.buf = d.buf /\ d'.afd = d.afd /\ d'.old = 0 /\ d'.sfd = d.sfd
  BY <1>0, <1>1 DEF ShadowTypes, DaemonSet, DaemonLabels
<1>3. FileInv' /\ LogInv' /\ Kept /\ entry' \in [0 .. MaxSeq -> Nat]
  <2>1. d.cur + 1 \in Nat /\ d.cur + 1 <= d.cur + 1 /\ Running
    BY <1>0, <1>1, Numbers DEF Running
  <2> QED
    BY <1>1, <1>2, <2>1, GcFiles
<1>4. ShadowTypes'
  BY <1>0, <1>1, <1>2, <1>3 DEF ShadowTypes
<1>5. DaemonInv'
  <2>1. d.cur \in Nat /\ 0 .. 0 - 1 = {}
    BY <1>0, Numbers
  <2> QED
    BY <1>0, <1>1, <1>2, <2>1 DEF DaemonInv, Running, Writing
<1>6. CurrentInv' /\ OrderInv'
  BY <1>0, <1>1, <1>2 DEF CurrentInv, OrderInv
<1> QED
  BY <1>3, <1>4, <1>5, <1>6, KeptInv

\* The files that gcshadows removes follow each other.
LEMMA RemovableRange ==
  ASSUME BatchFits, ShadowInv, Running
  PROVE  /\ Cardinality(Removable(d.cur)) \in Nat /\ d.old + Cardinality(Removable(d.cur)) <= d.cur
         /\ Removable(d.cur) = d.old .. d.old + Cardinality(Removable(d.cur)) - 1
<1> DEFINE S == {s \in d.old .. d.cur : s \notin Removable(d.cur)}
<1>0. ShadowTypes /\ DaemonInv
  BY DEF ShadowInv
<1>1. d.cur \in Nat /\ d.old \in Nat /\ d.old <= d.cur
  BY <1>0, Numbers DEF DaemonInv
<1>2. d.cur \in S /\ S \in SUBSET Nat
  <2>1. d.cur \notin d.old .. d.cur - 1 /\ d.cur \in d.old .. d.cur
    BY <1>1
  <2> QED
    BY <1>1, <2>1 DEF Removable
<1>3. PICK m \in S : \A k \in S : m <= k
  BY <1>2, SmallestElement
<1>4. m \in Nat /\ d.old <= m /\ m <= d.cur /\ m \notin Removable(d.cur)
  BY <1>1, <1>3
<1>5. ASSUME NEW s \in d.old .. m - 1 PROVE s \in Removable(d.cur)
  <2>1. s \in d.old .. d.cur /\ ~(m <= s)
    BY <1>1, <1>4
  <2> QED
    BY <1>3, <2>1
<1>6. ASSUME NEW s \in Removable(d.cur) PROVE s \in d.old .. m - 1
  <2>1. /\ s \in d.old .. d.cur - 1
        /\ \A u \in d.old .. s : u \in DOMAIN entry /\ entry[u] \notin {0} \union Locked
    BY <1>6 DEF Removable
  <2>2. CASE m <= s
    <3>1. m \in d.old .. d.cur - 1 /\ \A u \in d.old .. m : u \in d.old .. s
      BY <1>1, <1>4, <2>1, <2>2
    <3>2. m \in Removable(d.cur)
      BY <2>1, <3>1 DEF Removable
    <3> QED
      BY <1>4, <3>2
  <2>3. CASE ~(m <= s)
    BY <1>1, <1>4, <2>1, <2>3
  <2> QED
    BY <2>2, <2>3
<1>7. Removable(d.cur) = d.old .. m - 1
  BY <1>5, <1>6
<1>8. Cardinality(d.old .. m - 1) = m - d.old
  <2>1. d.old \in Int /\ m - 1 \in Int
    BY <1>1, <1>4
  <2>2. Cardinality(d.old .. m - 1) = IF d.old > m - 1 THEN 0 ELSE (m - 1) - d.old + 1
    BY <2>1, FS_Interval
  <2> QED
    BY <1>1, <1>4, <2>2
<1>9. d.old + (m - d.old) = m /\ m - d.old \in Nat /\ m <= d.cur
  BY <1>1, <1>4
<1>10. Cardinality(Removable(d.cur)) = m - d.old
  BY <1>7, <1>8
<1>11. Removable(d.cur) = d.old .. d.old + Cardinality(Removable(d.cur)) - 1
  <2>1. PICK n \in Nat : n = Cardinality(Removable(d.cur)) /\ d.old + n = m
    BY <1>9, <1>10
  <2>2. d.old + n - 1 = m - 1
    BY <1>1, <2>1
  <2> QED
    BY <1>7, <2>1, <2>2
<1>12. Cardinality(Removable(d.cur)) \in Nat /\ d.old + Cardinality(Removable(d.cur)) <= d.cur
  BY <1>9, <1>10
<1> QED
  BY <1>11, <1>12

\* The garbage collection of the main loop (Collect).
LEMMA CollectInv ==
  ASSUME BatchFits, ShadowInv, Collect
  PROVE  ShadowInv'
<1> DEFINE many == Cardinality(Removable(d.cur))
<1>0. ShadowTypes /\ CurrentInv /\ DaemonInv /\ OrderInv
  BY DEF ShadowInv
<1>1. /\ UNCHANGED <<born, on, source, dir, content, current, c, log>> /\ d.pc = "loop"
      /\ gcshadows(d.cur) /\ d' = [d EXCEPT !.old = d.old + many]
  BY DEF Collect, kernel
<1>2. /\ many \in Nat /\ d.old + many <= d.cur /\ Removable(d.cur) = d.old .. d.old + many - 1
      /\ d.old \in Nat /\ d.cur \in Nat /\ d.cur <= MaxSeq /\ MaxSeq \in Nat
  BY <1>0, <1>1, RemovableRange, Numbers DEF Running
<1> HIDE DEF many
<1>3. /\ d' \in DaemonSet /\ d'.cur = d.cur /\ d'.stot = d.stot /\ d'.open = d.open /\ d'.pc = d.pc
      /\ d'.buf = d.buf /\ d'.afd = d.afd /\ d'.old = d.old + many /\ d'.sfd = d.sfd
  <2>1. d \in DaemonSet /\ d.old + many \in Nat
    BY <1>0, <1>2 DEF ShadowTypes
  <2> QED
    BY <1>1, <2>1 DEF DaemonSet
<1>4. /\ FileInv' /\ LogInv' /\ Kept /\ entry' \in [0 .. MaxSeq -> Nat]
      /\ \A s \in 0 .. MaxSeq : entry'[s] = IF s \in Removable(d.cur) THEN 0 ELSE entry[s]
  <2>1. d.cur <= d.cur + 1 /\ Running
    BY <1>1, <1>2 DEF Running
  <2> QED
    BY <1>1, <1>2, <1>3, <2>1, GcFiles
<1>5. ShadowTypes'
  BY <1>0, <1>1, <1>3, <1>4 DEF ShadowTypes
<1>6. DaemonInv'
  <2>1. ASSUME NEW s \in 0 .. d.old + many - 1 PROVE entry'[s] = 0
    <3>1. s \in 0 .. MaxSeq
      BY <1>2
    <3>2. CASE s \in Removable(d.cur)
      BY <1>4, <3>1, <3>2
    <3>3. CASE s \notin Removable(d.cur)
      <4>1. s \in 0 .. d.old - 1
        BY <1>2, <3>3
      <4> QED
        BY <1>0, <1>1, <1>4, <3>1, <3>3, <4>1 DEF DaemonInv, Running
    <3> QED
      BY <3>2, <3>3
  <2>2. entry'[d.cur] = entry[d.cur]
    <3>1. d.cur \in 0 .. MaxSeq /\ d.cur \notin d.old .. d.old + many - 1
      BY <1>2
    <3> QED
      BY <1>2, <1>4, <3>1
  <2> QED
    BY <1>0, <1>1, <1>2, <1>3, <2>1, <2>2, SMTT(30) DEF DaemonInv, Running, Writing
<1>7. CurrentInv' /\ OrderInv'
  BY <1>0, <1>1, <1>3 DEF CurrentInv, OrderInv
<1> QED
  BY <1>4, <1>5, <1>6, <1>7, KeptInv

\* The end of main removes the files it knows of (Stop).
LEMMA StopInv ==
  ASSUME BatchFits, ShadowInv, Stop
  PROVE  ShadowInv'
<1>0. ShadowTypes /\ FileInv /\ LogInv /\ DaemonInv /\ OrderInv
  BY DEF ShadowInv
<1>1. /\ UNCHANGED <<born, content, log>> /\ d.pc = "loop" /\ on' = FALSE /\ source' = << >>
      /\ entry' = [s \in DOMAIN entry |-> IF s \in d.old .. d.cur THEN 0 ELSE entry[s]]
      /\ current' = NoFile /\ dir' \in BOOLEAN /\ d' = [d EXCEPT !.pc = "stopped"]
      /\ c' = [a \in Clients |-> [c[a] EXCEPT !.stray = a \in Claimed]]
  BY DEF Stop
<1>2. /\ d.cur \in Nat /\ d.cur <= MaxSeq /\ MaxSeq \in Nat /\ d.old \in Nat
      /\ Len(content) \in Nat /\ entry \in [0 .. MaxSeq -> Nat]
  BY <1>0, Numbers DEF ShadowTypes
<1>3. /\ entry' \in [0 .. MaxSeq -> Nat]
      /\ \A s \in 0 .. MaxSeq : entry'[s] = IF s \in d.old .. d.cur THEN 0 ELSE entry[s]
  BY <1>1, <1>2
<1>4. /\ d' \in DaemonSet /\ d'.pc = "stopped" /\ d'.cur = d.cur /\ d'.stot = d.stot
      /\ d'.buf = d.buf /\ d'.afd = d.afd
  BY <1>0, <1>1 DEF ShadowTypes, DaemonSet, DaemonLabels
<1>5. ShadowTypes'
  <2>1. source' \in Seq(Nat) /\ current' \in Int
    BY <1>1 DEF NoFile
  <2>2. c' \in [Clients -> AtopSet]
    BY <1>0, <1>1, StrayedTypes
  <2> QED
    BY <1>0, <1>1, <1>3, <1>4, <2>1, <2>2 DEF ShadowTypes
<1>6. FileInv'
  <2>1. \A s \in 0 .. MaxSeq : entry'[s] # 0 => entry'[s] = entry[s]
    BY <1>3
  <2>2. ASSUME NEW s \in 0 .. MaxSeq PROVE entry'[s] \in 0 .. Len(content)
    <3>1. entry[s] \in 0 .. Len(content) /\ 0 \in 0 .. Len(content)
      BY <1>0, <1>2 DEF FileInv
    <3> QED
      BY <1>3, <3>1
  <2>3. \A s, t \in 0 .. MaxSeq : entry'[s] = entry'[t] /\ entry'[s] # 0 => s = t
    BY <1>0, <2>1 DEF FileInv
  <2> QED
    BY <1>0, <1>1, <2>2, <2>3 DEF FileInv
<1>7. ASSUME NEW s \in 0 .. d.cur PROVE entry'[s] = 0
  <2>1. s \in 0 .. MaxSeq
    BY <1>2
  <2>2. CASE s \in d.old .. d.cur
    BY <1>3, <2>1, <2>2
  <2>3. CASE s \notin d.old .. d.cur
    <3>1. s \in 0 .. d.old - 1
      BY <1>2, <2>3
    <3> QED
      BY <1>0, <1>1, <1>3, <2>1, <2>3, <3>1 DEF DaemonInv, Running
  <2> QED
    BY <2>2, <2>3
<1>8. LogInv'
  <2>1. Len(log') = Base(d'.cur) + d'.stot
    BY <1>0, <1>1, <1>4 DEF LogInv
  <2> QED
    BY <1>4, <1>7, <2>1 DEF LogInv, Base
<1>9. DaemonInv' /\ CurrentInv'
  BY <1>1, <1>4 DEF DaemonInv, CurrentInv, NoFile, Running, Writing
<1>10. OrderInv'
  <2>1. 1 .. Len(source') = {} /\ d.afd + 1 .. Len(source') = {}
    <3>1. Len(source') = 0 /\ d.afd \in Nat
      BY <1>0, <1>1, DaemonFields
    <3> QED
      BY <3>1
  <2> QED
    BY <1>0, <1>1, <1>4, <2>1 DEF OrderInv, Ascending
<1>11. \A a \in Clients : AtopInv(a)'
  <2>1. Len(content') >= Len(content)
    BY <1>1, <1>2
  <2> QED
    BY <1>1, <1>5, <2>1, AtopsStrayed
<1> QED
  BY <1>5, <1>6, <1>8, <1>9, <1>10, <1>11 DEF ShadowInv

\* A new daemon begins with one new file and an empty log (Start).
LEMMA StartInv ==
  ASSUME BatchFits, ShadowInv, Start
  PROVE  ShadowInv'
<1>0. ShadowTypes /\ FileInv /\ OrderInv
  BY DEF ShadowInv
<1>1. CASE dir
  <2>1. /\ d' = [d EXCEPT !.pc = "off"] /\ source' = <<>> /\ on' = FALSE
        /\ UNCHANGED <<born, files, current, c, log>>
    BY <1>1 DEF Start
  <2> QED
    BY <2>1, DieInv
<1>2. CASE ~dir
  <2>1. PICK ino \in Nat : ino = Len(content) + 1
    BY <1>0, Numbers
  <2>2. PICK works \in BOOLEAN :
          /\ on' = works
          /\ d' = [Daemon0 EXCEPT !.pc = IF works THEN "loop" ELSE "off", !.sfd = 1,
                                  !.open = [f \in 1 .. 2 |-> IF f = 1 THEN Len(content) + 1 ELSE 0]]
    BY <1>2 DEF Start
  <2>3. /\ born' = born /\ source' = <<>> /\ dir' = TRUE
        /\ entry' = [NoEntry EXCEPT ![0] = ino] /\ content' = Append(content, <<>>)
        /\ current' = 0 /\ log' = << >>
        /\ c' = [a \in Clients |-> [c[a] EXCEPT !.stray = a \in Claimed]]
    BY <1>2, <2>1 DEF Start
  <2>4. /\ MaxSeq \in Nat /\ MaxShadowRec \in Nat /\ MaxShadowRec >= 1 /\ Len(content) \in Nat
        /\ content \in Seq(Seq(Nat)) /\ 0 \in 0 .. MaxSeq /\ 0 \in 0 .. MaxShadowRec
    BY <1>0, Numbers
  <2>5. [f \in 1 .. 2 |-> IF f = 1 THEN ino ELSE 0] \in [1 .. 2 -> Nat]
    OBVIOUS
  <2>6. /\ d' \in DaemonSet /\ d'.pc \in {"loop", "off"} /\ d'.sfd = 1 /\ d'.cur = 0 /\ d'.old = 0
        /\ d'.stot = 0 /\ d'.buf = << >> /\ d'.afd = 0 /\ d'.open[1] = ino /\ d'.open[2] = 0
    <3>1. << >> \in Seq(Nat) /\ 1 \in 0 .. 2
      OBVIOUS
    <3>2. PICK pc1 \in {"loop", "off"} :
            d' = [pc |-> pc1, afd |-> 0, sfd |-> 1, open |-> [f \in 1 .. 2 |-> IF f = 1 THEN ino ELSE 0],
                  cur |-> 0, old |-> 0, busy |-> FALSE, stot |-> 0, atot |-> 0, buf |-> <<>>]
      BY <2>1, <2>2 DEF Daemon0
    <3> QED
      BY <2>4, <2>5, <3>1, <3>2 DEF DaemonSet, DaemonLabels
  <2>7. /\ entry' \in [0 .. MaxSeq -> Nat] /\ entry'[0] = ino
        /\ \A s \in 0 .. MaxSeq : s # 0 => entry'[s] = 0
    BY <2>3, <2>4 DEF NoEntry
  <2>8. /\ content' \in Seq(Seq(Nat)) /\ Len(content') = ino /\ content'[ino] = << >>
        /\ \A g \in 1 .. Len(content) : content'[g] = content[g]
    <3>1. << >> \in Seq(Nat)
      OBVIOUS
    <3> QED
      BY <2>1, <2>3, <2>4, <3>1
  <2>9. ShadowTypes'
    <3>1. source' \in Seq(Nat) /\ log' \in Seq(Nat) /\ current' \in Int
      BY <2>3
    <3>2. c' \in [Clients -> AtopSet]
      BY <1>0, <2>3, StrayedTypes
    <3> QED
      BY <1>0, <2>2, <2>3, <2>6, <2>7, <2>8, <3>1, <3>2 DEF ShadowTypes
  <2>10. FileInv'
    <3>1. ASSUME NEW g \in 1 .. Len(content') PROVE Len(content'[g]) <= MaxShadowRec
      <4>1. CASE g = ino
        <5>1. Len(content'[g]) = 0
          BY <2>8, <4>1
        <5> QED
          BY <2>4, <5>1
      <4>2. CASE g # ino
        <5>1. g \in 1 .. Len(content)
          BY <2>1, <2>4, <2>8, <4>2
        <5> QED
          BY <1>0, <2>8, <5>1 DEF FileInv
      <4> QED
        BY <4>1, <4>2
    <3>2. \A s \in 0 .. MaxSeq : entry'[s] \in 0 .. Len(content')
      BY <2>7, <2>8
    <3>3. \A s, t \in 0 .. MaxSeq : entry'[s] = entry'[t] /\ entry'[s] # 0 => s = t
      BY <2>7
    <3> QED
      BY <3>1, <3>2, <3>3 DEF FileInv
  <2>11. LogInv'
    <3>1. Len(log') = Base(d'.cur) + d'.stot
      <4>1. Len(log') = 0 /\ Base(0) = 0
        BY <2>3, BaseFacts
      <4> QED
        BY <2>6, <4>1
    <3>2. Whole(0)'
      <4>1. Held(0)' = 0
        BY <2>6 DEF Held
      <4>2. entry'[0] # 0 /\ Len(content'[entry'[0]]) = 0 /\ 1 .. 0 = {}
        BY <2>1, <2>4, <2>7, <2>8
      <4> QED
        BY <4>1, <4>2 DEF Whole
    <3>3. \A u \in 0 .. 0 : \A t \in u .. 0 : t = 0
      OBVIOUS
    <3> QED
      BY <2>6, <3>1, <3>2, <3>3 DEF LogInv, Base
  <2>12. DaemonInv'
    <3>1. entry'[0] = ino /\ ino # 0 /\ 0 .. 0 - 1 = {} /\ 0 < MaxShadowRec /\ 0 <= 0
      BY <2>1, <2>4, <2>7
    <3> QED
      BY <2>3, <2>6, <3>1 DEF DaemonInv, Running, Writing
  <2>13. CurrentInv'
    BY <2>3, <2>6 DEF CurrentInv
  <2>14. OrderInv'
    <3>1. /\ 1 .. Len(source') = {} /\ d'.afd + 1 .. Len(source') = {}
          /\ 1 .. Len(log') = {} /\ 1 .. Len(d'.buf) = {}
      <4>1. Len(source') = 0 /\ Len(log') = 0 /\ Len(d'.buf) = 0
        BY <2>3, <2>6
      <4> QED
        BY <2>6, <4>1
    <3> QED
      BY <3>1 DEF OrderInv, Ascending
  <2>15. \A a \in Clients : AtopInv(a)'
    <3>1. Len(content') >= Len(content)
      BY <2>1, <2>4, <2>8
    <3> QED
      BY <2>3, <2>9, <3>1, AtopsStrayed
  <2> QED
    BY <2>9, <2>10, <2>11, <2>12, <2>13, <2>14, <2>15 DEF ShadowInv
<1> QED
  BY <1>1, <1>2

---------------------------------------------------------------------------
(* The steps of an atop.                                                     *)

\* The invariant of an atop, as a property of its record.
LinkedAs(r) == r.seq <= d.cur /\ entry[r.seq] = r.ino
SpotOf(r) == Base(r.seq) + r.acctsize
PlacedAs(r) ==
  /\ LinkedAs(r) /\ r.acctsize \in 0 .. Len(content[r.ino]) /\ r.off = r.acctsize
  /\ r.got # 0 => \E k \in 1 .. SpotOf(r) : r.got = log[k]
  /\ r.pc = "on" /\ r.got # 0 => r.got = log[SpotOf(r)]
  /\ r.pc = "sample" =>
        /\ r.n >= 1 /\ SpotOf(r) + r.n <= Len(log)
        /\ r.acctsize <= r.size /\ r.size <= Len(content[r.ino])
        /\ r.size < MaxShadowRec => r.n <= r.size - r.acctsize
Sound(r) ==
  /\ r.pc \in {"vers", "lock", "on", "sample"} => r.ino \in 1 .. Len(content)
  /\ r.pc \in {"lock", "on", "sample"} => r.acctsize >= 0 /\ r.off >= 0
  /\ r.pc = "sample" => r.n >= 1 /\ r.size <= MaxShadowRec
  /\ r.pc \in {"vers", "lock"} /\ ~r.stray => r.seq <= d.cur
  /\ r.pc \in {"claimed", "open", "vers"} => r.acctsize = 0
  /\ r.pc = "lock" /\ ~r.stray /\ LinkedAs(r) /\ r.acctsize <= MaxShadowRec =>
        /\ r.acctsize \in 1 .. Len(content[r.ino]) /\ r.off = r.acctsize
        /\ r.got = log[SpotOf(r)]
  /\ r.pc \in Connected /\ ~r.stray => PlacedAs(r)

\* A step of one atop leaves all else alone.
LEMMA AtopStep ==
  ASSUME ShadowInv, NEW a \in Clients, NEW r \in AtopSet, Become(a, r), AtopOnly, Sound(r)
  PROVE  ShadowInv'
<1>1. UNCHANGED <<born, on, source, dir, entry, content, current, d, log>>
  BY DEF AtopOnly, kernel, files
<1>2. c \in [Clients -> AtopSet] /\ c' = [c EXCEPT ![a] = r]
  BY DEF ShadowInv, ShadowTypes, Become
<1>3. ShadowTypes'
  BY <1>1, <1>2 DEF ShadowInv, ShadowTypes
<1>4. FileInv' /\ CurrentInv' /\ OrderInv'
  BY <1>1 DEF ShadowInv, FileInv, CurrentInv, OrderInv
<1>5. LogInv'
  BY <1>1 DEF ShadowInv, LogInv, Whole, Held, Base
<1>6. DaemonInv'
  BY <1>1 DEF ShadowInv, DaemonInv, Running
<1>7. ASSUME NEW b \in Clients, b # a PROVE AtopInv(b)'
  <2>1. AtopInv(b) /\ c'[b] = c[b]
    BY <1>2, <1>7 DEF ShadowInv
  <2> QED
    BY <1>1, <2>1 DEF AtopInv, AtopPlaced, Linked, Spot, Base, Regular
<1>8. AtopInv(a)'
  <2>1. c'[a] = r
    BY <1>2
  <2>2. LinkedAs(r) => Linked(a)'
    BY <1>1, <2>1 DEF LinkedAs, Linked
  <2>3. Linked(a)' => LinkedAs(r)
    BY <1>1, <2>1 DEF LinkedAs, Linked
  <2>4. Spot(a)' = SpotOf(r)
    BY <1>1, <2>1 DEF SpotOf, Spot, Base
  <2>5. PlacedAs(r) => AtopPlaced(a)'
    BY <1>1, <2>1, <2>2, <2>4 DEF PlacedAs, AtopPlaced
  <2>6. (a \in Regular)' => r.pc \in Connected /\ ~r.stray
    BY <2>1 DEF Regular
  <2> QED
    BY <1>1, <2>1, <2>3, <2>4, <2>5, <2>6 DEF Sound, AtopInv
<1> QED
  BY <1>3, <1>4, <1>5, <1>6, <1>7, <1>8 DEF ShadowInv

\* The invariant gives it back.
LEMMA AtopIsSound ==
  ASSUME ShadowInv, NEW a \in Clients
  PROVE  Sound(c[a]) /\ c[a] \in AtopSet
<1>1. AtopInv(a) /\ c[a] \in AtopSet
  BY DEF ShadowInv, ShadowTypes
<1>2. AtopPlaced(a) => PlacedAs(c[a])
  BY DEF PlacedAs, AtopPlaced, LinkedAs, Linked, SpotOf, Spot
<1>3. c[a].pc \in Connected /\ ~c[a].stray => a \in Regular
  BY DEF Regular
<1>4. (LinkedAs(c[a]) => Linked(a)) /\ Spot(a) = SpotOf(c[a])
  BY DEF LinkedAs, Linked, SpotOf, Spot
<1> QED
  BY <1>1, <1>2, <1>3, <1>4 DEF Sound, AtopInv

\* The greatest number of a set within a range.
LEMMA MaxOfRange ==
  ASSUME NEW x \in Nat, NEW k \in Nat, NEW S \in SUBSET (x + 1 .. x + k), S # {}
  PROVE  Max(S) \in S /\ \A y \in S : Max(S) >= y
<1> DEFINE T == {j \in Nat : (x + k) - j \in S}
<1>1. T \in SUBSET Nat /\ T # {}
  <2>1. PICK y \in S : TRUE
    OBVIOUS
  <2>2. y \in Int /\ (x + k) - y \in Nat /\ (x + k) - ((x + k) - y) = y
    OBVIOUS
  <2> QED
    BY <2>1, <2>2
<1>2. PICK j \in T : \A m \in T : j <= m
  BY <1>1, SmallestElement
<1>3. (x + k) - j \in S /\ \A y \in S : (x + k) - j >= y
  <2>1. ASSUME NEW y \in S PROVE (x + k) - j >= y
    <3>1. y \in Int /\ (x + k) - y \in Nat /\ (x + k) - ((x + k) - y) = y
      OBVIOUS
    <3>2. (x + k) - y \in T
      BY <3>1
    <3>3. j <= (x + k) - y /\ j \in Nat
      BY <1>2, <3>2
    <3> QED
      BY <3>1, <3>3
  <2> QED
    BY <1>2, <2>1
<1> QED
  BY <1>3 DEF Max

\* An atop's record, field by field.
Rec(loc, seq, ino, off, done, all, n, got, stray) ==
  [pc |-> loc, seq |-> seq, ino |-> ino, off |-> off, acctsize |-> done, size |-> all,
   n |-> n, got |-> got, stray |-> stray]

\* switchshadow goes on by k files: to the last one of them that is there.
LEMMA SwitchFacts ==
  ASSUME BatchFits, ShadowInv, NEW r \in AtopSet, r.ino \in 1 .. Len(content), NEW k \in Nat
  PROVE  /\ switchshadow(r, k) \in AtopSet /\ switchshadow(r, k).seq = r.seq + k
         /\ switchshadow(r, k).ino \in 1 .. Len(content)
         /\ switchshadow(r, k).pc = r.pc /\ switchshadow(r, k).acctsize = r.acctsize
         /\ switchshadow(r, k).n = r.n /\ switchshadow(r, k).got = r.got
         /\ switchshadow(r, k).stray = r.stray /\ switchshadow(r, k).size = r.size
         /\ switchshadow(r, k).off \in {r.off, 0}
         /\ r.seq + k <= d.cur /\ entry[r.seq] = r.ino =>
              /\ switchshadow(r, k).ino = entry[r.seq + k]
              /\ switchshadow(r, k).off = IF k = 0 THEN r.off ELSE 0
<1> DEFINE found == {s \in r.seq + 1 .. r.seq + k : There(s)}
<1>0. ShadowTypes /\ FileInv /\ LogInv
  BY DEF ShadowInv
<1>1. r.seq \in Nat /\ r.off \in Int /\ r.ino \in Nat
  BY DEF AtopSet
<1>2. Len(content) \in Nat /\ MaxSeq \in Nat /\ DOMAIN entry = 0 .. MaxSeq /\ d.cur \in Nat /\ d.cur <= MaxSeq
  BY <1>0, Numbers DEF ShadowTypes
<1>3. found # {} => Max(found) \in found /\ \A y \in found : Max(found) >= y
  <2>1. found \in SUBSET (r.seq + 1 .. r.seq + k)
    OBVIOUS
  <2> HIDE DEF found
  <2> QED
    BY <1>1, <2>1, MaxOfRange
<1>4. found # {} => entry[Max(found)] \in 1 .. Len(content) /\ Max(found) \in r.seq + 1 .. r.seq + k
  <2> SUFFICES ASSUME found # {}
               PROVE  entry[Max(found)] \in 1 .. Len(content) /\ Max(found) \in r.seq + 1 .. r.seq + k
    OBVIOUS
  <2>1. PICK m \in found : m = Max(found)
    BY <1>3
  <2>2. m \in 0 .. MaxSeq /\ entry[m] # 0 /\ m \in r.seq + 1 .. r.seq + k
    BY <1>2, <2>1 DEF There
  <2>3. entry[m] \in 1 .. Len(content)
    BY <1>0, <2>2, NamedFile
  <2> QED
    BY <2>1, <2>2, <2>3
<1>5. switchshadow(r, k) = IF found = {} THEN [r EXCEPT !.seq = r.seq + k]
                           ELSE [r EXCEPT !.seq = r.seq + k, !.ino = entry[Max(found)], !.off = 0]
  BY DEF switchshadow
<1>6. ASSUME r.seq + k <= d.cur, entry[r.seq] = r.ino, k # 0
      PROVE  found # {} /\ Max(found) = r.seq + k
  <2>1. r.seq \in 0 .. d.cur /\ r.seq + k \in r.seq .. d.cur /\ r.seq + k \in r.seq + 1 .. r.seq + k
    BY <1>1, <1>2, <1>6
  <2>2. entry[r.seq] # 0
    BY <1>2, <1>6
  <2>3. Whole(r.seq + k)
    BY <1>0, <2>1, <2>2 DEF LogInv
  <2>4. r.seq + k \in 0 .. MaxSeq
    BY <1>1, <1>2, <1>6
  <2>5. r.seq + k \in found
    BY <1>2, <2>1, <2>3, <2>4 DEF There, Whole
  <2>6. Max(found) >= r.seq + k /\ Max(found) \in r.seq + 1 .. r.seq + k
    BY <1>3, <1>4, <2>5
  <2> HIDE DEF found
  <2> QED
    BY <1>1, <2>5, <2>6
<1>7. ASSUME k = 0 PROVE found = {} /\ r.seq + k = r.seq
  BY <1>1, <1>7
<1> HIDE DEF found
<1>8. r.seq + k \in Nat /\ r \in AtopSet
  BY <1>1
<1>9. CASE found = {}
  <2>1. switchshadow(r, k) = [r EXCEPT !.seq = r.seq + k]
    BY <1>5, <1>9
  <2>2. /\ switchshadow(r, k) \in AtopSet /\ switchshadow(r, k).seq = r.seq + k
        /\ switchshadow(r, k).ino = r.ino /\ switchshadow(r, k).off = r.off
        /\ switchshadow(r, k).pc = r.pc /\ switchshadow(r, k).acctsize = r.acctsize
        /\ switchshadow(r, k).n = r.n /\ switchshadow(r, k).got = r.got
        /\ switchshadow(r, k).stray = r.stray /\ switchshadow(r, k).size = r.size
    BY <1>8, <2>1 DEF AtopSet
  <2> QED
    BY <1>6, <1>7, <1>9, <2>2
<1>10. CASE found # {}
  <2>0. PICK ino \in 1 .. Len(content) : ino = entry[Max(found)]
    BY <1>4, <1>10
  <2>1. switchshadow(r, k) = [r EXCEPT !.seq = r.seq + k, !.ino = ino, !.off = 0] /\ ino \in Nat
    BY <1>2, <1>5, <1>10, <2>0
  <2>2. /\ switchshadow(r, k) \in AtopSet /\ switchshadow(r, k).seq = r.seq + k
        /\ switchshadow(r, k).ino = ino /\ switchshadow(r, k).off = 0
        /\ switchshadow(r, k).pc = r.pc /\ switchshadow(r, k).acctsize = r.acctsize
        /\ switchshadow(r, k).n = r.n /\ switchshadow(r, k).got = r.got
        /\ switchshadow(r, k).stray = r.stray /\ switchshadow(r, k).size = r.size
    <3>1. PICK x \in Nat : x = r.seq + k
      BY <1>8
    <3>2. switchshadow(r, k) = Rec(r.pc, x, ino, 0, r.acctsize, r.size, r.n, r.got, r.stray)
      BY <2>1, <3>1 DEF AtopSet, Rec
    <3>3. /\ r.pc \in AtopLabels /\ r.acctsize \in Int /\ r.size \in Nat /\ r.n \in Int
          /\ r.got \in Nat /\ r.stray \in BOOLEAN /\ ino \in Nat
      BY <2>1 DEF AtopSet
    <3>4. PICK q : q = switchshadow(r, k)
      OBVIOUS
    <3>5. q \in AtopSet
      BY <3>1, <3>2, <3>3, <3>4 DEF Rec, AtopSet
    <3>6. /\ q.seq = x /\ q.ino = ino /\ q.off = 0
          /\ q.pc = r.pc /\ q.acctsize = r.acctsize /\ q.n = r.n /\ q.got = r.got
          /\ q.stray = r.stray /\ q.size = r.size
      BY <3>2, <3>4 DEF Rec
    <3> QED
      BY <3>1, <3>4, <3>5, <3>6
  <2>3. ASSUME r.seq + k <= d.cur, entry[r.seq] = r.ino
        PROVE  ino = entry[r.seq + k] /\ k # 0
    BY <1>6, <1>7, <1>10, <2>0, <2>3
  <2> QED
    BY <2>0, <2>2, <2>3
<1> QED
  BY <1>9, <1>10

\* An atop that holds no file has nothing to keep.
LEMMA NothingHeld ==
  ASSUME NEW r \in AtopSet, r.pc \in {"off", "none", "claimed", "open", "lost"},
         r.pc \in {"claimed", "open"} => r.acctsize = 0
  PROVE  Sound(r)
BY DEF Sound, Connected

\* Records of the start of an atop.
LEMMA ClientTypes ==
  /\ Client0 \in AtopSet /\ Client0.pc = "off"
  /\ [Client0 EXCEPT !.pc = "none"] \in AtopSet /\ [Client0 EXCEPT !.pc = "none"].pc = "none"
  /\ [Client0 EXCEPT !.pc = "claimed"] \in AtopSet /\ [Client0 EXCEPT !.pc = "claimed"].pc = "claimed"
  /\ [Client0 EXCEPT !.pc = "claimed"].acctsize = 0
<1>1. Client0 \in AtopSet
  BY DEF Client0, AtopSet, AtopLabels
<1>2. [Client0 EXCEPT !.pc = "none"] \in AtopSet
  BY <1>1 DEF AtopSet, AtopLabels
<1>3. [Client0 EXCEPT !.pc = "claimed"] \in AtopSet
  BY <1>1 DEF AtopSet, AtopLabels
<1>4. /\ Client0.pc = "off" /\ [Client0 EXCEPT !.pc = "none"].pc = "none"
      /\ [Client0 EXCEPT !.pc = "claimed"].pc = "claimed"
  BY DEF Client0
<1>5. [Client0 EXCEPT !.pc = "claimed"].acctsize = 0
  BY DEF Client0
<1> QED
  BY <1>1, <1>2, <1>3, <1>4, <1>5

\* acctswon claims a place; at its end an atop gives it back.
LEMMA ClaimInv ==
  ASSUME ShadowInv, NEW a \in Clients, Claim(a) \/ Leave(a)
  PROVE  ShadowInv'
<1>1. CASE Claim(a)
  <2>1. Become(a, [Client0 EXCEPT !.pc = "claimed"]) /\ AtopOnly
    BY <1>1 DEF Claim
  <2> QED
    BY <2>1, ClientTypes, NothingHeld, AtopStep
<1>2. CASE Leave(a)
  <2>1. Become(a, Client0) /\ AtopOnly
    BY <1>2 DEF Leave
  <2> QED
    BY <2>1, ClientTypes, NothingHeld, AtopStep
<1> QED
  BY <1>1, <1>2

\* It reads the file "current".
LEMMA ReadCurrentInv ==
  ASSUME ShadowInv, NEW a \in Clients, ReadCurrent(a)
  PROVE  ShadowInv'
<1>0. ShadowTypes /\ Sound(c[a]) /\ c[a] \in AtopSet /\ current \in Int /\ AtopOnly /\ c[a].pc = "claimed"
  BY AtopIsSound DEF ShadowInv, ShadowTypes, ReadCurrent
<1>1. CASE current < 0
  <2>1. Become(a, [Client0 EXCEPT !.pc = "none"])
    BY <1>1 DEF ReadCurrent
  <2> QED
    BY <1>0, <2>1, ClientTypes, NothingHeld, AtopStep
<1>2. CASE ~(current < 0)
  <2>1. PICK s \in Nat : s = current
    BY <1>0, <1>2
  <2>2. PICK r : r = [c[a] EXCEPT !.seq = s, !.pc = "open"]
    OBVIOUS
  <2>3. Become(a, r)
    BY <1>2, <2>1, <2>2 DEF ReadCurrent
  <2>4. r \in AtopSet /\ r.pc = "open" /\ r.acctsize = c[a].acctsize
    BY <1>0, <2>2 DEF AtopSet, AtopLabels
  <2>5. r.acctsize = 0
    BY <1>0, <2>4 DEF Sound
  <2> QED
    BY <1>0, <2>3, <2>4, <2>5, NothingHeld, AtopStep
<1> QED
  BY <1>1, <1>2

\* It opens the file of that number, which may be another than the newest now.
LEMMA OpenInv ==
  ASSUME BatchFits, ShadowInv, NEW a \in Clients, Open(a)
  PROVE  ShadowInv'
<1>0. ShadowTypes /\ Sound(c[a]) /\ c[a] \in AtopSet /\ AtopOnly /\ c[a].pc = "open" /\ FileInv
  BY AtopIsSound DEF ShadowInv, Open
<1>1. CASE ~There(c[a].seq)
  <2>1. Become(a, [Client0 EXCEPT !.pc = "none"])
    BY <1>1 DEF Open
  <2> QED
    BY <1>0, <2>1, ClientTypes, NothingHeld, AtopStep
<1>2. CASE There(c[a].seq)
  <2>0. c[a].seq \in 0 .. MaxSeq /\ entry[c[a].seq] # 0
    BY <1>0, <1>2 DEF There, ShadowTypes
  <2>1. PICK f \in 1 .. Len(content) : f = entry[c[a].seq]
    BY <1>0, <2>0, NamedFile
  <2>2. PICK x \in BOOLEAN : x = (c[a].stray \/ c[a].seq > d.cur)
    OBVIOUS
  <2>3. PICK r : r = [c[a] EXCEPT !.ino = f, !.pc = "vers", !.stray = x]
    OBVIOUS
  <2>4. Become(a, r)
    BY <1>2, <2>1, <2>2, <2>3 DEF Open
  <2>5. f \in Nat /\ f \in 1 .. Len(content)
    BY <1>0, <2>1, Numbers
  <2>6. r \in AtopSet
    BY <1>0, <2>3, <2>5 DEF AtopSet, AtopLabels
  <2>7. r.pc = "vers" /\ r.ino = f /\ r.stray = x /\ r.seq = c[a].seq /\ r.acctsize = c[a].acctsize
    BY <1>0, <2>3 DEF AtopSet
  <2>8. ~x => c[a].seq <= d.cur
    <3>1. PICK s \in Nat : s = c[a].seq
      BY <1>0 DEF AtopSet
    <3>2. PICK m \in Nat : m = d.cur
      BY <1>0, Numbers
    <3>3. ~x => ~(s > m)
      BY <2>2, <3>1, <3>2
    <3>4. ~x => s <= m
      BY <3>3
    <3> QED
      BY <3>1, <3>2, <3>4
  <2>9. Sound(r)
    BY <1>0, <2>5, <2>7, <2>8 DEF Sound, Connected
  <2> QED
    BY <1>0, <2>4, <2>6, <2>9, AtopStep
<1> QED
  BY <1>1, <1>2

\* The files between two of them.
LEMMA Gap ==
  ASSUME BatchFits, NEW x \in Nat, NEW y \in Nat, y < x
  PROVE  /\ (x - y - 1) * MaxShadowRec \in Nat
         /\ Base(y) + MaxShadowRec + (x - y - 1) * MaxShadowRec = Base(x)
         /\ x # y + 1 => (x - y - 1) * MaxShadowRec >= MaxShadowRec
<1>0. MaxShadowRec \in Nat
  BY DEF BatchFits
<1>1. PICK g \in Nat : g = x - y - 1
  OBVIOUS
<1>2. x = y + (1 + g) /\ g * MaxShadowRec \in Nat /\ (x # y + 1 => g >= 1)
  BY <1>0, <1>1
<1>3. (y + (1 + g)) * MaxShadowRec = y * MaxShadowRec + MaxShadowRec + g * MaxShadowRec
  BY <1>0
<1>4. g >= 1 => g * MaxShadowRec >= MaxShadowRec
  <2>1. ASSUME g >= 1 PROVE g * MaxShadowRec >= MaxShadowRec
    <3>1. PICK h \in Nat : g = 1 + h
      <4>1. g = 1 + (g - 1) /\ g - 1 \in Nat
        BY <2>1
      <4> QED
        BY <4>1
    <3>2. (1 + h) * MaxShadowRec = MaxShadowRec + h * MaxShadowRec /\ h * MaxShadowRec \in Nat
      BY <1>0
    <3> QED
      BY <1>0, <3>1, <3>2
  <2> QED
    BY <2>1
<1> QED
  BY <1>0, <1>1, <1>2, <1>3, <1>4 DEF Base

\* acctprocnt is a number.
LEMMA CountTypes ==
  ASSUME BatchFits, ShadowInv, NEW r \in AtopSet, r.ino \in 1 .. Len(content)
  PROVE  acctprocnt(r) \in Int /\ Size(r.ino) \in Nat
<1>0. ShadowTypes /\ FileInv /\ r.acctsize \in Int /\ r.seq \in Nat /\ MaxShadowRec \in Nat /\ current \in Int
  BY DEF ShadowInv, AtopSet, BatchFits, ShadowTypes
<1>1. Size(r.ino) \in Nat
  BY <1>0, Numbers, Contents DEF Size
<1>2. PICK first \in Int : first = Size(r.ino) - r.acctsize
  BY <1>0, <1>1
<1>3. PICK more \in Int : more = (current - r.seq - 1) * MaxShadowRec
  BY <1>0
<1>4. PICK last \in Nat : last = IF There(current) THEN Size(entry[current]) ELSE Size(r.ino)
  <2>1. CASE There(current)
    <3>1. current \in 0 .. MaxSeq /\ entry[current] # 0
      BY <1>0, <2>1 DEF There, ShadowTypes
    <3>2. Size(entry[current]) \in Nat
      BY <1>0, <3>1, NamedFile DEF Size
    <3> QED
      BY <2>1, <3>2
  <2>2. CASE ~There(current)
    BY <1>1, <2>2
  <2> QED
    BY <2>1, <2>2
<1>5. acctprocnt(r) = IF Size(r.ino) < MaxShadowRec \/ current < 0 \/ current = r.seq THEN first
                      ELSE first + more + last
  BY <1>2, <1>3, <1>4 DEF acctprocnt
<1>6. first + more + last \in Int
  OBVIOUS
<1> QED
  BY <1>1, <1>5, <1>6

\* An atop in a file of that name counts the records there are, and nothing
\* that is not there.
LEMMA CountFacts ==
  ASSUME BatchFits, ShadowInv, NEW r \in AtopSet, r.ino \in 1 .. Len(content),
         LinkedAs(r), r.acctsize \in Nat
  PROVE  /\ SpotOf(r) \in Nat /\ acctprocnt(r) \in Int /\ Len(log) \in Nat
         /\ SpotOf(r) + acctprocnt(r) <= Len(log)
         /\ acctprocnt(r) >= Size(r.ino) - r.acctsize
         /\ current = d.cur => SpotOf(r) + acctprocnt(r) = Len(log)
         /\ r.acctsize + acctprocnt(r) <= MaxShadowRec => r.acctsize + acctprocnt(r) = Size(r.ino)
<1>0. ShadowTypes /\ FileInv /\ LogInv /\ CurrentInv
  BY DEF ShadowInv
<1>1. PICK M \in Nat : M = MaxShadowRec /\ M >= 1
  BY <1>0, Numbers
<1>2. PICK s \in Nat : s = r.seq
  BY DEF AtopSet
<1>3. PICK m \in Nat : m = d.cur /\ m <= MaxSeq
  BY <1>0, Numbers
<1>4. PICK z \in Nat : z = Size(r.ino)
  BY CountTypes
<1>5. PICK at \in Nat : at = r.acctsize
  OBVIOUS
<1>6. PICK t \in Nat : t = d.stot /\ t <= M
  BY <1>0, <1>1, Numbers
<1>7. s <= m /\ entry[s] = r.ino /\ entry[s] # 0 /\ s \in 0 .. d.cur
  <2>1. s <= m /\ entry[s] = r.ino
    BY <1>2, <1>3 DEF LinkedAs
  <2>2. entry[s] # 0
    BY <1>0, <2>1, Numbers
  <2> QED
    BY <1>3, <2>1, <2>2
<1>8. \A u \in s .. m : Whole(u)
  BY <1>0, <1>3, <1>7 DEF LogInv
<1>9. s \in s .. m /\ m \in s .. m
  BY <1>7
<1>10. z = (IF s < m THEN M ELSE t)
  BY <1>1, <1>3, <1>4, <1>6, <1>7, <1>8, <1>9 DEF Whole, Held, Size
<1>11. PICK b \in Nat : b = Base(s)
  BY BaseFacts
<1>12. PICK e \in Nat : e = Base(m)
  BY BaseFacts
<1>13. Len(log) = e + t /\ Len(log) \in Nat
  BY <1>0, <1>3, <1>6, <1>12, Numbers DEF LogInv
<1>14. SpotOf(r) = b + at
  BY <1>2, <1>5, <1>11 DEF SpotOf
<1>15. (s < m => b + M <= e) /\ (s = m => b = e)
  BY <1>1, <1>11, <1>12, BaseFacts
<1>16. CASE z < M \/ current < 0 \/ current = r.seq
  <2>1. acctprocnt(r) = z - at
    BY <1>1, <1>4, <1>5, <1>16 DEF acctprocnt
  <2>2. b + z <= e + t
    BY <1>6, <1>7, <1>10, <1>15
  <2>3. ASSUME current = d.cur PROVE b + z = e + t
    <3>1. ~(current < 0)
      BY <1>3, <2>3
    <3>2. z < M \/ s = m
      BY <1>2, <1>3, <1>16, <2>3, <3>1
    <3>3. s = m
      BY <1>7, <1>10, <3>2
    <3> QED
      BY <1>10, <1>15, <3>3
  <2> QED
    BY <1>1, <1>4, <1>5, <1>13, <1>14, <2>1, <2>2, <2>3, SMTT(30)
<1>17. CASE ~(z < M \/ current < 0 \/ current = r.seq)
  <2>1. z = M /\ current \in Nat /\ current # s
    <3>1. z <= M
      BY <1>6, <1>10
    <3>2. current \in Int
      BY <1>0 DEF ShadowTypes
    <3> QED
      BY <1>2, <1>17, <3>1, <3>2
  <2>2. PICK x \in Nat : x = current
    BY <2>1
  <2>3. s < m /\ (x = m \/ (t = 0 /\ x = m - 1)) /\ s < x
    <3>1. x = m \/ (t = 0 /\ (x = m - 1 \/ m = 0))
      BY <1>0, <1>3, <1>6, <2>2 DEF CurrentInv
    <3>2. t = 0 => s < m
      BY <1>1, <1>7, <1>10, <2>1
    <3> QED
      BY <1>7, <2>1, <2>2, <3>1, <3>2
  <2>4. PICK y \in Nat : y = (x - s - 1) * M
    <3>1. (x - s - 1) * M \in Nat
      BY <1>1, <2>3, Gap
    <3> QED
      BY <3>1
  <2>5. PICK g \in Nat : g = Base(x)
    BY BaseFacts
  <2>6. b + M + y = g /\ (x # s + 1 => y >= M)
    BY <1>1, <1>11, <2>3, <2>4, <2>5, Gap
  <2>7. x \in s .. m /\ x \in 0 .. MaxSeq
    <3>1. MaxSeq \in Nat
      BY DEF BatchFits
    <3> QED
      BY <1>3, <2>3, <3>1
  <2>8. Whole(x)
    BY <1>8, <2>7
  <2>9. There(x) /\ Size(entry[x]) = (IF x < m THEN M ELSE t)
    <3>1. DOMAIN entry = 0 .. MaxSeq
      BY <1>0 DEF ShadowTypes
    <3> QED
      BY <1>1, <1>3, <1>6, <2>7, <2>8, <3>1 DEF Whole, Held, There, Size
  <2>10. PICK w \in Nat : w = Size(entry[x]) /\ w = (IF x < m THEN M ELSE t)
    BY <2>9
  <2>11. acctprocnt(r) = (z - at) + y + w
    <3>1. acctprocnt(r) = (z - at) + (x - s - 1) * M + w
      BY <1>1, <1>2, <1>4, <1>5, <1>17, <2>2, <2>9, <2>10 DEF acctprocnt
    <3> QED
      BY <2>4, <3>1
  <2>12. g + w = e + t
    <3>1. x = m => g = e
      BY <1>12, <2>5
    <3>2. x = m - 1 => g + M = e
      <4>1. x = m - 1 => m = x + 1
        OBVIOUS
      <4> QED
        BY <1>1, <1>12, <2>5, <4>1, BaseFacts
    <3> QED
      BY <2>3, <2>10, <3>1, <3>2
  <2>13. z + y + w <= M => z + y + w = z
    BY <2>1, <2>4, <2>10
  <2>14. PICK n \in Int : n = acctprocnt(r)
    BY <2>11
  <2>15. b + at + n = e + t /\ n >= z - at /\ (at + n <= M => at + n = z)
    <3>1. n = (z - at) + y + w
      BY <2>11, <2>14
    <3> QED
      BY <2>1, <2>6, <2>12, <2>13, <3>1
  <2> QED
    BY <1>1, <1>4, <1>5, <1>13, <1>14, <2>14, <2>15, SMTT(30)
<1> QED
  BY <1>16, <1>17

\* A file that a place of the log lies in is there, up to that place.
LEMMA PlaceInFile ==
  ASSUME BatchFits, ShadowInv, NEW s \in Nat, NEW t \in Nat, s <= d.cur, entry[s] # 0, s <= t,
         NEW at \in Nat, at < MaxShadowRec, Base(t) + at < Len(log)
  PROVE  /\ t <= d.cur /\ entry[t] \in 1 .. Len(content) /\ at < Size(entry[t])
         /\ Size(entry[t]) <= MaxShadowRec
         /\ Size(entry[t]) < MaxShadowRec => Base(t) + Size(entry[t]) = Len(log)
         /\ \A k \in 1 .. Size(entry[t]) : content[entry[t]][k] = log[Base(t) + k]
<1>0. ShadowTypes /\ FileInv /\ LogInv
  BY DEF ShadowInv
<1>1. PICK M \in Nat : M = MaxShadowRec /\ M >= 1
  BY <1>0, Numbers
<1>2. PICK m \in Nat : m = d.cur /\ m <= MaxSeq
  BY <1>0, Numbers
<1>3. PICK h \in Nat : h = d.stot /\ h <= M
  BY <1>0, <1>1, Numbers
<1>4. PICK b \in Nat : b = Base(t)
  BY BaseFacts
<1>5. PICK e \in Nat : e = Base(m)
  BY BaseFacts
<1>6. Len(log) = e + h
  BY <1>0, <1>2, <1>3, <1>5 DEF LogInv
<1>7. (m < t => e + M <= b) /\ (t < m => b + M <= e) /\ (t = m => b = e)
  BY <1>1, <1>4, <1>5, BaseFacts
<1>8. t <= m
  BY <1>3, <1>4, <1>6, <1>7
<1>9. Whole(t)
  <2>1. s \in 0 .. d.cur /\ t \in s .. d.cur
    BY <1>2, <1>8
  <2> QED
    BY <1>0, <2>1 DEF LogInv
<1>10. t \in 0 .. MaxSeq /\ entry[t] # 0
  <2>1. MaxSeq \in Nat
    BY DEF BatchFits
  <2> QED
    BY <1>2, <1>8, <1>9, <2>1 DEF Whole
<1>11. entry[t] \in 1 .. Len(content)
  BY <1>0, <1>10, NamedFile
<1>12. Size(entry[t]) = (IF t < m THEN M ELSE h) /\ Held(t) = (IF t < m THEN M ELSE h)
  BY <1>1, <1>2, <1>3, <1>9 DEF Whole, Held, Size
<1>13. \A k \in 1 .. Size(entry[t]) : content[entry[t]][k] = log[Base(t) + k]
  BY <1>9, <1>12 DEF Whole
<1>14. PICK z \in Nat : z = Size(entry[t]) /\ z = (IF t < m THEN M ELSE h)
  BY <1>12
<1>15. b + at < e + h /\ at < M
  BY <1>1, <1>4, <1>6
<1>16. at < z /\ z <= M /\ (z < M => b + z = e + h)
  BY <1>3, <1>7, <1>8, <1>14, <1>15
<1> QED
  BY <1>1, <1>2, <1>4, <1>6, <1>8, <1>11, <1>13, <1>14, <1>16

\* acctvers goes behind what is there.
LEMMA VersInv ==
  ASSUME BatchFits, ShadowInv, NEW a \in Clients, acctvers(a)
  PROVE  ShadowInv'
<1>0. ShadowTypes /\ Sound(c[a]) /\ c[a] \in AtopSet /\ AtopOnly /\ c[a].pc = "vers" /\ FileInv /\ LogInv
  BY AtopIsSound DEF ShadowInv, acctvers
<1>1. CASE Become(a, [Client0 EXCEPT !.pc = "none"])
  BY <1>0, <1>1, ClientTypes, NothingHeld, AtopStep
<1>2. CASE ~Become(a, [Client0 EXCEPT !.pc = "none"])
  <2>1. PICK f \in 1 .. Len(content) : f = c[a].ino
    BY <1>0 DEF Sound
  <2>2. PICK n \in Int : n = acctprocnt(c[a])
    BY <1>0, <2>1, CountTypes
  <2>3. PICK z \in Nat : z = Size(f)
    BY <1>0, <2>1, CountTypes
  <2>4. z > 0
    BY <1>2, <2>1, <2>3 DEF acctvers
  <2>5. PICK g \in Nat : g = IF n \in 1 .. z THEN content[f][n] ELSE 0
    <3>1. content[f] \in Seq(Nat) /\ z = Len(content[f])
      BY <1>0, <2>1, <2>3, Numbers, Contents DEF Size
    <3>2. \A k \in 1 .. z : content[f][k] \in Nat
      BY <3>1
    <3> QED
      BY <3>2
  <2>6. PICK p \in AtopLabels : p = IF n < 0 THEN "lost" ELSE "lock"
    BY DEF AtopLabels
  <2>7. PICK r : r = [c[a] EXCEPT !.acctsize = n, !.off = n, !.pc = p, !.got = g]
    OBVIOUS
  <2>8. Become(a, r)
    BY <1>2, <2>1, <2>2, <2>3, <2>5, <2>6, <2>7 DEF acctvers
  <2>9. r \in AtopSet
    BY <1>0, <2>7 DEF AtopSet
  <2>10. /\ r.acctsize = n /\ r.off = n /\ r.pc = p /\ r.got = g
         /\ r.seq = c[a].seq /\ r.ino = f /\ r.stray = c[a].stray
    BY <1>0, <2>1, <2>7 DEF AtopSet
  <2>11. CASE n < 0
    BY <1>0, <2>6, <2>8, <2>9, <2>10, <2>11, NothingHeld, AtopStep
  <2>12. CASE ~(n < 0)
    <3>1. r.pc = "lock" /\ n \in Nat /\ n >= 0
      BY <2>6, <2>10, <2>12
    <3>2. ~r.stray => r.seq <= d.cur
      BY <1>0, <2>10 DEF Sound
    <3>3. ASSUME LinkedAs(r), n <= MaxShadowRec
          PROVE  n \in 1 .. Len(content[f]) /\ g = log[Base(r.seq) + n]
      <4>1. LinkedAs(c[a]) /\ c[a].acctsize = 0
        BY <1>0, <2>1, <2>10, <3>3 DEF LinkedAs, Sound
      <4>2. 0 + n <= MaxShadowRec => 0 + n = z
        BY <1>0, <2>1, <2>2, <2>3, <4>1, CountFacts
      <4>3. n = z /\ n \in 1 .. z
        BY <2>4, <3>3, <4>2
      <4>4. PICK s \in Nat : s = r.seq
        BY <2>9 DEF AtopSet
      <4>5. s <= d.cur /\ entry[s] = f
        BY <2>10, <3>3, <4>4 DEF LinkedAs
      <4>6. Whole(s)
        <5>1. s \in 0 .. d.cur /\ s \in s .. d.cur
          BY <1>0, <4>5, Numbers
        <5>2. entry[s] # 0
          BY <1>0, <2>1, <4>5, Numbers
        <5> QED
          BY <1>0, <5>1, <5>2 DEF LogInv
      <4>7. content[f][n] = log[Base(s) + n]
        BY <2>3, <4>3, <4>5, <4>6 DEF Whole, Size
      <4> QED
        BY <2>3, <2>5, <4>3, <4>4, <4>7 DEF Size
    <3>4. Sound(r)
      BY <2>1, <2>10, <3>1, <3>2, <3>3 DEF Sound, SpotOf, Connected
    <3> QED
      BY <1>0, <2>8, <2>9, <3>4, AtopStep
  <2> QED
    BY <2>11, <2>12
<1> QED
  BY <1>1, <1>2

\* The lock: from now on the file stays.
LEMMA LockInv ==
  ASSUME BatchFits, ShadowInv, NEW a \in Clients, Lock(a)
  PROVE  ShadowInv'
<1>0. ShadowTypes /\ Sound(c[a]) /\ c[a] \in AtopSet /\ AtopOnly /\ c[a].pc = "lock"
  BY AtopIsSound DEF ShadowInv, Lock
<1>1. PICK x \in BOOLEAN : x = (c[a].stray \/ c[a].acctsize > MaxShadowRec \/ entry[c[a].seq] # c[a].ino)
  OBVIOUS
<1>2. PICK r : r = [c[a] EXCEPT !.pc = "on", !.stray = x]
  OBVIOUS
<1>3. Become(a, r)
  BY <1>1, <1>2 DEF Lock
<1>4. r \in AtopSet
  BY <1>0, <1>2 DEF AtopSet, AtopLabels
<1>5. /\ r.pc = "on" /\ r.stray = x /\ r.seq = c[a].seq /\ r.ino = c[a].ino /\ r.off = c[a].off
      /\ r.acctsize = c[a].acctsize /\ r.got = c[a].got
  BY <1>0, <1>2 DEF AtopSet
<1>6. SpotOf(r) = SpotOf(c[a])
  BY <1>5 DEF SpotOf
<1>7. ASSUME ~x PROVE PlacedAs(r)
  <2>1. ~c[a].stray /\ ~(c[a].acctsize > MaxShadowRec) /\ entry[c[a].seq] = c[a].ino
    BY <1>1, <1>7
  <2>2. c[a].acctsize <= MaxShadowRec
    <3>1. PICK n \in Int : n = c[a].acctsize
      BY <1>0 DEF AtopSet
    <3>2. MaxShadowRec \in Nat /\ ~(n > MaxShadowRec)
      BY <1>0, <2>1, <3>1, Numbers
    <3>3. n <= MaxShadowRec
      BY <3>2
    <3> QED
      BY <3>1, <3>3
  <2>3. LinkedAs(c[a])
    BY <1>0, <2>1 DEF Sound, LinkedAs
  <2>4. /\ c[a].acctsize \in 1 .. Len(content[c[a].ino]) /\ c[a].off = c[a].acctsize
        /\ c[a].got = log[SpotOf(c[a])]
    BY <1>0, <2>1, <2>2, <2>3 DEF Sound
  <2>5. Len(content[c[a].ino]) \in Nat /\ c[a].seq \in Nat
    BY <1>0, Numbers, Contents DEF Sound, AtopSet
  <2>6. Base(c[a].seq) \in Nat
    BY <2>5, BaseFacts
  <2>7. SpotOf(c[a]) \in 1 .. SpotOf(c[a]) /\ c[a].acctsize \in 0 .. Len(content[c[a].ino])
    BY <2>4, <2>5, <2>6 DEF SpotOf
  <2> QED
    BY <1>5, <1>6, <2>3, <2>4, <2>7 DEF PlacedAs, LinkedAs
<1>8. Sound(r)
  BY <1>0, <1>5, <1>7 DEF Sound
<1> QED
  BY <1>0, <1>3, <1>4, <1>8, AtopStep

\* A number of records, as whole files and a rest.
LEMMA FilesAndRest ==
  ASSUME NEW v \in Nat, NEW M \in Nat, M > 0
  PROVE  /\ v \div M \in Nat /\ v % M \in Nat /\ v % M < M
         /\ v = (v \div M) * M + (v % M)
<1>1. v \div M \in Int /\ v % M \in 0 .. M - 1
  OBVIOUS
<1>2. \A x, y \in Int : y > 0 => x = (x \div y) * y + (x % y)
  OBVIOUS
<1>3. v = (v \div M) * M + (v % M)
  BY <1>2
<1>4. v \div M >= 0
  <2>1. SUFFICES ASSUME v \div M < 0 PROVE FALSE
    BY <1>1
  <2>2. PICK q \in Int : q = v \div M /\ q <= 0 - 1
    BY <1>1, <2>1
  <2>3. PICK j \in Nat : q = (0 - 1) - j
    <3>1. q = (0 - 1) - ((0 - 1) - q) /\ (0 - 1) - q \in Nat
      BY <2>2
    <3> QED
      BY <3>1
  <2>4. ((0 - 1) - j) * M = (0 - M) - j * M /\ j * M \in Nat
    OBVIOUS
  <2>5. PICK z \in 0 .. M - 1 : z = v % M
    BY <1>1
  <2> QED
    BY <1>3, <2>2, <2>3, <2>4, <2>5
<1> QED
  BY <1>1, <1>3, <1>4

\* acctrepos goes on by a number of records, over as many files as that takes.
GoneOn(r, q, skip, k, at) ==
  /\ q \in AtopSet /\ q.seq = r.seq + k /\ q.acctsize = at /\ q.off = at
  /\ at < MaxShadowRec /\ q.ino \in 1 .. Len(content)
  /\ q.got = r.got /\ q.stray = r.stray
  /\ Base(r.seq + k) + at = Base(r.seq) + r.acctsize + skip
  /\ r.seq + k <= d.cur /\ entry[r.seq] = r.ino => q.ino = entry[r.seq + k]

LEMMA ReposFacts ==
  ASSUME BatchFits, ShadowInv, NEW r \in AtopSet, r.ino \in 1 .. Len(content), r.acctsize \in Nat,
         NEW skip \in Nat
  PROVE  \E k, at \in Nat : GoneOn(r, acctrepos(r, skip), skip, k, at)
<1>0. PICK M \in Nat : M = MaxShadowRec /\ M > 0
  BY DEF BatchFits
<1>1. PICK v \in Nat : v = r.acctsize + skip
  OBVIOUS
<1>2. PICK k \in Nat : k = v \div M
  BY <1>0, FilesAndRest
<1>3. PICK at \in Nat : at = v % M /\ at < M
  BY <1>0, FilesAndRest
<1>4. v = k * M + at
  BY <1>0, <1>2, <1>3, FilesAndRest
<1>5. PICK s \in Nat : s = r.seq
  BY DEF AtopSet
<1>6. Base(s + k) + at = Base(s) + v
  <2>1. (s + k) * M = s * M + k * M /\ s * M \in Nat /\ k * M \in Nat
    OBVIOUS
  <2> QED
    BY <1>0, <1>4, <2>1 DEF Base
<1>7. PICK w : w = switchshadow(r, k)
  OBVIOUS
<1>8. /\ w \in AtopSet /\ w.seq = s + k /\ w.ino \in 1 .. Len(content)
      /\ w.got = r.got /\ w.stray = r.stray
      /\ s + k <= d.cur /\ entry[s] = r.ino => w.ino = entry[s + k]
  <2>1. /\ w \in AtopSet /\ w.seq = s + k /\ w.ino \in 1 .. Len(content)
    BY <1>5, <1>7, SwitchFacts
  <2>2. w.got = r.got /\ w.stray = r.stray
    BY <1>7, SwitchFacts
  <2>3. s + k <= d.cur /\ entry[s] = r.ino => w.ino = entry[s + k]
    BY <1>5, <1>7, SwitchFacts
  <2> QED
    BY <2>1, <2>2, <2>3
<1>9. PICK q : q = [w EXCEPT !.acctsize = at, !.off = at]
  OBVIOUS
<1>10. q = acctrepos(r, skip)
  <2>1. acctrepos(r, skip) = [switchshadow(r, v \div M) EXCEPT !.acctsize = v % M, !.off = v % M]
    BY <1>0, <1>1, Zenon DEF acctrepos
  <2> QED
    BY <1>2, <1>3, <1>7, <1>9, <2>1, Zenon
<1>11. q \in AtopSet
  <2>1. w \in AtopSet /\ at \in Int
    BY <1>8
  <2>2. \A p \in AtopSet, x \in Int : [p EXCEPT !.acctsize = x] \in AtopSet
    BY DEF AtopSet
  <2>3. \A p \in AtopSet, x \in Int : [p EXCEPT !.off = x] \in AtopSet
    BY DEF AtopSet
  <2>4. [w EXCEPT !.acctsize = at] \in AtopSet
    BY <2>1, <2>2
  <2> QED
    BY <1>9, <2>1, <2>3, <2>4
<1>12. /\ q.acctsize = at /\ q.off = at /\ q.seq = w.seq /\ q.ino = w.ino /\ q.got = w.got
       /\ q.stray = w.stray
  BY <1>8, <1>9 DEF AtopSet
<1>13. Base(s + k) + at = Base(s) + r.acctsize + skip
  <2>1. Base(s) \in Nat
    BY BaseFacts
  <2> QED
    BY <1>1, <1>6, <2>1
<1>14. GoneOn(r, q, skip, k, at)
  BY <1>0, <1>3, <1>5, <1>8, <1>11, <1>12, <1>13 DEF GoneOn
<1> QED
  BY <1>10, <1>14

\* Where a sample begins: at an atop's place, or so far on that the rest fits.
Begins(r, q, n) ==
  /\ q \in AtopSet /\ q.ino \in 1 .. Len(content) /\ q.acctsize \in Nat /\ q.off \in Nat
  /\ q.stray = r.stray /\ q.got = r.got
  /\ r.pc = "on" /\ ~r.stray =>
       /\ LinkedAs(q) /\ q.off = q.acctsize /\ q.acctsize <= Size(q.ino)
       /\ SpotOf(q) + n <= Len(log) /\ SpotOf(q) >= SpotOf(r) /\ SpotOf(q) \in Nat
       /\ Size(q.ino) < MaxShadowRec => Base(q.seq) + Size(q.ino) = Len(log)

\* An atop that may read all stays where it is.
LEMMA BeginsHere ==
  ASSUME BatchFits, ShadowInv, NEW a \in Clients, c[a].pc = "on",
         NEW n \in Nat, n = acctprocnt(c[a])
  PROVE  Begins(c[a], c[a], n)
<1>0. ShadowTypes /\ FileInv /\ LogInv /\ Sound(c[a]) /\ c[a] \in AtopSet
  BY AtopIsSound DEF ShadowInv
<1>1. c[a].ino \in 1 .. Len(content) /\ c[a].acctsize \in Nat /\ c[a].off \in Nat
  BY <1>0 DEF Sound, AtopSet
<1>2. ASSUME ~c[a].stray
      PROVE  /\ LinkedAs(c[a]) /\ c[a].off = c[a].acctsize /\ c[a].acctsize <= Size(c[a].ino)
             /\ SpotOf(c[a]) + n <= Len(log) /\ SpotOf(c[a]) \in Nat
             /\ Size(c[a].ino) < MaxShadowRec => Base(c[a].seq) + Size(c[a].ino) = Len(log)
  <2>1. PlacedAs(c[a])
    BY <1>0, <1>2 DEF Sound, Connected
  <2>2. LinkedAs(c[a]) /\ c[a].off = c[a].acctsize /\ c[a].acctsize \in 0 .. Len(content[c[a].ino])
    BY <2>1 DEF PlacedAs
  <2>3. Size(c[a].ino) \in Nat
    BY <1>0, <1>1, CountTypes
  <2>4. c[a].acctsize <= Size(c[a].ino)
    BY <2>2, <2>3 DEF Size
  <2>5. SpotOf(c[a]) + n <= Len(log) /\ SpotOf(c[a]) \in Nat
    BY <1>0, <1>1, <2>2, CountFacts
  <2>6. Size(c[a].ino) < MaxShadowRec => Base(c[a].seq) + Size(c[a].ino) = Len(log)
    <3>1. PICK s \in Nat : s = c[a].seq
      BY <1>0 DEF AtopSet
    <3>2. s \in 0 .. d.cur /\ s \in s .. d.cur /\ entry[s] = c[a].ino
      BY <1>0, <2>2, <3>1, Numbers DEF LinkedAs
    <3>3. entry[s] # 0
      BY <1>0, <1>1, <3>2, Numbers
    <3>4. Size(c[a].ino) = Held(s)
      BY <1>0, <3>2, <3>3 DEF LogInv, Whole, Size
    <3> QED
      BY <1>0, <3>1, <3>2, <3>4, WholeInLog
  <2> QED
    BY <2>2, <2>4, <2>5, <2>6
<1>3. ~c[a].stray => SpotOf(c[a]) >= SpotOf(c[a])
  BY <1>2
<1> QED
  BY <1>0, <1>1, <1>2, <1>3 DEF Begins

\* One that may not goes on to the records that it may.
LEMMA BeginsFurther ==
  ASSUME BatchFits, ShadowInv, NEW a \in Clients, c[a].pc = "on",
         NEW n \in Nat, n = acctprocnt(c[a]), n > MaxExits
  PROVE  Begins(c[a], acctrepos(c[a], n - MaxExits), MaxExits)
<1>0. ShadowTypes /\ FileInv /\ LogInv /\ Sound(c[a]) /\ c[a] \in AtopSet
  BY AtopIsSound DEF ShadowInv
<1>1. c[a].ino \in 1 .. Len(content) /\ c[a].acctsize \in Nat
  BY <1>0 DEF Sound, AtopSet
<1>2. PICK x \in Nat : x = MaxExits /\ x > 0
  BY DEF BatchFits
<1>3. PICK skip \in Nat : skip = n - x
  BY <1>2
<1>4. PICK q : q = acctrepos(c[a], skip)
  OBVIOUS
<1>5. PICK s \in Nat : s = c[a].seq
  BY <1>0 DEF AtopSet
<1>6. PICK k \in Nat, at \in Nat :
               /\ q \in AtopSet /\ q.seq = s + k /\ q.acctsize = at /\ q.off = at
               /\ at < MaxShadowRec /\ q.ino \in 1 .. Len(content)
               /\ q.got = c[a].got /\ q.stray = c[a].stray
               /\ Base(s + k) + at = Base(s) + c[a].acctsize + skip
               /\ s + k <= d.cur /\ entry[s] = c[a].ino => q.ino = entry[s + k]
  <2>1. PICK k \in Nat, at \in Nat : GoneOn(c[a], q, skip, k, at)
    BY <1>0, <1>1, <1>4, ReposFacts
  <2> QED
    BY <1>5, <2>1 DEF GoneOn
<1>7. ASSUME ~c[a].stray
      PROVE  /\ LinkedAs(q) /\ q.off = q.acctsize /\ q.acctsize <= Size(q.ino)
             /\ SpotOf(q) + x <= Len(log) /\ SpotOf(q) >= SpotOf(c[a]) /\ SpotOf(q) \in Nat
             /\ Size(q.ino) < MaxShadowRec => Base(q.seq) + Size(q.ino) = Len(log)
  <2>1. Begins(c[a], c[a], n)
    BY BeginsHere
  <2>2. LinkedAs(c[a]) /\ SpotOf(c[a]) + n <= Len(log) /\ SpotOf(c[a]) \in Nat
    BY <1>7, <2>1 DEF Begins
  <2>3. PICK b \in Nat : b = SpotOf(c[a])
    BY <2>2
  <2>4. Base(s + k) + at = b + skip
    BY <1>5, <1>6, <2>3 DEF SpotOf
  <2>5. SpotOf(q) = b + skip /\ s + k \in Nat
    BY <1>6, <2>4 DEF SpotOf
  <2>6. PICK w \in Nat : w = Len(log)
    BY <1>0, Numbers
  <2>7. (b + skip) + x <= w /\ b + skip < w
    BY <1>2, <1>3, <2>2, <2>3, <2>6
  <2>8. s <= d.cur /\ entry[s] = c[a].ino /\ entry[s] # 0
    <3>1. s <= d.cur /\ entry[s] = c[a].ino
      BY <1>5, <2>2 DEF LinkedAs
    <3> QED
      BY <1>0, <1>1, <3>1, Numbers, SMTT(30)
  <2>9. PICK t \in Nat : t = s + k /\ s <= t
    OBVIOUS
  <2>10. at < MaxShadowRec /\ Base(t) + at < Len(log)
    BY <1>6, <2>4, <2>6, <2>7, <2>9
  <2>11. /\ t <= d.cur /\ at < Size(entry[t])
         /\ Size(entry[t]) < MaxShadowRec => Base(t) + Size(entry[t]) = Len(log)
    BY <2>8, <2>9, <2>10, PlaceInFile
  <2>12. q.ino = entry[t] /\ q.seq = t
    BY <1>6, <2>8, <2>9, <2>11
  <2>13. LinkedAs(q)
    BY <2>11, <2>12 DEF LinkedAs
  <2>14. q.off = q.acctsize /\ q.acctsize <= Size(q.ino)
    <3>1. Size(q.ino) \in Nat
      BY <1>6, CountTypes
    <3> QED
      BY <1>6, <2>11, <2>12, <3>1
  <2>15. SpotOf(q) + x <= Len(log) /\ SpotOf(q) >= SpotOf(c[a]) /\ SpotOf(q) \in Nat
    BY <2>3, <2>5, <2>6, <2>7
  <2> QED
    BY <2>11, <2>12, <2>13, <2>14, <2>15
<1>8. Begins(c[a], q, x)
  BY <1>6, <1>7 DEF Begins
<1> QED
  BY <1>2, <1>3, <1>4, <1>8

\* A sample that begins is sound.
LEMMA SampleBegins ==
  ASSUME BatchFits, ShadowInv, NEW a \in Clients, c[a].pc = "on", NEW q, NEW n \in Nat, n >= 1,
         Begins(c[a], q, n), NEW r, r = [q EXCEPT !.n = n, !.size = Size(q.ino), !.pc = "sample"]
  PROVE  r \in AtopSet /\ Sound(r)
<1>0. ShadowTypes /\ FileInv /\ Sound(c[a]) /\ c[a] \in AtopSet
  BY AtopIsSound DEF ShadowInv
<1>1. q \in AtopSet /\ q.ino \in 1 .. Len(content) /\ q.acctsize \in Nat /\ q.off \in Nat
  BY DEF Begins
<1>2. PICK z \in Nat : z = Size(q.ino)
  BY <1>1, CountTypes
<1>3. z <= MaxShadowRec
  BY <1>0, <1>1, <1>2 DEF FileInv, Size
<1>4. r \in AtopSet
  <2>1. \A p \in AtopSet, x \in Int : [p EXCEPT !.n = x] \in AtopSet
    BY DEF AtopSet
  <2>2. \A p \in AtopSet, x \in Nat : [p EXCEPT !.size = x] \in AtopSet
    BY DEF AtopSet
  <2>3. \A p \in AtopSet : [p EXCEPT !.pc = "sample"] \in AtopSet
    BY DEF AtopSet, AtopLabels
  <2>4. [q EXCEPT !.n = n] \in AtopSet
    BY <1>1, <2>1
  <2>5. [[q EXCEPT !.n = n] EXCEPT !.size = z] \in AtopSet
    BY <2>2, <2>4
  <2> QED
    BY <1>2, <2>3, <2>5
<1>5. /\ r.n = n /\ r.size = z /\ r.pc = "sample" /\ r.seq = q.seq /\ r.ino = q.ino /\ r.off = q.off
      /\ r.acctsize = q.acctsize /\ r.got = q.got
  BY <1>1, <1>2 DEF AtopSet
<1>6. r.stray = q.stray
  BY <1>1 DEF AtopSet
<1>7. SpotOf(r) = SpotOf(q)
  BY <1>5 DEF SpotOf
<1>8. ASSUME ~r.stray PROVE PlacedAs(r)
  <2>0. ~c[a].stray
    BY <1>6, <1>8 DEF Begins
  <2>1. /\ LinkedAs(q) /\ q.off = q.acctsize /\ q.acctsize <= Size(q.ino)
        /\ SpotOf(q) + n <= Len(log) /\ SpotOf(q) >= SpotOf(c[a]) /\ SpotOf(q) \in Nat
        /\ Size(q.ino) < MaxShadowRec => Base(q.seq) + Size(q.ino) = Len(log)
    BY <2>0 DEF Begins
  <2>2. LinkedAs(r)
    BY <1>5, <2>1 DEF LinkedAs
  <2>3. r.got # 0 => \E k \in 1 .. SpotOf(r) : r.got = log[k]
    <3>1. ASSUME r.got # 0 PROVE \E k \in 1 .. SpotOf(r) : r.got = log[k]
      <4>1. r.got = c[a].got
        BY <1>5 DEF Begins
      <4>2. PICK k \in 1 .. SpotOf(c[a]) : c[a].got = log[k]
        BY <1>0, <2>0, <3>1, <4>1 DEF Sound, PlacedAs, Connected
      <4>3. PICK x \in Nat : x = SpotOf(c[a])
        <5>1. c[a].seq \in Nat /\ c[a].acctsize \in Nat
          BY <1>0 DEF Sound, AtopSet
        <5> QED
          BY <5>1, BaseFacts DEF SpotOf
      <4>4. k \in 1 .. SpotOf(r)
        <5>1. PICK y \in Nat : y = SpotOf(r)
          BY <1>7, <2>1
        <5> QED
          BY <1>7, <2>1, <4>2, <4>3, <5>1
      <4> QED
        BY <4>1, <4>2, <4>4
    <3> QED
      BY <3>1
  <2>4. r.acctsize <= r.size /\ r.acctsize \in 0 .. Len(content[r.ino]) /\ r.size <= Len(content[r.ino])
    <3>1. z = Len(content[r.ino]) /\ q.acctsize <= z
      BY <1>2, <1>5, <2>1 DEF Size
    <3> QED
      BY <1>1, <1>2, <1>5, <3>1
  <2>5. r.size < MaxShadowRec => r.n <= r.size - r.acctsize
    <3>1. ASSUME z < MaxShadowRec PROVE n <= z - q.acctsize
      <4>1. PICK b \in Nat : b = Base(q.seq)
        <5>1. q.seq \in Nat
          BY <1>1 DEF AtopSet
        <5> QED
          BY <5>1, BaseFacts
      <4>2. PICK at \in Nat : at = q.acctsize
        BY <1>1
      <4>3. PICK w \in Nat : w = Len(log)
        BY <1>0, Numbers
      <4>4. b + z = w
        BY <1>2, <2>1, <3>1, <4>1, <4>3
      <4>5. (b + at) + n <= w
        BY <2>1, <4>1, <4>2, <4>3 DEF SpotOf
      <4>6. n <= z - at
        BY <4>4, <4>5
      <4> QED
        BY <4>2, <4>6
    <3> QED
      BY <1>5, <3>1
  <2>6. SpotOf(r) + r.n <= Len(log) /\ r.n >= 1 /\ r.off = r.acctsize
    BY <1>5, <1>7, <2>1
  <2> QED
    BY <1>5, <2>2, <2>3, <2>4, <2>5, <2>6 DEF PlacedAs
<1>9. r.acctsize >= 0 /\ r.off >= 0 /\ r.n >= 1 /\ r.size <= MaxShadowRec /\ r.ino \in 1 .. Len(content)
  BY <1>1, <1>3, <1>5
<1> QED
  BY <1>4, <1>5, <1>8, <1>9 DEF Sound

\* The count of a sample.
LEMMA CountInv ==
  ASSUME BatchFits, ShadowInv, NEW a \in Clients, Count(a)
  PROVE  ShadowInv'
<1>0. ShadowTypes /\ Sound(c[a]) /\ c[a] \in AtopSet /\ AtopOnly /\ c[a].pc = "on" /\ acctprocnt(c[a]) # 0
  BY AtopIsSound DEF ShadowInv, Count
<1>1. c[a].ino \in 1 .. Len(content)
  BY <1>0 DEF Sound
<1>2. PICK n \in Int : n = acctprocnt(c[a])
  BY <1>0, <1>1, CountTypes
<1>3. CASE n < 0
  <2>1. PICK r : r = [c[a] EXCEPT !.pc = "lost"]
    OBVIOUS
  <2>2. Become(a, r)
    BY <1>2, <1>3, <2>1 DEF Count
  <2>3. r \in AtopSet /\ r.pc = "lost"
    BY <1>0, <2>1 DEF AtopSet, AtopLabels
  <2> QED
    BY <1>0, <2>2, <2>3, NothingHeld, AtopStep
<1>4. CASE ~(n < 0)
  <2>1. n \in Nat /\ n >= 1
    BY <1>0, <1>2, <1>4
  <2>2. MaxExits \in Nat /\ MaxExits >= 1
    BY DEF BatchFits
  <2>3. CASE n > MaxExits
    <3>1. PICK q : q = acctrepos(c[a], n - MaxExits)
      OBVIOUS
    <3>2. Begins(c[a], q, MaxExits)
      BY <1>0, <1>2, <2>1, <2>3, <3>1, BeginsFurther
    <3>3. Min({n, MaxExits}) = MaxExits
      BY <2>1, <2>2, <2>3, MinOfTwo
    <3>4. PICK r : r = [q EXCEPT !.n = MaxExits, !.size = Size(q.ino), !.pc = "sample"]
      OBVIOUS
    <3>5. Become(a, r)
      BY <1>2, <1>4, <2>3, <3>1, <3>3, <3>4 DEF Count
    <3>6. r \in AtopSet /\ Sound(r)
      BY <1>0, <2>2, <3>2, <3>4, SampleBegins
    <3> QED
      BY <1>0, <3>5, <3>6, AtopStep
  <2>4. CASE ~(n > MaxExits)
    <3>1. Begins(c[a], c[a], n)
      BY <1>0, <1>2, <2>1, BeginsHere
    <3>2. Min({n, MaxExits}) = n
      BY <2>1, <2>2, <2>4, MinOfTwo
    <3>3. PICK r : r = [c[a] EXCEPT !.n = n, !.size = Size(c[a].ino), !.pc = "sample"]
      OBVIOUS
    <3>4. Become(a, r)
      BY <1>2, <1>4, <2>4, <3>2, <3>3 DEF Count
    <3>5. r \in AtopSet /\ Sound(r)
      BY <1>0, <2>1, <3>1, <3>3, SampleBegins
    <3> QED
      BY <1>0, <3>4, <3>5, AtopStep
  <2> QED
    BY <2>3, <2>4
<1> QED
  BY <1>3, <1>4

\* The file that the next record is read from: the one it is in, or, when that
\* is at its end, the next one.
Turned(p, w) ==
  /\ w \in AtopSet /\ w.ino \in 1 .. Len(content) /\ w.acctsize \in Nat /\ w.off \in Nat
  /\ w.n = p.n /\ w.stray = p.stray /\ w.got = p.got /\ w.size <= MaxShadowRec
  /\ ~p.stray =>
       /\ LinkedAs(w) /\ w.off = w.acctsize /\ w.acctsize < w.size /\ w.size <= Size(w.ino)
       /\ SpotOf(w) = SpotOf(p) /\ (w.size < MaxShadowRec => w.n <= w.size - w.acctsize)

LEMMA TurnHere ==
  ASSUME BatchFits, ShadowInv, NEW a \in Clients, c[a].pc = "sample", c[a].acctsize < c[a].size
  PROVE  Turned(c[a], c[a])
<1>0. ShadowTypes /\ Sound(c[a]) /\ c[a] \in AtopSet
  BY AtopIsSound DEF ShadowInv
<1>1. /\ c[a].ino \in 1 .. Len(content) /\ c[a].acctsize \in Nat /\ c[a].off \in Nat
      /\ c[a].size <= MaxShadowRec
  BY <1>0 DEF Sound, AtopSet
<1>2. ~c[a].stray => PlacedAs(c[a])
  BY <1>0 DEF Sound, Connected
<1> QED
  BY <1>0, <1>1, <1>2 DEF Turned, PlacedAs, Size

LEMMA TurnNext ==
  ASSUME BatchFits, ShadowInv, NEW a \in Clients, c[a].pc = "sample", ~(c[a].acctsize < c[a].size),
         NEW s, s = switchshadow(c[a], 1), NEW w, w = [s EXCEPT !.size = Size(s.ino), !.acctsize = 0]
  PROVE  Turned(c[a], w)
<1>0. ShadowTypes /\ FileInv /\ LogInv /\ Sound(c[a]) /\ c[a] \in AtopSet
  BY AtopIsSound DEF ShadowInv
<1>1. /\ c[a].ino \in 1 .. Len(content) /\ c[a].acctsize \in Nat /\ c[a].off \in Nat
  BY <1>0 DEF Sound, AtopSet
<1>2. PICK x \in Nat : x = c[a].seq
  BY <1>0 DEF AtopSet
<1>3. /\ s \in AtopSet /\ s.seq = x + 1 /\ s.ino \in 1 .. Len(content) /\ s.n = c[a].n
      /\ s.got = c[a].got /\ s.off \in {c[a].off, 0}
  <2>1. s \in AtopSet /\ s.seq = c[a].seq + 1 /\ s.ino \in 1 .. Len(content)
    BY <1>0, <1>1, SwitchFacts, ZenonT(60)
  <2>2. s.n = c[a].n /\ s.got = c[a].got /\ s.off \in {c[a].off, 0}
    BY <1>0, <1>1, SwitchFacts, ZenonT(60)
  <2> QED
    BY <1>2, <2>1, <2>2
<1>4. s.stray = c[a].stray
  BY <1>0, <1>1, SwitchFacts
<1>5. x + 1 <= d.cur /\ entry[x] = c[a].ino => s.ino = entry[x + 1] /\ s.off = 0
  <2>1. PICK k \in Nat : k = 1
    OBVIOUS
  <2>2. c[a].seq + k <= d.cur /\ entry[c[a].seq] = c[a].ino =>
          /\ switchshadow(c[a], k).ino = entry[c[a].seq + k]
          /\ switchshadow(c[a], k).off = IF k = 0 THEN c[a].off ELSE 0
    BY <1>0, <1>1, SwitchFacts
  <2> QED
    BY <1>2, <2>1, <2>2
<1>6. PICK z \in Nat : z = Size(s.ino)
  BY <1>3, CountTypes
<1>7. z <= MaxShadowRec
  BY <1>0, <1>3, <1>6 DEF FileInv, Size
<1>8. w \in AtopSet
  <2>1. \A p \in AtopSet, y \in Nat : [p EXCEPT !.size = y] \in AtopSet
    BY DEF AtopSet
  <2>2. \A p \in AtopSet : [p EXCEPT !.acctsize = 0] \in AtopSet
    BY DEF AtopSet
  <2>3. [s EXCEPT !.size = z] \in AtopSet
    BY <1>3, <2>1
  <2> QED
    BY <1>6, <2>2, <2>3
<1>9. /\ w.size = z /\ w.acctsize = 0 /\ w.seq = s.seq /\ w.ino = s.ino /\ w.off = s.off
      /\ w.n = s.n /\ w.got = s.got
  BY <1>3, <1>6 DEF AtopSet
<1>10. w.stray = s.stray
  BY <1>3 DEF AtopSet
<1>11. w.off \in Nat
  BY <1>1, <1>3, <1>9
<1>12. ASSUME ~c[a].stray
       PROVE  /\ LinkedAs(w) /\ w.off = w.acctsize /\ w.acctsize < w.size /\ w.size <= Size(w.ino)
              /\ SpotOf(w) = SpotOf(c[a]) /\ (w.size < MaxShadowRec => w.n <= w.size - w.acctsize)
  <2>1. PlacedAs(c[a])
    BY <1>0, <1>12 DEF Sound, Connected
  <2>2. PICK M \in Nat : M = MaxShadowRec /\ M >= 1
    BY <1>0, Numbers
  <2>3. PICK at \in Nat : at = c[a].acctsize
    BY <1>1
  <2>4. PICK y \in Nat : y = c[a].size
    BY <1>0 DEF AtopSet
  <2>5. PICK n \in Int : n = c[a].n
    BY <1>0 DEF AtopSet
  <2>6. n >= 1 /\ at <= y /\ (y < M => n <= y - at) /\ y <= M /\ ~(at < y)
    <3>1. y <= M
      BY <1>0, <2>2, <2>4 DEF Sound
    <3> QED
      BY <2>1, <2>2, <2>3, <2>4, <2>5, <3>1 DEF PlacedAs
  <2>7. at = M
    BY <2>6
  <2>8. PICK b \in Nat : b = Base(x)
    BY BaseFacts
  <2>9. Base(x + 1) = b + M
    BY <2>2, <2>8, BaseFacts
  <2>10. PICK l \in Nat : l = Len(log)
    BY <1>0, Numbers
  <2>11. SpotOf(c[a]) = b + M /\ (b + M) + n <= l
    BY <1>2, <2>1, <2>3, <2>5, <2>7, <2>8, <2>10 DEF PlacedAs, SpotOf
  <2>12. x <= d.cur /\ entry[x] = c[a].ino /\ entry[x] # 0
    <3>1. x <= d.cur /\ entry[x] = c[a].ino
      BY <1>2, <2>1 DEF PlacedAs, LinkedAs
    <3> QED
      BY <1>0, <1>1, <3>1, Numbers, SMTT(30)
  <2>13. PICK t \in Nat : t = x + 1 /\ x <= t
    OBVIOUS
  <2>14. Base(t) + 0 < Len(log) /\ 0 < MaxShadowRec
    BY <2>2, <2>6, <2>9, <2>10, <2>11, <2>13
  <2>15. /\ t <= d.cur /\ 0 < Size(entry[t])
         /\ Size(entry[t]) < MaxShadowRec => Base(t) + Size(entry[t]) = Len(log)
    BY <2>12, <2>13, <2>14, PlaceInFile
  <2>16. s.ino = entry[t] /\ s.off = 0 /\ s.seq = t
    BY <1>3, <1>5, <2>12, <2>13, <2>15
  <2>17. LinkedAs(w)
    BY <1>9, <2>15, <2>16 DEF LinkedAs
  <2>18. w.off = w.acctsize /\ w.acctsize < w.size /\ w.size <= Size(w.ino)
    BY <1>6, <1>9, <2>15, <2>16
  <2>19. SpotOf(w) = SpotOf(c[a])
    BY <1>9, <2>9, <2>11, <2>13, <2>16 DEF SpotOf
  <2>20. w.size < MaxShadowRec => w.n <= w.size - w.acctsize
    <3>1. z < M => (b + M) + z = l
      BY <1>6, <2>2, <2>9, <2>10, <2>13, <2>15, <2>16
    <3>2. z < M => n <= z - 0
      BY <2>11, <3>1
    <3> QED
      BY <1>3, <1>9, <2>2, <2>5, <3>2
  <2> QED
    BY <2>17, <2>18, <2>19, <2>20
<1> QED
  BY <1>3, <1>4, <1>7, <1>8, <1>9, <1>10, <1>11, <1>12 DEF Turned

\* One turn of acctphotoproc reads the next record of the log.
LEMMA PhotoFacts ==
  ASSUME BatchFits, ShadowInv, NEW a \in Clients, acctphotoproc(a)
  PROVE  \E r \in AtopSet :
           /\ Become(a, r) /\ AtopOnly /\ Sound(r)
           /\ a \in Regular => /\ Spot(a) \in Nat /\ Spot(a) + 1 \in 1 .. Len(log)
                               /\ r.got = log[Spot(a) + 1]
<1>0. ShadowTypes /\ FileInv /\ LogInv /\ Sound(c[a]) /\ c[a] \in AtopSet /\ AtopOnly /\ c[a].pc = "sample"
  BY AtopIsSound DEF ShadowInv, acctphotoproc
<1> DEFINE After(w) == [w EXCEPT !.acctsize = @ + 1, !.n = @ - 1,
                               !.off = IF w.off < Size(w.ino) THEN @ + 1 ELSE @,
                               !.got = IF w.off < Size(w.ino) THEN content[w.ino][w.off + 1] ELSE @,
                               !.pc = IF w.n = 1 THEN "on" ELSE "sample"]
<1> DEFINE Next1 == [switchshadow(c[a], 1) EXCEPT !.size = Size(switchshadow(c[a], 1).ino), !.acctsize = 0]
<1>1. PICK w : Turned(c[a], w) /\ Become(a, After(w))
  <2>0. Become(a, After(IF c[a].acctsize < c[a].size THEN c[a] ELSE Next1))
    BY DEF acctphotoproc
  <2> HIDE DEF After
  <2>1. CASE c[a].acctsize < c[a].size
    BY <1>0, <2>0, <2>1, TurnHere
  <2>2. CASE ~(c[a].acctsize < c[a].size)
    <3>1. Turned(c[a], Next1)
      BY <1>0, <2>2, TurnNext
    <3> HIDE DEF Next1
    <3> QED
      BY <2>0, <2>2, <3>1
  <2> QED
    BY <2>1, <2>2
<1>2. w \in AtopSet /\ w.ino \in 1 .. Len(content)
  BY <1>1 DEF Turned
<1>3. PICK at \in Nat : at = w.acctsize
  BY <1>1 DEF Turned
<1>4. PICK o \in Nat : o = w.off
  BY <1>1 DEF Turned
<1>5. PICK n \in Int : n = w.n
  BY <1>2 DEF AtopSet
<1>6. PICK z \in Nat : z = Size(w.ino)
  BY <1>2, CountTypes
<1>7. content[w.ino] \in Seq(Nat) /\ Len(content[w.ino]) = z
  BY <1>0, <1>2, <1>6, Numbers, Contents DEF Size
<1>8. PICK g \in Nat : g = IF o < z THEN content[w.ino][o + 1] ELSE w.got
  <2>1. o < z => o + 1 \in 1 .. z
    OBVIOUS
  <2>2. o < z => content[w.ino][o + 1] \in Nat
    BY <1>7, <2>1
  <2>3. w.got \in Nat
    BY <1>2 DEF AtopSet
  <2> QED
    BY <2>2, <2>3
<1>9. PICK p \in {"on", "sample"} : p = IF n = 1 THEN "on" ELSE "sample"
  OBVIOUS
<1>10. PICK u \in Nat : u = IF o < z THEN o + 1 ELSE o
  OBVIOUS
<1>11. PICK v \in Nat : v = at + 1
  OBVIOUS
<1>12. PICK m \in Int : m = n - 1
  OBVIOUS
<1>13. PICK r : r = [w EXCEPT !.acctsize = v, !.n = m, !.off = u, !.got = g, !.pc = p]
  OBVIOUS
<1>14. Become(a, r)
  <2>1. /\ w.acctsize + 1 = v /\ w.n - 1 = m
        /\ (IF w.off < Size(w.ino) THEN w.off + 1 ELSE w.off) = u
        /\ (IF w.off < Size(w.ino) THEN content[w.ino][w.off + 1] ELSE w.got) = g
        /\ (IF w.n = 1 THEN "on" ELSE "sample") = p
    BY <1>3, <1>4, <1>5, <1>6, <1>8, <1>9, <1>10, <1>11, <1>12
  <2>2. [w EXCEPT !.acctsize = @ + 1, !.n = @ - 1,
                  !.off = IF w.off < Size(w.ino) THEN @ + 1 ELSE @,
                  !.got = IF w.off < Size(w.ino) THEN content[w.ino][w.off + 1] ELSE @,
                  !.pc = IF w.n = 1 THEN "on" ELSE "sample"] = r
    BY <1>2, <1>13, <2>1 DEF AtopSet
  <2> QED
    BY <1>1, <2>2
<1>15. r \in AtopSet
  <2>1. \A q \in AtopSet, x \in Int : [q EXCEPT !.acctsize = x] \in AtopSet
    BY DEF AtopSet
  <2>2. \A q \in AtopSet, x \in Int : [q EXCEPT !.n = x] \in AtopSet
    BY DEF AtopSet
  <2>3. \A q \in AtopSet, x \in Int : [q EXCEPT !.off = x] \in AtopSet
    BY DEF AtopSet
  <2>4. \A q \in AtopSet, x \in Nat : [q EXCEPT !.got = x] \in AtopSet
    BY DEF AtopSet
  <2>5. \A q \in AtopSet, x \in {"on", "sample"} : [q EXCEPT !.pc = x] \in AtopSet
    BY DEF AtopSet, AtopLabels
  <2>6. v \in Int /\ u \in Int
    OBVIOUS
  <2>7. [w EXCEPT !.acctsize = v] \in AtopSet
    BY <1>2, <2>1, <2>6
  <2>8. [[w EXCEPT !.acctsize = v] EXCEPT !.n = m] \in AtopSet
    BY <2>2, <2>7
  <2>9. [[[w EXCEPT !.acctsize = v] EXCEPT !.n = m] EXCEPT !.off = u] \in AtopSet
    BY <2>3, <2>6, <2>8
  <2>10. [[[[w EXCEPT !.acctsize = v] EXCEPT !.n = m] EXCEPT !.off = u] EXCEPT !.got = g] \in AtopSet
    BY <2>4, <2>9
  <2> QED
    BY <1>9, <1>13, <2>5, <2>10
<1>16. /\ r.acctsize = v /\ r.n = m /\ r.off = u /\ r.got = g /\ r.pc = p /\ r.seq = w.seq
       /\ r.ino = w.ino /\ r.size = w.size
  BY <1>2, <1>13 DEF AtopSet
<1>17. r.stray = c[a].stray
  <2>1. r.stray = w.stray
    BY <1>2, <1>13 DEF AtopSet
  <2> QED
    BY <1>1, <2>1 DEF Turned
<1>18. n >= 1 /\ w.size <= MaxShadowRec
  BY <1>0, <1>1, <1>5 DEF Turned, Sound
<1>19. p = "sample" => m >= 1
  BY <1>9, <1>12, <1>18
<1>20. ASSUME ~c[a].stray
       PROVE  /\ PlacedAs(r) /\ SpotOf(c[a]) \in Nat /\ SpotOf(c[a]) + 1 \in 1 .. Len(log)
              /\ r.got = log[SpotOf(c[a]) + 1]
  <2>1. PICK y \in Nat : y = w.size
    BY <1>2 DEF AtopSet
  <2>2. PICK s \in Nat : s = w.seq
    BY <1>2 DEF AtopSet
  <2>3. PICK b \in Nat : b = Base(s)
    BY BaseFacts
  <2>4. PICK l \in Nat : l = Len(log)
    BY <1>0, Numbers
  <2>5. LinkedAs(w) /\ o = at /\ at < y /\ y <= z /\ SpotOf(c[a]) = b + at
    BY <1>1, <1>3, <1>4, <1>6, <1>20, <2>1, <2>2, <2>3 DEF Turned, SpotOf
  <2>6. y < MaxShadowRec => n <= y - at
    BY <1>1, <1>3, <1>5, <1>20, <2>1 DEF Turned
  <2>7. (b + at) + n <= l
    <3>1. SpotOf(c[a]) + c[a].n <= Len(log) /\ w.n = c[a].n
      BY <1>0, <1>1, <1>20 DEF Sound, PlacedAs, Connected, Turned
    <3> QED
      BY <1>5, <2>4, <2>5, <3>1
  <2>8. SpotOf(r) = (b + at) + 1
    BY <1>11, <1>16, <2>2, <2>3 DEF SpotOf
  <2>9. g = log[(b + at) + 1]
    <3>1. s <= d.cur /\ entry[s] = w.ino /\ entry[s] # 0
      <4>1. s <= d.cur /\ entry[s] = w.ino
        BY <2>2, <2>5 DEF LinkedAs
      <4> QED
        BY <1>0, <1>2, <4>1, Numbers
    <3>2. s \in 0 .. d.cur /\ s \in s .. d.cur
      BY <1>0, <3>1, Numbers
    <3>3. Whole(s)
      BY <1>0, <3>1, <3>2 DEF LogInv
    <3>4. at + 1 \in 1 .. z
      BY <2>5
    <3>5. content[w.ino][at + 1] = log[b + (at + 1)]
      BY <1>7, <2>3, <3>1, <3>3, <3>4 DEF Whole
    <3>6. g = content[w.ino][at + 1]
      BY <1>8, <2>5
    <3>7. b + (at + 1) = (b + at) + 1
      OBVIOUS
    <3> QED
      BY <3>5, <3>6, <3>7
  <2>10. (b + at) + 1 \in 1 .. l /\ b + at \in Nat
    BY <1>18, <2>7
  <2>11. LinkedAs(r)
    BY <1>16, <2>5 DEF LinkedAs
  <2>12. u = v /\ v \in 0 .. z /\ v <= y /\ (y < MaxShadowRec => m <= y - v) /\ ((b + at) + 1) + m <= l
    <3>1. u = v /\ v <= y
      BY <1>10, <1>11, <2>5
    <3>2. v \in 0 .. z
      BY <1>11, <2>5
    <3>3. ((b + at) + 1) + m <= l
      BY <1>12, <2>7
    <3>4. y < MaxShadowRec => m <= y - v
      BY <1>11, <1>12, <2>6
    <3> QED
      BY <3>1, <3>2, <3>3, <3>4
  <2>13. PICK e \in Nat : e = SpotOf(r) /\ e = (b + at) + 1 /\ e \in 1 .. e
    BY <2>8
  <2>14. PlacedAs(r)
    <3>1. LinkedAs(r) /\ r.acctsize \in 0 .. Len(content[r.ino]) /\ r.off = r.acctsize
      BY <1>7, <1>16, <2>11, <2>12
    <3>2. \E k \in 1 .. SpotOf(r) : r.got = log[k]
      BY <1>16, <2>9, <2>13
    <3>3. r.got = log[SpotOf(r)]
      BY <1>16, <2>9, <2>13
    <3>4. r.pc = "sample" =>
            /\ r.n >= 1 /\ SpotOf(r) + r.n <= Len(log)
            /\ r.acctsize <= r.size /\ r.size <= Len(content[r.ino])
            /\ r.size < MaxShadowRec => r.n <= r.size - r.acctsize
      BY <1>7, <1>16, <1>19, <2>1, <2>4, <2>5, <2>8, <2>12
    <3> QED
      BY <3>1, <3>2, <3>3, <3>4 DEF PlacedAs
  <2> QED
    BY <1>16, <2>4, <2>5, <2>9, <2>10, <2>14
<1>21. Sound(r)
  <2>1. r.acctsize >= 0 /\ r.off >= 0 /\ r.ino \in 1 .. Len(content) /\ r.size <= MaxShadowRec
    BY <1>2, <1>16, <1>18
  <2>2. r.pc \in {"on", "sample"} /\ (r.pc = "sample" => r.n >= 1)
    BY <1>9, <1>16, <1>19
  <2>3. ~r.stray => PlacedAs(r)
    BY <1>17, <1>20
  <2> QED
    BY <2>1, <2>2, <2>3 DEF Sound
<1>22. a \in Regular => ~c[a].stray
  BY DEF Regular
<1>23. Spot(a) = SpotOf(c[a])
  BY DEF Spot, SpotOf
<1> QED
  BY <1>0, <1>14, <1>15, <1>20, <1>21, <1>22, <1>23

---------------------------------------------------------------------------
(* The theorems.                                                             *)

\* Every step of an atop keeps the invariant.
LEMMA AtopInvStep ==
  ASSUME BatchFits, ShadowInv, NEW a \in Clients, Atop(a)
  PROVE  ShadowInv'
<1>1. CASE Claim(a) \/ Leave(a)
  BY <1>1, ClaimInv
<1>2. CASE ReadCurrent(a)
  BY <1>2, ReadCurrentInv
<1>3. CASE Open(a)
  BY <1>3, OpenInv
<1>4. CASE acctvers(a)
  BY <1>4, VersInv
<1>5. CASE Lock(a)
  BY <1>5, LockInv
<1>6. CASE Count(a)
  BY <1>6, CountInv
<1>7. CASE acctphotoproc(a)
  BY <1>7, PhotoFacts, AtopStep
<1> QED
  BY <1>1, <1>2, <1>3, <1>4, <1>5, <1>6, <1>7 DEF Atop

\* So does every step of the daemon and the kernel.
LEMMA ShadowStep ==
  ASSUME BatchFits, ShadowInv, [Next]_vars
  PROVE  ShadowInv'
<1>1. CASE UNCHANGED vars
  <2>0. UNCHANGED <<born, on, source, dir, entry, content, current, d, c, log>>
    BY <1>1 DEF vars
  <2>1. ShadowTypes' /\ FileInv' /\ CurrentInv' /\ OrderInv'
    BY <2>0 DEF ShadowInv, ShadowTypes, FileInv, CurrentInv, OrderInv
  <2>2. LogInv' /\ DaemonInv'
    BY <2>0 DEF ShadowInv, LogInv, Whole, Held, Base, DaemonInv, Running
  <2>3. \A a \in Clients : AtopInv(a)'
    BY <2>0 DEF ShadowInv, AtopInv, AtopPlaced, Linked, Spot, Base, Regular
  <2> QED
    BY <2>1, <2>2, <2>3 DEF ShadowInv
<1>2. CASE Exit
  BY <1>2, ExitInv
<1>3. CASE Start
  BY <1>3, StartInv
<1>4. CASE Die
  BY <1>4, DieInv DEF Die, kernel
<1>5. CASE Stop
  BY <1>5, StopInv
<1>6. CASE Collect
  BY <1>6, CollectInv
<1>7. CASE awaitprocterm
  <2>1. CASE ReadSource
    BY <2>1, ReadSourceInv
  <2>2. CASE Reactivate
    BY <2>2, ReactivateInv
  <2>3. CASE TruncateSource
    BY <2>3, TruncateSourceInv
  <2>4. CASE NumClients
    BY <2>4, NumClientsInv
  <2>5. CASE Reset
    BY <2>5, ResetInv
  <2>6. CASE Recreate
    BY <2>6, RecreateInv
  <2>7. CASE Pass
    BY <2>7, PassInv
  <2>8. CASE NextFile
    BY <2>8, NextFileInv
  <2>9. CASE WipeCurrent \/ setcurrent
    BY <2>9, SetCurrentInv
  <2>10. CASE PassRest
    BY <2>10, PassRestInv
  <2> QED
    BY <1>7, <2>1, <2>2, <2>3, <2>4, <2>5, <2>6, <2>7, <2>8, <2>9, <2>10 DEF awaitprocterm
<1>8. CASE \E a \in Clients : Atop(a)
  BY <1>8, AtopInvStep
<1> QED
  BY <1>1, <1>2, <1>3, <1>4, <1>5, <1>6, <1>7, <1>8 DEF Next

\* It holds at the start: nothing is there, and nobody runs.
LEMMA ShadowStart ==
  ASSUME BatchFits, Init
  PROVE  ShadowInv
<1>0. /\ MaxShadowRec \in Nat /\ MaxSeq \in Nat /\ MaxRec \in Nat
  BY DEF BatchFits
<1>1. /\ d.pc = "never" /\ d.cur = 0 /\ d.stot = 0 /\ d.buf = << >> /\ d.old = 0 /\ d.afd = 0
  BY DEF Init, Daemon0
<1>2. d \in DaemonSet
  <2>1. [f \in 1 .. 2 |-> 0] \in [1 .. 2 -> Nat]
    OBVIOUS
  <2>2. 0 \in 0 .. MaxSeq /\ 0 \in 0 .. MaxShadowRec /\ << >> \in Seq(Nat)
    BY <1>0
  <2> QED
    BY <2>1, <2>2 DEF Init, Daemon0, DaemonSet, DaemonLabels
<1>3. c \in [Clients -> AtopSet] /\ \A a \in Clients : c[a] = Client0
  BY ClientTypes DEF Init
<1>4. entry \in [0 .. MaxSeq -> Nat] /\ \A s \in 0 .. MaxSeq : entry[s] = 0
  BY DEF Init, NoEntry
<1>5. /\ content = << >> /\ log = << >> /\ source = << >> /\ current = -2 /\ born = 0 /\ on = FALSE /\ dir = FALSE
  BY DEF Init, NoFile
<1>6. ShadowTypes
  BY <1>0, <1>2, <1>3, <1>4, <1>5 DEF ShadowTypes
<1>7. /\ Len(content) = 0 /\ Len(log) = 0 /\ Len(source) = 0 /\ Len(d.buf) = 0
      /\ 1 .. Len(content) = {} /\ 1 .. Len(log) = {} /\ 1 .. Len(source) = {} /\ 1 .. Len(d.buf) = {}
  <2>1. Len(content) = 0 /\ Len(log) = 0 /\ Len(source) = 0 /\ Len(d.buf) = 0
    BY <1>1, <1>5
  <2> QED
    BY <2>1
<1>8. FileInv
  BY <1>4, <1>7 DEF FileInv
<1>9. LogInv
  <2>1. 0 .. 0 \subseteq 0 .. MaxSeq
    BY <1>0
  <2> QED
    BY <1>1, <1>4, <1>7, <2>1, BaseFacts DEF LogInv
<1>10. DaemonInv /\ CurrentInv
  BY <1>1, <1>5 DEF DaemonInv, CurrentInv, Running, Writing
<1>11. OrderInv
  <2>1. d.afd + 1 .. Len(source) = {}
    BY <1>1, <1>7
  <2> QED
    BY <1>7, <2>1 DEF OrderInv, Ascending
<1>12. \A a \in Clients : AtopInv(a)
  BY <1>3, ClientTypes DEF AtopInv, Regular, Connected
<1> QED
  BY <1>6, <1>8, <1>9, <1>10, <1>11, <1>12 DEF ShadowInv

\* A file that is there holds exactly its piece of the log.
LEMMA PieceOfLog ==
  ASSUME BatchFits, ShadowInv, NEW s \in 0 .. d.cur, entry[s] # 0
  PROVE  content[entry[s]] = SubSeq(log, s * MaxShadowRec + 1, Min({Len(log), (s + 1) * MaxShadowRec}))
<1>0. ShadowTypes /\ FileInv /\ LogInv /\ OrderInv /\ s \in Nat /\ s \in s .. d.cur /\ s \in 0 .. MaxSeq
  <2>1. ShadowTypes /\ FileInv /\ LogInv /\ OrderInv
    BY DEF ShadowInv
  <2> QED
    BY <2>1, Numbers
<1>1. Whole(s)
  BY <1>0 DEF LogInv
<1>2. PICK b \in Nat : b = Base(s)
  BY <1>0, BaseFacts
<1>3. PICK M \in Nat : M = MaxShadowRec
  BY <1>0, Numbers
<1>4. PICK l \in Nat : l = Len(log)
  BY <1>0, Numbers
<1>5. PICK h \in Nat : h = Held(s) /\ h <= M /\ b + h <= l /\ (h < M => b + h = l)
  <2>1. /\ Held(s) \in 0 .. MaxShadowRec /\ Base(s) + Held(s) <= Len(log)
        /\ Held(s) < MaxShadowRec => Base(s) + Held(s) = Len(log)
    BY <1>0, WholeInLog
  <2> QED
    BY <1>2, <1>3, <1>4, <2>1
<1>6. (s + 1) * MaxShadowRec = b + M /\ s * MaxShadowRec = b
  BY <1>0, <1>2, <1>3, BaseFacts DEF Base
<1>7. Min({l, b + M}) = b + h
  BY <1>5, MinOfTwo
<1>8. PICK f : f = content[entry[s]]
  OBVIOUS
<1>9. PICK p : p = SubSeq(log, b + 1, b + h)
  OBVIOUS
<1>10. log \in Seq(Nat) /\ Ascending(log) /\ b <= b + h /\ b + h <= Len(log) /\ b + h \in Nat
  BY <1>0, <1>4, <1>5, Numbers, SMTT(30) DEF OrderInv
<1>11. IsPiece(p, log, b, b + h)
  BY <1>9, <1>10, PieceOf
<1>12. p \in Seq(Nat) /\ Len(p) = h /\ \A k \in 1 .. h : p[k] = log[b + k]
  <2>1. p \in Seq(Nat) /\ Len(p) = (b + h) - b /\ \A k \in 1 .. Len(p) : p[k] = log[b + k]
    BY <1>11 DEF IsPiece
  <2> QED
    BY <2>1
<1>13. f \in Seq(Nat) /\ Len(f) = h /\ \A k \in 1 .. h : f[k] = log[b + k]
  BY <1>0, <1>1, <1>2, <1>5, <1>8, NamedFile DEF Whole
<1>14. f = p
  <2>1. Len(f) = Len(p) /\ \A k \in 1 .. Len(f) : f[k] = p[k]
    BY <1>12, <1>13
  <2> QED
    BY <1>12, <1>13, <2>1, SeqEqual
<1> QED
  BY <1>4, <1>6, <1>7, <1>8, <1>9, <1>14

\* What the invariant says of the files.
LEMMA WholeFromInv ==
  ASSUME BatchFits, ShadowInv
  PROVE  ShadowIsWhole
<1>0. ShadowTypes /\ FileInv /\ LogInv /\ DaemonInv
  BY DEF ShadowInv
<1>1. TypeOK
  <2>1. ASSUME NEW a \in Regular PROVE c[a].acctsize \in 0 .. MaxShadowRec
    <3>0. a \in Clients /\ a \in Regular
      BY DEF Regular
    <3>1. PlacedAs(c[a]) /\ c[a].ino \in 1 .. Len(content)
      BY <3>0, AtopIsSound DEF Regular, Sound, Connected
    <3>2. Len(content[c[a].ino]) <= MaxShadowRec /\ Len(content[c[a].ino]) \in Nat
      BY <1>0, <3>1, Contents DEF FileInv, ShadowTypes
    <3> QED
      BY <1>0, <3>1, <3>2, Numbers, SMTT(30) DEF PlacedAs
  <2> QED
    BY <1>0, <2>1, DaemonFields DEF TypeOK, ShadowTypes, FileInv
<1>2. FilesAreTheLog
  <2>1. ASSUME NEW s \in d.old .. d.cur, entry[s] # 0
        PROVE  content[entry[s]] = SubSeq(log, s * MaxShadowRec + 1, Min({Len(log), (s + 1) * MaxShadowRec}))
    <3>1. s \in 0 .. d.cur
      BY <1>0, Numbers
    <3> QED
      BY <2>1, <3>1, PieceOfLog
  <2> QED
    BY <2>1 DEF FilesAreTheLog
<1>3. SfdIsCurrent
  BY <1>0 DEF SfdIsCurrent, DaemonInv, Running, Writing
<1> QED
  BY <1>1, <1>2, <1>3 DEF ShadowIsWhole

\* What it says of the atops.
LEMMA FindsFromInv ==
  ASSUME BatchFits, ShadowInv
  PROVE  AtopFindsAll
<1>0. ShadowTypes /\ FileInv /\ LogInv /\ DaemonInv
  BY DEF ShadowInv
<1>1. ASSUME NEW a \in Regular
      PROVE  /\ a \in Clients /\ c[a] \in AtopSet /\ PlacedAs(c[a]) /\ c[a].ino \in 1 .. Len(content)
             /\ c[a].seq \in Nat /\ Place(a) = SpotOf(c[a])
  <2>1. a \in Clients
    BY DEF Regular
  <2>2. PlacedAs(c[a]) /\ c[a].ino \in 1 .. Len(content) /\ c[a] \in AtopSet
    BY <2>1, AtopIsSound DEF Regular, Sound, Connected
  <2> QED
    BY <2>1, <2>2 DEF AtopSet, Place, SpotOf, Base
<1>2. NothingMissing
  <2>1. ASSUME NEW a \in Regular, NEW s \in c[a].seq .. d.cur PROVE entry[s] # 0
    <3>1. PICK x \in Nat : x = c[a].seq
      BY <1>1
    <3>2. entry[x] # 0 /\ x \in 0 .. d.cur /\ s \in x .. d.cur
      <4>1. x <= d.cur /\ entry[x] = c[a].ino
        BY <1>1, <3>1 DEF PlacedAs, LinkedAs
      <4>2. c[a].ino # 0
        BY <1>0, <1>1, Numbers
      <4> QED
        BY <1>0, <3>1, <4>1, <4>2, Numbers
    <3> QED
      BY <1>0, <3>2 DEF LogInv, Whole
  <2> QED
    BY <2>1 DEF NothingMissing
<1>3. CountIsRight
  <2>1. ASSUME NEW a \in Regular
        PROVE  /\ acctprocnt(c[a]) \in 0 .. Len(log) - Place(a)
               /\ d.pc = "loop" => acctprocnt(c[a]) = Len(log) - Place(a)
    <3>1. PICK at \in Nat : at = c[a].acctsize
      <4>1. Len(content[c[a].ino]) \in Nat
        BY <1>0, <1>1, Contents DEF ShadowTypes
      <4>2. c[a].acctsize \in 0 .. Len(content[c[a].ino])
        BY <1>1 DEF PlacedAs
      <4> QED
        BY <4>1, <4>2
    <3>2. LinkedAs(c[a]) /\ at <= Size(c[a].ino) /\ Size(c[a].ino) \in Nat
      <4>1. Size(c[a].ino) \in Nat
        BY <1>1, CountTypes
      <4> QED
        BY <1>1, <3>1, <4>1 DEF PlacedAs, Size
    <3>3. PICK n \in Int : n = acctprocnt(c[a])
      BY <1>1, CountTypes
    <3>4. /\ Place(a) \in Nat /\ Len(log) \in Nat
          /\ Place(a) + n <= Len(log) /\ n >= Size(c[a].ino) - at
          /\ current = d.cur => Place(a) + n = Len(log)
      <4>1. c[a].acctsize \in Nat
        BY <3>1
      <4> QED
        BY <1>1, <3>1, <3>2, <3>3, <4>1, CountFacts
    <3>5. d.pc = "loop" => current = d.cur
      BY <1>0 DEF DaemonInv, Running
    <3>6. n >= 0
      BY <3>2, <3>4
    <3>7. n \in 0 .. Len(log) - Place(a) /\ (d.pc = "loop" => n = Len(log) - Place(a))
      BY <3>4, <3>5, <3>6
    <3> QED
      BY <3>3, <3>7
  <2> QED
    BY <2>1 DEF CountIsRight
<1>4. InStep
  BY <1>1 DEF InStep, PlacedAs
<1> QED
  BY <1>2, <1>3, <1>4 DEF AtopFindsAll

\* A step that gives an atop another place gives it a later record.
LEMMA LaterRecord ==
  ASSUME BatchFits, ShadowInv, [Next]_vars, NEW a \in Regular, c[a].pc = "sample",
         c'[a].acctsize # c[a].acctsize
  PROVE  c'[a].got > c[a].got \/ c'[a].pc = "off"
<1>0. a \in Clients /\ c \in [Clients -> AtopSet] /\ c[a] \in AtopSet
  BY DEF Regular, ShadowInv, ShadowTypes
<1>1. Atop(a)
  <2>1. c' # c
    OBVIOUS
  <2>2. ASSUME c' = [b \in Clients |-> [c[b] EXCEPT !.stray = b \in Claimed]] PROVE FALSE
    <3>1. c'[a] = [c[a] EXCEPT !.stray = a \in Claimed]
      BY <1>0, <2>2
    <3>2. c'[a].acctsize = c[a].acctsize
      BY <1>0, <3>1 DEF AtopSet
    <3> QED
      BY <3>2
  <2>3. ASSUME NEW b \in Clients, b # a, Atop(b) PROVE FALSE
    <3>1. PICK r : Become(b, r)
      BY <2>3 DEF Atop, Claim, ReadCurrent, Open, acctvers, Lock, Count, acctphotoproc, Leave
    <3>2. c'[a] = c[a]
      BY <1>0, <2>3, <3>1 DEF Become
    <3> QED
      BY <3>2
  <2>4. ~(UNCHANGED vars) /\ ~Exit /\ ~Die /\ ~Collect
    BY <2>1 DEF vars, Exit, Die, Collect
  <2>5. ~Start /\ ~Stop
    BY <2>1, <2>2 DEF Start, Stop
  <2>6. ~awaitprocterm
    <3>1. ~ReadSource /\ ~Reactivate /\ ~TruncateSource /\ ~NumClients /\ ~Reset
      BY <2>1 DEF ReadSource, Reactivate, TruncateSource, NumClients, Reset
    <3>2. ~Pass /\ ~NextFile /\ ~WipeCurrent /\ ~setcurrent /\ ~PassRest
      BY <2>1 DEF Pass, NextFile, WipeCurrent, setcurrent, PassRest
    <3>3. ~Recreate
      BY <2>2 DEF Recreate
    <3> QED
      BY <3>1, <3>2, <3>3 DEF awaitprocterm
  <2> QED
    BY <2>3, <2>4, <2>5, <2>6 DEF Next
<1>2. acctphotoproc(a) \/ Leave(a)
  BY <1>1 DEF Atop, Claim, ReadCurrent, Open, acctvers, Lock, Count
<1>3. CASE Leave(a)
  <2>1. c'[a] = Client0
    BY <1>0, <1>3 DEF Leave, Become
  <2> QED
    BY <2>1, ClientTypes
<1>4. CASE acctphotoproc(a)
  <2>1. PICK r \in AtopSet : /\ Become(a, r) /\ Spot(a) \in Nat /\ Spot(a) + 1 \in 1 .. Len(log)
                             /\ r.got = log[Spot(a) + 1]
    BY <1>0, <1>4, PhotoFacts
  <2>2. c'[a] = r
    BY <1>0, <2>1 DEF Become
  <2>3. /\ Ascending(log) /\ log \in Seq(Nat) /\ \A k \in 1 .. Len(log) : log[k] \in 1 .. born
        /\ born \in Nat /\ Len(log) \in Nat
    BY DEF ShadowInv, OrderInv, ShadowTypes
  <2>4. PICK e \in Nat : e = Spot(a)
    BY <2>1
  <2>5. e + 1 \in 1 .. Len(log) /\ r.got = log[e + 1] /\ log[e + 1] \in 1 .. born
    BY <2>1, <2>3, <2>4
  <2>6. CASE c[a].got = 0
    BY <2>2, <2>3, <2>5, <2>6
  <2>7. CASE c[a].got # 0
    <3>1. PICK k \in 1 .. e : c[a].got = log[k]
      BY <1>0, <2>4, <2>7 DEF ShadowInv, AtopInv, AtopPlaced
    <3>2. k \in 1 .. Len(log) /\ k < e + 1
      BY <2>3, <2>5, <3>1
    <3>3. log[k] < log[e + 1] /\ log[k] \in Nat /\ log[e + 1] \in Nat
      BY <2>3, <2>5, <3>2 DEF Ascending
    <3> QED
      BY <2>2, <2>5, <3>1, <3>3
  <2> QED
    BY <2>6, <2>7
<1> QED
  BY <1>2, <1>3, <1>4

\* The shadow files are the kernel's records, cut in pieces and nothing else,
\* and the daemon keeps writing to the newest of them: in every state, for any
\* number of atops and any size of a shadow file (awaitprocterm, pass2shadow,
\* createshadow, gcshadows).
THEOREM ShadowFilesWhole ==
  ASSUME BatchFits
  PROVE  Spec => []ShadowIsWhole
<1>1. Init => ShadowInv
  BY ShadowStart
<1>2. ShadowInv /\ [Next]_vars => ShadowInv'
  BY ShadowStep
<1>3. ShadowInv => ShadowIsWhole
  BY WholeFromInv
<1> QED
  BY <1>1, <1>2, <1>3, PTL DEF Spec

\* An atop that locked its file in time finds all the files from there on,
\* counts exactly the records that were passed on behind the last one it read,
\* and is at the place of that record (acctprocnt, acctrepos, switchshadow).
THEOREM AtopsFindAll ==
  ASSUME BatchFits
  PROVE  Spec => []AtopFindsAll
<1>1. Init => ShadowInv
  BY ShadowStart
<1>2. ShadowInv /\ [Next]_vars => ShadowInv'
  BY ShadowStep
<1>3. ShadowInv => AtopFindsAll
  BY FindsFromInv
<1> QED
  BY <1>1, <1>2, <1>3, PTL DEF Spec

\* And it reads no record twice, nor one from before it started
\* (acctphotoproc), however the daemon, the kernel and other atops go on.
THEOREM RecordsReadOnce ==
  ASSUME BatchFits
  PROVE  Spec => NeverTwice
<1> DEFINE Later == \A a \in Regular : c[a].pc = "sample" /\ c'[a].acctsize # c[a].acctsize =>
                                         c'[a].got > c[a].got \/ c'[a].pc = "off"
<1>1. Init => ShadowInv
  BY ShadowStart
<1>2. ShadowInv /\ [Next]_vars => ShadowInv'
  BY ShadowStep
<1>3. ShadowInv /\ [Next]_vars => [Later]_vars
  BY LaterRecord
<1> QED
  BY <1>1, <1>2, <1>3, PTL DEF Spec, NeverTwice

---------------------------------------------------------------------------
(* Private accounting.                                                       *)

---------------------------------------------------------------------------
(* The inductive invariant.                                                  *)

PrivateLabels == {"off", "standard", "setall", "claim", "create", "open", "vers", "on", "size", "trial",
           "trialmutex", "leave", "last", "half"}
UserLabels == {"vers", "on", "size", "trial", "trialmutex", "leave"}

PrivateTypes ==
  /\ group \in {"absent", "created", "ready"} /\ mutex \in {0, 1} /\ counter \in Int
  /\ pdir \in BOOLEAN /\ file \in 0 .. MaxFiles /\ size \in [1 .. MaxFiles -> Nat]
  /\ target \in 0 .. MaxFiles + 1 /\ suspended \in BOOLEAN
  /\ priv \subseteq Atops
  /\ pc \in [Atops -> PrivateLabels] /\ fd \in [Atops -> 0 .. MaxFiles]
  /\ acctsize \in [Atops -> Nat] /\ acctatop \in [Atops -> BOOLEAN]
  /\ killed \in BOOLEAN /\ foreign \in BOOLEAN

\* Before the values of the semaphores are set nobody gets past the claim, and
\* one atop sets them; after that one holder of the mutex at most.
MutexInv ==
  /\ group = "absent" => \A p \in Atops : pc[p] \in {"off", "standard"}
  /\ group = "created" => \A p \in Atops : pc[p] \in {"off", "standard", "setall", "claim"}
  /\ group # "ready" => mutex = 0
  /\ group = "ready" => \A p \in Atops : pc[p] # "setall"
  /\ \A p, q \in Atops : pc[p] = "setall" /\ pc[q] = "setall" => p = q
  /\ mutex = 1 => \A p \in Atops : pc[p] \notin HasMutex
  /\ \A p, q \in Atops : pc[p] \in HasMutex /\ pc[q] \in HasMutex => p = q

\* Which atops have the file open, and know that they have.
OwnInv ==
  \A p \in Atops :
    /\ pc[p] \in UserLabels \cup {"last"} => fd[p] # 0 /\ p \in priv
    /\ pc[p] \notin UserLabels \cup {"last"} => fd[p] = 0
    /\ pc[p] \in UserLabels \ {"leave"} => acctatop[p]

\* Without interference there is one file, the one that the kernel writes to.
PrivateFileInv ==
  /\ pdir <=> file # 0
  /\ ~foreign => /\ target = file /\ ~suspended
                 /\ \A p \in Atops : pc[p] # "half" /\ (fd[p] # 0 => fd[p] = file)

\* An atop that will remove the file: there is one as long as the file exists,
\* unless one was killed.
Keeper(p) == pc[p] \in UserLabels \cup {"last"} \/ (pc[p] = "open" /\ p \in priv)
KeepsFileInv == ~killed /\ ~foreign /\ file # 0 => \E p \in Atops : Keeper(p)

Counted == {p \in Atops : pc[p] \in UserLabels \cup {"half"}}

CounterInv == group = "ready" => counter = ATOPACCTTOT - Cardinality(Counted)

AccountingInv == PrivateTypes /\ MutexInv /\ OwnInv /\ PrivateFileInv /\ KeepsFileInv /\ CounterInv

---------------------------------------------------------------------------
(* How one step of an atop changes the number of atops that are counted.     *)

IsCounted(l) == l \in UserLabels \cup {"half"}

\* The atops that take part are finitely many.
LEMMA CountedFinite ==
  ASSUME AccountingAssumption
  PROVE  IsFiniteSet(Counted) /\ Cardinality(Counted) \in 0 .. ATOPACCTTOT
<1>1. Counted \in SUBSET Atops
  BY DEF Counted
<1>2. IsFiniteSet(Counted) /\ Cardinality(Counted) <= Cardinality(Atops)
  BY <1>1, FS_Subset DEF AccountingAssumption
<1>3. Cardinality(Counted) \in Nat /\ Cardinality(Atops) \in Nat
  BY <1>2, FS_CardinalityType DEF AccountingAssumption
<1> QED
  BY <1>2, <1>3 DEF AccountingAssumption

\* An atop that goes from one place of the program to another joins or leaves
\* the counted ones by the two places alone.
LEMMA CountedGoto ==
  ASSUME AccountingAssumption, PrivateTypes, NEW p \in Atops, NEW l \in PrivateLabels, Goto(p, l)
  PROVE  /\ IsCounted(pc[p]) /\ IsCounted(l) => Counted' = Counted
         /\ ~IsCounted(pc[p]) /\ ~IsCounted(l) => Counted' = Counted
         /\ IsCounted(pc[p]) /\ ~IsCounted(l) => Cardinality(Counted') = Cardinality(Counted) - 1
         /\ ~IsCounted(pc[p]) /\ IsCounted(l) => Cardinality(Counted') = Cardinality(Counted) + 1
<1>1. \A q \in Atops : pc'[q] = IF q = p THEN l ELSE pc[q]
  BY DEF PrivateTypes, Goto
<1>2. p \in Counted <=> IsCounted(pc[p])
  BY DEF Counted, IsCounted
<1>3. IsFiniteSet(Counted)
  BY CountedFinite
<1>4. IsCounted(l) => Counted' = Counted \cup {p}
  BY <1>1 DEF Counted, IsCounted
<1>5. ~IsCounted(l) => Counted' = Counted \ {p}
  BY <1>1 DEF Counted, IsCounted
<1>6. Cardinality(Counted \cup {p}) = IF p \in Counted THEN Cardinality(Counted) ELSE Cardinality(Counted) + 1
  BY <1>3, FS_AddElement
<1>7. Cardinality(Counted \ {p}) = IF p \in Counted THEN Cardinality(Counted) - 1 ELSE Cardinality(Counted)
  BY <1>3, FS_RemoveElement
<1>8. IsCounted(pc[p]) /\ IsCounted(l) => Counted' = Counted
  BY <1>2, <1>4
<1>9. ~IsCounted(pc[p]) /\ ~IsCounted(l) => Counted' = Counted
  BY <1>2, <1>5
<1> QED
  BY <1>2, <1>4, <1>5, <1>6, <1>7, <1>8, <1>9

\* The first user: with the counter at its total nobody is counted, and when
\* the mutex is held by one that has no file, no atop has the file open.
LEMMA FirstIsAlone ==
  ASSUME AccountingAssumption, AccountingInv, NEW p \in Atops, pc[p] \in HasMutex, IsFirst
  PROVE  /\ Counted = {}
         /\ pc[p] # "last" => \A q \in Atops : fd[q] = 0
<1>1. group = "ready"
  BY DEF AccountingInv, MutexInv, HasMutex, PrivateTypes
<1>2. IsFiniteSet(Counted) /\ Cardinality(Counted) \in Nat
  BY CountedFinite
<1>3. Cardinality(Counted) = 0
  BY <1>1, <1>2 DEF AccountingInv, CounterInv, IsFirst, AccountingAssumption
<1>4. Counted = {}
  BY <1>2, <1>3, FS_EmptySet
<1>5. ASSUME pc[p] # "last", NEW q \in Atops PROVE fd[q] = 0
  <2>1. pc[q] \notin UserLabels
    BY <1>4 DEF Counted
  <2>2. pc[q] # "last"
    BY <1>5 DEF AccountingInv, MutexInv, HasMutex
  <2> QED
    BY <2>1, <2>2 DEF AccountingInv, OwnInv
<1> QED
  BY <1>4, <1>5

\* An atop that goes on stays a keeper, or was none; the others are not
\* concerned.
LEMMA KeeperGoes ==
  ASSUME PrivateTypes, KeepsFileInv, NEW p \in Atops, NEW l \in PrivateLabels, Goto(p, l),
         UNCHANGED <<file, priv, killed, foreign>>,
         Keeper(p) => l \in UserLabels \cup {"last"}
  PROVE  KeepsFileInv'
<1> SUFFICES ASSUME ~killed, ~foreign, file # 0
             PROVE  \E q \in Atops : Keeper(q)'
  BY DEF KeepsFileInv
<1>1. PICK q \in Atops : Keeper(q)
  BY DEF KeepsFileInv
<1>2. Keeper(q)'
  BY <1>1 DEF Keeper, PrivateTypes, Goto
<1> QED
  BY <1>2

\* An atop that goes on without the mutex, keeps it, or gives it back.
LEMMA MutexGoes ==
  ASSUME PrivateTypes, MutexInv, NEW p \in Atops, NEW l \in PrivateLabels, Goto(p, l), UNCHANGED group,
         l # "setall", group = "absent" => l \in {"off", "standard"},
         group = "created" => l \in {"off", "standard", "claim"},
         \/ mutex' = mutex /\ (l \in HasMutex => pc[p] \in HasMutex)
         \/ mutex' = 1 /\ pc[p] \in HasMutex /\ l \notin HasMutex
  PROVE  MutexInv'
<1>1. \A q \in Atops : pc'[q] = IF q = p THEN l ELSE pc[q]
  BY DEF PrivateTypes, Goto
<1>2. pc[p] \in HasMutex => group = "ready"
  BY DEF MutexInv, HasMutex, PrivateTypes
<1>3. /\ group' = "absent" => \A q \in Atops : pc'[q] \in {"off", "standard"}
      /\ group' = "created" => \A q \in Atops : pc'[q] \in {"off", "standard", "setall", "claim"}
      /\ group' = "ready" => \A q \in Atops : pc'[q] # "setall"
      /\ \A q, r \in Atops : pc'[q] = "setall" /\ pc'[r] = "setall" => q = r
  BY <1>1 DEF MutexInv
<1>4. group' # "ready" => mutex' = 0
  BY <1>2 DEF MutexInv
<1>5. mutex' = 1 => \A q \in Atops : pc'[q] \notin HasMutex
  BY <1>1 DEF MutexInv, PrivateTypes
<1>6. \A q, r \in Atops : pc'[q] \in HasMutex /\ pc'[r] \in HasMutex => q = r
  BY <1>1 DEF MutexInv
<1> QED
  BY <1>3, <1>4, <1>5, <1>6 DEF MutexInv, HasMutex

\* An atop past the claim: the group is ready.
LEMMA PastClaim ==
  ASSUME PrivateTypes, MutexInv, NEW p \in Atops, pc[p] \notin {"off", "standard", "setall", "claim"}
  PROVE  group = "ready"
  BY DEF PrivateTypes, MutexInv

\* Without privileges, or with them, Remove keeps the types.
LEMMA RemoveTypes ==
  ASSUME AccountingAssumption, PrivateTypes, NEW p \in Atops, Remove(p)
  PROVE  file' \in 0 .. MaxFiles /\ target' \in 0 .. MaxFiles + 1 /\ pdir' \in BOOLEAN
<1>1. CASE p \in priv
  <2>1. target' = 0 /\ file' = 0 /\ pdir' = FALSE
    BY <1>1 DEF Remove
  <2>2. 0 \in 0 .. MaxFiles /\ 0 \in 0 .. MaxFiles + 1
    BY DEF AccountingAssumption
  <2> QED
    BY <2>1, <2>2
<1>2. CASE p \notin priv
  <2>1. target' = target /\ file' = file /\ pdir' = pdir
    BY <1>2 DEF Remove
  <2> QED
    BY <2>1 DEF PrivateTypes
<1> QED
  BY <1>1, <1>2

\* The sizes after the kernel has written a record, if it does.
LEMMA GrownTypes ==
  ASSUME PrivateTypes
  PROVE  /\ Grown \in [1 .. MaxFiles -> Nat]
         /\ \A f \in 1 .. MaxFiles : size[f] <= Grown[f]
         /\ \A f \in 1 .. MaxFiles : target = f /\ ~suspended => Grown[f] = size[f] + 1
<1>0. size \in [1 .. MaxFiles -> Nat]
  BY DEF PrivateTypes
<1>1. CASE target \in 1 .. MaxFiles /\ ~suspended
  <2>1. Grown = [size EXCEPT ![target] = @ + 1]
    BY <1>1 DEF Grown, Writes
  <2> QED
    BY <1>0, <1>1, <2>1
<1>2. CASE ~(target \in 1 .. MaxFiles /\ ~suspended)
  <2>1. Grown = size
    BY <1>2 DEF Grown, Writes
  <2> QED
    BY <1>0, <1>2, <2>1
<1> QED
  BY <1>1, <1>2

---------------------------------------------------------------------------
(* One lemma per operation.                                                  *)

\* acctswon looks for a standard file and gets the semaphore group.
LEMMA GetGroupInv ==
  ASSUME AccountingAssumption, AccountingInv, NEW p \in Atops, GetGroup(p)
  PROVE  AccountingInv'
<1>0. PICK l \in {"standard", "setall", "claim"} : Goto(p, l)
  BY DEF GetGroup
<1> USE DEF GetGroup, disk, own, history, sems
<1>1. PrivateTypes'
  BY DEF AccountingInv, PrivateTypes, PrivateLabels, Goto
<1>2. MutexInv'
  <2>1. CASE group = "absent" /\ group' = "created" /\ Goto(p, "setall")
    <3>1. \A q \in Atops : pc'[q] = IF q = p THEN "setall" ELSE pc[q]
      BY <2>1 DEF AccountingInv, PrivateTypes, Goto
    <3> QED
      BY <2>1, <3>1 DEF AccountingInv, MutexInv, HasMutex
  <2>2. CASE UNCHANGED sems /\ (Goto(p, "standard") \/ (group # "absent" /\ Goto(p, "claim")))
    BY <2>2, MutexGoes DEF AccountingInv, PrivateLabels, HasMutex
  <2> QED
    BY <2>1, <2>2
<1>3. OwnInv'
  BY DEF AccountingInv, PrivateTypes, OwnInv, UserLabels, PrivateLabels, Goto
<1>4. PrivateFileInv'
  BY <1>0 DEF AccountingInv, PrivateTypes, PrivateFileInv, Goto
<1>5. KeepsFileInv'
  BY <1>0, KeeperGoes DEF AccountingInv, Keeper, UserLabels, PrivateLabels
<1>6. CounterInv'
  BY <1>0, CountedGoto DEF AccountingInv, CounterInv, IsCounted, UserLabels, PrivateLabels
<1> QED
  BY <1>1, <1>2, <1>3, <1>4, <1>5, <1>6 DEF AccountingInv

\* The atop that created the group gives the semaphores their values: nobody
\* is counted yet.
LEMMA SetAllInv ==
  ASSUME AccountingAssumption, AccountingInv, NEW p \in Atops, SetAll(p)
  PROVE  AccountingInv'
<1>0. Goto(p, "claim") /\ pc[p] = "setall"
  BY DEF SetAll
<1>a. group = "created" /\ \A q \in Atops : pc[q] \in {"off", "standard", "setall", "claim"}
  BY <1>0 DEF AccountingInv, MutexInv, PrivateTypes
<1>b. \A q \in Atops : pc'[q] = IF q = p THEN "claim" ELSE pc[q]
  BY <1>0 DEF AccountingInv, PrivateTypes, Goto
<1> USE DEF SetAll, disk, own, history
<1>1. PrivateTypes'
  BY DEF AccountingInv, AccountingAssumption, PrivateTypes, PrivateLabels, Goto
<1>2. MutexInv'
  BY <1>0, <1>a, <1>b DEF AccountingInv, MutexInv, HasMutex
<1>3. OwnInv'
  BY <1>0, <1>b DEF AccountingInv, OwnInv, UserLabels
<1>4. PrivateFileInv'
  BY <1>b DEF AccountingInv, PrivateFileInv
<1>5. KeepsFileInv'
  BY <1>0, KeeperGoes DEF AccountingInv, Keeper, UserLabels, PrivateLabels
<1>6. CounterInv'
  <2>1. Counted' = {}
    BY <1>a, <1>b DEF Counted, UserLabels
  <2>2. Cardinality(Counted') = 0
    BY <2>1, FS_EmptySet
  <2> QED
    BY <2>2 DEF CounterInv, AccountingAssumption
<1> QED
  BY <1>1, <1>2, <1>3, <1>4, <1>5, <1>6 DEF AccountingInv

\* The mutex is claimed, to join, to wipe the file or to leave; one that
\* leaves gives its place in the counter back with the same semop.
LEMMA ClaimMutexInv ==
  ASSUME AccountingAssumption, AccountingInv, NEW p \in Atops, ClaimMutex(p)
  PROVE  AccountingInv'
<1>0. PICK l \in {"create", "trialmutex", "last"} :
        Goto(p, l) /\ pc[p] = CASE l = "create" -> "claim" [] l = "trialmutex" -> "trial" [] l = "last" -> "leave"
  BY DEF ClaimMutex
<1>a. mutex = 1 /\ mutex' = 0 /\ group = "ready" /\ UNCHANGED <<group, disk, suspended, priv, own, history>>
  BY DEF ClaimMutex, AccountingInv, MutexInv
<1>b. \A q \in Atops : pc'[q] = IF q = p THEN l ELSE pc[q]
  BY <1>0 DEF AccountingInv, PrivateTypes, Goto
<1>1. PrivateTypes'
  BY <1>0, <1>a DEF ClaimMutex, AccountingInv, PrivateTypes, PrivateLabels, Goto, disk, own, history
<1>2. MutexInv'
  BY <1>0, <1>a, <1>b DEF AccountingInv, MutexInv, HasMutex
<1>3. OwnInv'
  BY <1>0, <1>a, <1>b DEF AccountingInv, OwnInv, UserLabels, own
<1>4. PrivateFileInv'
  BY <1>0, <1>a, <1>b DEF AccountingInv, PrivateFileInv, disk, own, history
<1>5. KeepsFileInv'
  BY <1>0, <1>a, KeeperGoes DEF AccountingInv, Keeper, UserLabels, PrivateLabels, disk, history
<1>6. CounterInv'
  <2>1. Cardinality(Counted) \in Nat
    BY CountedFinite
  <2> QED
    BY <1>0, <1>a, <2>1, CountedGoto
    DEF ClaimMutex, AccountingInv, AccountingAssumption, CounterInv, IsCounted, UserLabels, PrivateLabels
<1> QED
  BY <1>1, <1>2, <1>3, <1>4, <1>5, <1>6 DEF AccountingInv

\* The first user with privileges makes the file and switches accounting on:
\* no atop has a file open then.
LEMMA CreateInv ==
  ASSUME AccountingAssumption, AccountingInv, NEW p \in Atops, Create(p)
  PROVE  AccountingInv'
<1>0. pc[p] = "create" /\ UNCHANGED <<group, counter, suspended, priv, own, history>>
  BY DEF Create
<1>a. group = "ready"
  BY <1>0, PastClaim DEF AccountingInv
<1>b. ASSUME NEW l \in {"open", "off"}, Goto(p, l) PROVE CounterInv'
  <2>1. Counted' = Counted
    BY <1>0, <1>b, CountedGoto DEF AccountingInv, IsCounted, UserLabels, PrivateLabels
  <2> QED
    BY <1>0, <2>1 DEF AccountingInv, CounterInv
<1>1. CASE ~IsFirst /\ Goto(p, "open") /\ UNCHANGED <<mutex, disk>>
  <2>0. \A q \in Atops : pc'[q] = IF q = p THEN "open" ELSE pc[q]
    BY <1>1 DEF AccountingInv, PrivateTypes, Goto
  <2>1. PrivateTypes'
    BY <1>0, <1>1 DEF AccountingInv, PrivateTypes, PrivateLabels, Goto, disk, own, history
  <2>2. MutexInv'
    BY <1>0, <1>1, <1>a, MutexGoes DEF AccountingInv, PrivateLabels, HasMutex
  <2>3. OwnInv'
    BY <1>0, <2>0 DEF AccountingInv, OwnInv, UserLabels, own
  <2>4. PrivateFileInv'
    BY <1>0, <1>1, <2>0 DEF AccountingInv, PrivateFileInv, disk, own, history
  <2>5. KeepsFileInv'
    BY <1>0, <1>1, KeeperGoes DEF AccountingInv, Keeper, UserLabels, PrivateLabels, disk, history
  <2> QED
    BY <1>b, <1>1, <2>1, <2>2, <2>3, <2>4, <2>5 DEF AccountingInv
<1>2. CASE IsFirst /\ p \notin priv /\ Goto(p, "off") /\ mutex' = 1 /\ UNCHANGED disk
  <2>0. \A q \in Atops : pc'[q] = IF q = p THEN "off" ELSE pc[q]
    BY <1>2 DEF AccountingInv, PrivateTypes, Goto
  <2>1. PrivateTypes'
    BY <1>0, <1>2 DEF AccountingInv, PrivateTypes, PrivateLabels, Goto, disk, own, history
  <2>2. MutexInv'
    BY <1>0, <1>2, <1>a, MutexGoes DEF AccountingInv, PrivateLabels, HasMutex
  <2>3. OwnInv'
    BY <1>0, <2>0 DEF AccountingInv, OwnInv, UserLabels, own
  <2>4. PrivateFileInv'
    BY <1>0, <1>2, <2>0 DEF AccountingInv, PrivateFileInv, disk, own, history
  <2>5. KeepsFileInv'
    BY <1>0, <1>2, KeeperGoes DEF AccountingInv, Keeper, UserLabels, PrivateLabels, disk, history
  <2> QED
    BY <1>b, <1>2, <2>1, <2>2, <2>3, <2>4, <2>5 DEF AccountingInv
<1>3. CASE /\ IsFirst /\ p \in priv
           /\ LET f == CHOOSE g \in 1 .. MaxFiles : \A q \in Atops : fd[q] # g IN
                /\ file' = f /\ pdir' = TRUE /\ size' = [size EXCEPT ![f] = 0] /\ target' = f
           /\ Goto(p, "open") /\ UNCHANGED mutex
  <2> DEFINE f == CHOOSE g \in 1 .. MaxFiles : \A q \in Atops : fd[q] # g
  <2>0. \A q \in Atops : pc'[q] = IF q = p THEN "open" ELSE pc[q]
    BY <1>3 DEF AccountingInv, PrivateTypes, Goto
  <2>a. \A q \in Atops : fd[q] = 0
    BY <1>0, <1>3, FirstIsAlone DEF HasMutex
  <2>b. 1 \in 1 .. MaxFiles /\ \A q \in Atops : fd[q] # 1
    BY <2>a DEF AccountingAssumption
  <2>c. f \in 1 .. MaxFiles
    BY <2>b
  <2>d. file' = f /\ pdir' = TRUE /\ size' = [size EXCEPT ![f] = 0] /\ target' = f
    BY <1>3
  <2> HIDE DEF f
  <2>1. PrivateTypes'
    <3>1. file' \in 0 .. MaxFiles /\ target' \in 0 .. MaxFiles + 1
      BY <2>c, <2>d DEF AccountingAssumption
    <3>2. size' \in [1 .. MaxFiles -> Nat]
      BY <2>c, <2>d DEF AccountingInv, PrivateTypes
    <3>3. pc' \in [Atops -> PrivateLabels] /\ UNCHANGED mutex /\ pdir' = TRUE
      BY <1>3, <2>d DEF AccountingInv, PrivateTypes, PrivateLabels, Goto
    <3> QED
      BY <1>0, <3>1, <3>2, <3>3 DEF AccountingInv, PrivateTypes, own, history
  <2>2. MutexInv'
    BY <1>0, <1>3, <1>a, MutexGoes DEF AccountingInv, PrivateLabels, HasMutex
  <2>3. OwnInv'
    BY <1>0, <2>0 DEF AccountingInv, OwnInv, UserLabels, own
  <2>4. PrivateFileInv'
    BY <1>0, <2>0, <2>a, <2>c, <2>d DEF AccountingInv, AccountingAssumption, PrivateFileInv, own, history
  <2>5. KeepsFileInv'
    BY <1>0, <1>3, <2>0 DEF KeepsFileInv, Keeper
  <2> QED
    BY <1>b, <1>3, <2>1, <2>2, <2>3, <2>4, <2>5 DEF AccountingInv
<1> QED
  BY <1>1, <1>2, <1>3 DEF Create

\* The file is opened and the atop counted, or what is there is removed when
\* there is no file to open.
LEMMA OpenPrivateInv ==
  ASSUME AccountingAssumption, AccountingInv, NEW p \in Atops, OpenPrivate(p)
  PROVE  AccountingInv'
<1>0. pc[p] = "open" /\ mutex' = 1 /\ UNCHANGED <<group, size, suspended, priv, acctsize, history>>
  BY DEF OpenPrivate
<1>a. group = "ready"
  BY <1>0, PastClaim DEF AccountingInv
<1>b. Cardinality(Counted) \in Nat
  BY CountedFinite
<1>1. CASE /\ file # 0 /\ p \in priv
           /\ fd' = [fd EXCEPT ![p] = file] /\ acctatop' = [acctatop EXCEPT ![p] = TRUE]
           /\ counter' = counter - 1
           /\ Goto(p, "vers")
           /\ UNCHANGED <<pdir, file, target>>
  <2>0. \A q \in Atops : /\ pc'[q] = IF q = p THEN "vers" ELSE pc[q]
                         /\ fd'[q] = IF q = p THEN file ELSE fd[q]
                         /\ acctatop'[q] = IF q = p THEN TRUE ELSE acctatop[q]
    BY <1>1 DEF AccountingInv, PrivateTypes, Goto
  <2>1. PrivateTypes'
    <3>1. pc' \in [Atops -> PrivateLabels] /\ fd' \in [Atops -> 0 .. MaxFiles] /\ acctatop' \in [Atops -> BOOLEAN]
      BY <1>1 DEF AccountingInv, PrivateTypes, PrivateLabels, Goto
    <3>2. counter' \in Int
      BY <1>1 DEF AccountingInv, PrivateTypes
    <3> QED
      BY <1>0, <1>1, <3>1, <3>2 DEF AccountingInv, PrivateTypes, history
  <2>2. MutexInv'
    BY <1>0, <1>1, <1>a, MutexGoes DEF AccountingInv, PrivateLabels, HasMutex
  <2>3. OwnInv'
    <3>1. ASSUME NEW q \in Atops, q # p
          PROVE  pc'[q] = pc[q] /\ fd'[q] = fd[q] /\ acctatop'[q] = acctatop[q]
      BY <2>0, <3>1
    <3>2. pc'[p] = "vers" /\ fd'[p] # 0 /\ p \in priv' /\ acctatop'[p]
      BY <1>0, <1>1, <2>0
    <3> QED
      BY <1>0, <3>1, <3>2 DEF AccountingInv, OwnInv, UserLabels
  <2>4. PrivateFileInv'
    BY <1>0, <1>1, <2>0 DEF AccountingInv, PrivateFileInv, history
  <2>5. KeepsFileInv'
    BY <1>0, <1>1, KeeperGoes DEF AccountingInv, UserLabels, PrivateLabels, history
  <2>6. CounterInv'
    BY <1>0, <1>1, <1>a, <1>b, CountedGoto
    DEF AccountingInv, AccountingAssumption, CounterInv, IsCounted, UserLabels, PrivateLabels
  <2> QED
    BY <2>1, <2>2, <2>3, <2>4, <2>5, <2>6 DEF AccountingInv
<1>2. CASE ~(file # 0 /\ p \in priv) /\ Remove(p) /\ Goto(p, "off") /\ UNCHANGED <<fd, acctatop, counter>>
  <2>0. \A q \in Atops : pc'[q] = IF q = p THEN "off" ELSE pc[q]
    BY <1>2 DEF AccountingInv, PrivateTypes, Goto
  <2>1. PrivateTypes'
    <3>1. file' \in 0 .. MaxFiles /\ target' \in 0 .. MaxFiles + 1 /\ pdir' \in BOOLEAN
      BY <1>2, RemoveTypes DEF AccountingInv
    <3>2. pc' \in [Atops -> PrivateLabels]
      BY <1>2 DEF AccountingInv, PrivateTypes, PrivateLabels, Goto
    <3> QED
      BY <1>0, <1>2, <3>1, <3>2 DEF AccountingInv, PrivateTypes, history
  <2>2. MutexInv'
    BY <1>0, <1>2, <1>a, MutexGoes DEF AccountingInv, PrivateLabels, HasMutex
  <2>3. OwnInv'
    BY <1>0, <1>2, <2>0 DEF AccountingInv, OwnInv, UserLabels
  <2>4. PrivateFileInv'
    BY <1>0, <1>2, <2>0 DEF AccountingInv, PrivateFileInv, Remove, history
  <2>5. KeepsFileInv'
    <3>1. CASE p \in priv
      BY <1>2, <3>1 DEF Remove, KeepsFileInv
    <3>2. CASE p \notin priv
      BY <1>0, <1>2, <3>2, KeeperGoes DEF AccountingInv, Keeper, UserLabels, PrivateLabels, Remove, history
    <3> QED
      BY <3>1, <3>2
  <2>6. CounterInv'
    BY <1>0, <1>2, <1>a, CountedGoto DEF AccountingInv, CounterInv, IsCounted, UserLabels, PrivateLabels
  <2> QED
    BY <2>1, <2>2, <2>3, <2>4, <2>5, <2>6 DEF AccountingInv
<1> QED
  BY <1>1, <1>2 DEF OpenPrivate

\* acctvers finds a record, since the kernel writes to the file, unless
\* another accounting or a full disk interferes.
LEMMA VersPrivateInv ==
  ASSUME AccountingAssumption, AccountingInv, NEW p \in Atops, acctversPrivate(p)
  PROVE  AccountingInv'
<1> DEFINE now == IF size[fd[p]] = 0 THEN Grown ELSE size
<1>0. pc[p] = "vers" /\ size' = now /\ UNCHANGED <<sems, suspended, priv, acctatop, history>>
  BY DEF acctversPrivate
<1>a. group = "ready" /\ fd[p] \in 1 .. MaxFiles /\ acctatop[p] /\ p \in priv
  <2>1. group = "ready"
    BY <1>0, PastClaim DEF AccountingInv
  <2>2. fd[p] # 0 /\ fd[p] \in 0 .. MaxFiles /\ acctatop[p] /\ p \in priv
    BY <1>0 DEF AccountingInv, OwnInv, PrivateTypes, UserLabels
  <2> QED
    BY <2>1, <2>2 DEF AccountingAssumption
<1>b. now \in [1 .. MaxFiles -> Nat]
  BY GrownTypes DEF AccountingInv, PrivateTypes
<1>c. ~foreign => now[fd[p]] > 0
  <2> SUFFICES ASSUME ~foreign PROVE now[fd[p]] > 0
    OBVIOUS
  <2>1. target = fd[p] /\ ~suspended
    BY <1>a DEF AccountingInv, PrivateFileInv
  <2>2. size[fd[p]] \in Nat
    BY <1>a DEF AccountingInv, PrivateTypes
  <2>3. Grown[fd[p]] = size[fd[p]] + 1
    BY <1>a, <2>1, GrownTypes DEF AccountingInv
  <2> QED
    BY <2>2, <2>3
<1>d. \/ /\ now[fd[p]] > 0
         /\ acctsize' = [acctsize EXCEPT ![p] = now[fd[p]]] /\ Goto(p, "on")
         /\ UNCHANGED <<pdir, file, target, fd>>
      \/ /\ ~(now[fd[p]] > 0) /\ Remove(p) /\ fd' = [fd EXCEPT ![p] = 0] /\ Goto(p, "half")
         /\ UNCHANGED acctsize
  BY DEF acctversPrivate
<1> HIDE DEF now
<1>1. CASE /\ acctsize' = [acctsize EXCEPT ![p] = now[fd[p]]] /\ Goto(p, "on")
           /\ UNCHANGED <<pdir, file, target, fd>>
  <2>0. \A q \in Atops : pc'[q] = IF q = p THEN "on" ELSE pc[q]
    BY <1>1 DEF AccountingInv, PrivateTypes, Goto
  <2>1. PrivateTypes'
    <3>1. acctsize' \in [Atops -> Nat]
      BY <1>1, <1>a, <1>b DEF AccountingInv, PrivateTypes
    <3>2. pc' \in [Atops -> PrivateLabels]
      BY <1>1 DEF AccountingInv, PrivateTypes, PrivateLabels, Goto
    <3> QED
      BY <1>0, <1>1, <1>b, <3>1, <3>2 DEF AccountingInv, PrivateTypes, sems, history
  <2>2. MutexInv'
    BY <1>0, <1>1, <1>a, MutexGoes DEF AccountingInv, PrivateLabels, HasMutex, sems
  <2>3. OwnInv'
    BY <1>0, <1>1, <1>a, <2>0 DEF AccountingInv, OwnInv, UserLabels
  <2>4. PrivateFileInv'
    BY <1>0, <1>1, <2>0 DEF AccountingInv, PrivateFileInv, history
  <2>5. KeepsFileInv'
    BY <1>0, <1>1, KeeperGoes DEF AccountingInv, UserLabels, PrivateLabels, history
  <2>6. CounterInv'
    BY <1>0, <1>1, CountedGoto DEF AccountingInv, CounterInv, IsCounted, UserLabels, PrivateLabels, sems
  <2> QED
    BY <2>1, <2>2, <2>3, <2>4, <2>5, <2>6 DEF AccountingInv
<1>2. CASE /\ ~(now[fd[p]] > 0) /\ Remove(p) /\ fd' = [fd EXCEPT ![p] = 0] /\ Goto(p, "half")
           /\ UNCHANGED acctsize
  <2>0. \A q \in Atops : /\ pc'[q] = IF q = p THEN "half" ELSE pc[q]
                         /\ fd'[q] = IF q = p THEN 0 ELSE fd[q]
    BY <1>2 DEF AccountingInv, PrivateTypes, Goto
  <2>a. foreign /\ foreign'
    BY <1>0, <1>c, <1>2 DEF history
  <2>1. PrivateTypes'
    <3>1. file' \in 0 .. MaxFiles /\ target' \in 0 .. MaxFiles + 1 /\ pdir' \in BOOLEAN
      BY <1>2, RemoveTypes DEF AccountingInv
    <3>2. pc' \in [Atops -> PrivateLabels] /\ fd' \in [Atops -> 0 .. MaxFiles]
      BY <1>2 DEF AccountingInv, AccountingAssumption, PrivateTypes, PrivateLabels, Goto
    <3> QED
      BY <1>0, <1>2, <1>b, <3>1, <3>2 DEF AccountingInv, PrivateTypes, sems, history
  <2>2. MutexInv'
    BY <1>0, <1>2, <1>a, MutexGoes DEF AccountingInv, PrivateLabels, HasMutex, sems
  <2>3. OwnInv'
    BY <1>0, <1>2, <2>0 DEF AccountingInv, OwnInv, UserLabels
  <2>4. PrivateFileInv'
    BY <1>2, <2>a DEF AccountingInv, PrivateFileInv, Remove
  <2>5. KeepsFileInv'
    BY <2>a DEF KeepsFileInv
  <2>6. CounterInv'
    BY <1>0, <1>2, CountedGoto DEF AccountingInv, CounterInv, IsCounted, UserLabels, PrivateLabels, sems
  <2> QED
    BY <2>1, <2>2, <2>3, <2>4, <2>5, <2>6 DEF AccountingInv
<1> QED
  BY <1>1, <1>2, <1>d

\* Steps of an atop that is counted and stays so, with the file as it is.
LEMMA GoesOn ==
  ASSUME AccountingAssumption, AccountingInv, NEW p \in Atops, NEW l \in {"on", "size", "trial"},
         pc[p] \in UserLabels \ {"leave"}, Goto(p, l), UNCHANGED <<group, counter, file, pdir, priv, fd, acctatop, killed, foreign, suspended>>,
         mutex' = IF pc[p] \in HasMutex THEN 1 ELSE mutex,
         target' \in {target, file}, PrivateTypes'
  PROVE  AccountingInv'
<1>a. group = "ready" /\ p \in priv
  BY PastClaim DEF AccountingInv, OwnInv, UserLabels
<1>b. \A q \in Atops : pc'[q] = IF q = p THEN l ELSE pc[q]
  BY DEF AccountingInv, PrivateTypes, Goto
<1>1. MutexInv'
  BY <1>a, MutexGoes DEF AccountingInv, PrivateLabels, HasMutex
<1>2. OwnInv'
  BY <1>b DEF AccountingInv, OwnInv, UserLabels
<1>3. PrivateFileInv'
  BY <1>b DEF AccountingInv, PrivateFileInv
<1>4. KeepsFileInv'
  BY KeeperGoes DEF AccountingInv, UserLabels, PrivateLabels
<1>5. CounterInv'
  BY CountedGoto DEF AccountingInv, CounterInv, IsCounted, UserLabels, PrivateLabels
<1> QED
  BY <1>1, <1>2, <1>3, <1>4, <1>5 DEF AccountingInv

\* A sample is read.
LEMMA SampleInv ==
  ASSUME AccountingAssumption, AccountingInv, NEW p \in Atops, Sample(p)
  PROVE  AccountingInv'
<1>0. /\ pc[p] = "on" /\ acctsize' = [acctsize EXCEPT ![p] = size[fd[p]]]
      /\ UNCHANGED <<sems, disk, suspended, priv, fd, acctatop, history>>
  BY DEF Sample
<1>1. PICK l \in {"on", "size"} : Goto(p, l)
  BY DEF Sample
<1>2. fd[p] \in 1 .. MaxFiles
  BY <1>0 DEF AccountingInv, AccountingAssumption, PrivateTypes, OwnInv, UserLabels
<1>3. acctsize' \in [Atops -> Nat] /\ pc' \in [Atops -> PrivateLabels]
  BY <1>0, <1>1, <1>2 DEF AccountingInv, PrivateTypes, Goto, PrivateLabels
<1>4. PrivateTypes'
  BY <1>0, <1>3 DEF AccountingInv, PrivateTypes, sems, disk, history
<1> QED
  BY <1>0, <1>1, <1>4, GoesOn DEF UserLabels, HasMutex, sems, disk, history

\* The size is looked at before the attempt to wipe the file.
LEMMA CheckSizeInv ==
  ASSUME AccountingAssumption, AccountingInv, NEW p \in Atops, CheckSize(p)
  PROVE  AccountingInv'
<1>0. pc[p] = "size" /\ UNCHANGED <<sems, disk, suspended, priv, own, history>>
  BY DEF CheckSize
<1>1. PICK l \in {"on", "trial"} : Goto(p, l)
  BY DEF CheckSize
<1>2. PrivateTypes'
  BY <1>0, <1>1 DEF AccountingInv, PrivateTypes, Goto, PrivateLabels, sems, disk, own, history
<1> QED
  BY <1>0, <1>1, <1>2, GoesOn DEF UserLabels, HasMutex, sems, disk, own, history

\* The attempt to wipe the file.
LEMMA RestartTrialInv ==
  ASSUME AccountingAssumption, AccountingInv, NEW p \in Atops, acctrestarttrial(p)
  PROVE  AccountingInv'
<1>0. /\ pc[p] = "trialmutex" /\ mutex' = 1 /\ Goto(p, "on")
      /\ UNCHANGED <<group, counter, pdir, file, suspended, priv, fd, acctatop, history>>
  BY DEF acctrestarttrial
<1>1. target' \in {target, file}
  BY DEF acctrestarttrial
<1>2. size' \in [1 .. MaxFiles -> Nat]
  <2>1. size \in [1 .. MaxFiles -> Nat] /\ (file = 0 \/ file \in 1 .. MaxFiles)
    BY DEF AccountingInv, AccountingAssumption, PrivateTypes
  <2>2. size' = size \/ (file # 0 /\ size' = [size EXCEPT ![file] = 0])
    BY DEF acctrestarttrial
  <2> QED
    BY <2>1, <2>2
<1>3. acctsize' \in [Atops -> Nat] /\ pc' \in [Atops -> PrivateLabels]
  <2>1. acctsize' = acctsize \/ acctsize' = [acctsize EXCEPT ![p] = 0]
    BY DEF acctrestarttrial
  <2> QED
    BY <1>0, <2>1 DEF AccountingInv, PrivateTypes, Goto, PrivateLabels
<1>4. target' \in 0 .. MaxFiles + 1
  BY <1>1 DEF AccountingInv, AccountingAssumption, PrivateTypes
<1>5. PrivateTypes'
  BY <1>0, <1>2, <1>3, <1>4 DEF AccountingInv, PrivateTypes, history
<1> QED
  BY <1>0, <1>1, <1>5, GoesOn DEF UserLabels, HasMutex, history

\* acctswoff: a user goes to leave; one without an open file gives back what
\* acctvers left.
LEMMA SwoffInv ==
  ASSUME AccountingAssumption, AccountingInv, NEW p \in Atops, acctswoff(p)
  PROVE  AccountingInv'
<1>0. pc[p] \in {"on", "standard", "half"} /\ UNCHANGED <<group, mutex, disk, suspended, priv, history>>
  BY DEF acctswoff
<1>a. Cardinality(Counted) \in Nat
  BY CountedFinite
<1>b. pc[p] = "on" => acctatop[p]
  BY DEF AccountingInv, OwnInv, UserLabels
<1>c. pc[p] # "standard" => group = "ready"
  BY <1>0, PastClaim DEF AccountingInv
<1>1. CASE pc[p] = "on"
  <2>a. /\ acctatop' = [acctatop EXCEPT ![p] = FALSE] /\ Goto(p, "leave")
        /\ UNCHANGED <<fd, acctsize, counter>>
    BY <1>1, <1>b DEF acctswoff
  <2>0. \A q \in Atops : /\ pc'[q] = IF q = p THEN "leave" ELSE pc[q]
                         /\ acctatop'[q] = IF q = p THEN FALSE ELSE acctatop[q]
    BY <2>a DEF AccountingInv, PrivateTypes, Goto
  <2>1. PrivateTypes'
    BY <1>0, <2>a DEF AccountingInv, PrivateTypes, PrivateLabels, Goto, disk, history
  <2>2. MutexInv'
    BY <1>0, <1>1, <1>c, <2>a, MutexGoes DEF AccountingInv, PrivateLabels, HasMutex
  <2>3. OwnInv'
    BY <1>0, <1>1, <2>a, <2>0 DEF AccountingInv, OwnInv, UserLabels
  <2>4. PrivateFileInv'
    BY <1>0, <2>a, <2>0 DEF AccountingInv, PrivateFileInv, disk, history
  <2>5. KeepsFileInv'
    BY <1>0, <2>a, KeeperGoes DEF AccountingInv, UserLabels, PrivateLabels, disk, history
  <2>6. CounterInv'
    BY <1>0, <1>1, <2>a, CountedGoto DEF AccountingInv, CounterInv, IsCounted, UserLabels, PrivateLabels
  <2> QED
    BY <2>1, <2>2, <2>3, <2>4, <2>5, <2>6 DEF AccountingInv
<1>2. CASE pc[p] # "on"
  <2>a. /\ counter' = IF pc[p] = "half" THEN counter + 1 ELSE counter
        /\ acctatop' = [acctatop EXCEPT ![p] = FALSE] /\ Goto(p, "off")
        /\ fd' = [fd EXCEPT ![p] = 0] /\ acctsize' = [acctsize EXCEPT ![p] = 0]
    BY <1>2 DEF acctswoff
  <2>0. \A q \in Atops : /\ pc'[q] = IF q = p THEN "off" ELSE pc[q]
                         /\ acctatop'[q] = IF q = p THEN FALSE ELSE acctatop[q]
                         /\ fd'[q] = IF q = p THEN 0 ELSE fd[q]
    BY <2>a DEF AccountingInv, PrivateTypes, Goto
  <2>1. PrivateTypes'
    <3>1. counter' \in Int
      BY <2>a DEF AccountingInv, PrivateTypes
    <3>2. pc' \in [Atops -> PrivateLabels] /\ fd' \in [Atops -> 0 .. MaxFiles]
      BY <2>a DEF AccountingInv, AccountingAssumption, PrivateTypes, PrivateLabels, Goto
    <3>3. acctsize' \in [Atops -> Nat] /\ acctatop' \in [Atops -> BOOLEAN]
      BY <2>a DEF AccountingInv, PrivateTypes
    <3> QED
      BY <1>0, <3>1, <3>2, <3>3 DEF AccountingInv, PrivateTypes, disk, history
  <2>2. MutexInv'
    BY <1>0, <2>a, MutexGoes DEF AccountingInv, PrivateLabels, HasMutex
  <2>3. OwnInv'
    BY <1>0, <1>2, <2>0 DEF AccountingInv, OwnInv, UserLabels
  <2>4. PrivateFileInv'
    BY <1>0, <2>0 DEF AccountingInv, PrivateFileInv, disk, history
  <2>5. KeepsFileInv'
    BY <1>0, <1>2, <2>a, KeeperGoes DEF AccountingInv, Keeper, UserLabels, PrivateLabels, disk, history
  <2>6. CounterInv'
    BY <1>0, <1>2, <1>a, <2>a, CountedGoto
    DEF AccountingInv, AccountingAssumption, CounterInv, IsCounted, UserLabels, PrivateLabels
  <2> QED
    BY <2>1, <2>2, <2>3, <2>4, <2>5, <2>6 DEF AccountingInv
<1> QED
  BY <1>1, <1>2

\* The last user removes the file: it grows, since the kernel writes to it.
LEMMA LastUserInv ==
  ASSUME AccountingAssumption, AccountingInv, NEW p \in Atops, LastUser(p)
  PROVE  AccountingInv'
<1>0. /\ pc[p] = "last" /\ mutex' = 1 /\ Goto(p, "off")
      /\ fd' = [fd EXCEPT ![p] = 0] /\ acctsize' = [acctsize EXCEPT ![p] = 0]
      /\ UNCHANGED <<group, counter, suspended, priv, acctatop, history>>
  BY DEF LastUser
<1>a. group = "ready"
  BY <1>0, PastClaim DEF AccountingInv
<1>b. \A q \in Atops : /\ pc'[q] = IF q = p THEN "off" ELSE pc[q]
                       /\ fd'[q] = IF q = p THEN 0 ELSE fd[q]
  BY <1>0 DEF AccountingInv, PrivateTypes, Goto
<1>c. fd[p] \in 1 .. MaxFiles /\ p \in priv
  BY <1>0 DEF AccountingInv, AccountingAssumption, PrivateTypes, OwnInv, UserLabels
<1>d. size' = IF IsFirst THEN Grown ELSE size
  BY DEF LastUser
<1>e. Remove(p) \/ UNCHANGED <<pdir, file, target>>
  BY DEF LastUser
<1>1. PrivateTypes'
  <2>1. size' \in [1 .. MaxFiles -> Nat]
    BY <1>d, GrownTypes DEF AccountingInv, PrivateTypes
  <2>2. file' \in 0 .. MaxFiles /\ target' \in 0 .. MaxFiles + 1 /\ pdir' \in BOOLEAN
    <3>1. CASE Remove(p)
      BY <3>1, RemoveTypes DEF AccountingInv
    <3>2. CASE UNCHANGED <<pdir, file, target>>
      BY <3>2 DEF AccountingInv, PrivateTypes
    <3> QED
      BY <1>e, <3>1, <3>2
  <2>3. pc' \in [Atops -> PrivateLabels] /\ fd' \in [Atops -> 0 .. MaxFiles] /\ acctsize' \in [Atops -> Nat]
    BY <1>0 DEF AccountingInv, AccountingAssumption, PrivateTypes, PrivateLabels, Goto
  <2> QED
    BY <1>0, <2>1, <2>2, <2>3 DEF AccountingInv, PrivateTypes, history
<1>2. MutexInv'
  BY <1>0, <1>a, MutexGoes DEF AccountingInv, PrivateLabels, HasMutex
<1>3. OwnInv'
  BY <1>0, <1>b DEF AccountingInv, OwnInv, UserLabels
<1>4. CounterInv'
  BY <1>0, CountedGoto DEF AccountingInv, CounterInv, IsCounted, UserLabels, PrivateLabels
<1>5. CASE IsFirst /\ Grown[fd[p]] > size[fd[p]]
  <2>1. target' = 0 /\ file' = 0 /\ pdir' = FALSE
    BY <1>5, <1>c DEF LastUser, Remove
  <2>2. \A q \in Atops : fd'[q] = 0
    <3>1. ASSUME NEW q \in Atops, q # p PROVE fd[q] = 0
      <4>1. pc[q] \notin UserLabels
        BY <1>0, <1>5, FirstIsAlone DEF Counted, HasMutex
      <4>2. pc[q] # "last"
        BY <1>0, <3>1 DEF AccountingInv, MutexInv, HasMutex
      <4> QED
        BY <4>1, <4>2 DEF AccountingInv, OwnInv
    <3> QED
      BY <1>b, <3>1
  <2>3. PrivateFileInv'
    BY <1>0, <1>b, <2>1, <2>2 DEF AccountingInv, PrivateFileInv, history
  <2>4. KeepsFileInv'
    BY <2>1 DEF KeepsFileInv
  <2> QED
    BY <1>1, <1>2, <1>3, <1>4, <2>3, <2>4 DEF AccountingInv
<1>6. CASE ~(IsFirst /\ Grown[fd[p]] > size[fd[p]])
  <2>1. UNCHANGED <<pdir, file, target>>
    BY <1>6 DEF LastUser
  <2>2. PrivateFileInv'
    BY <1>0, <1>b, <2>1 DEF AccountingInv, PrivateFileInv, history
  <2>3. KeepsFileInv'
    <3> SUFFICES ASSUME ~killed, ~foreign, file # 0 PROVE \E q \in Atops : Keeper(q)'
      BY <1>0, <2>1 DEF KeepsFileInv, history
    <3>1. target = fd[p] /\ ~suspended
      BY <1>c DEF AccountingInv, PrivateFileInv
    <3>2. size[fd[p]] \in Nat /\ Grown[fd[p]] = size[fd[p]] + 1
      BY <1>c, <3>1, GrownTypes DEF AccountingInv, PrivateTypes
    <3>3. ~IsFirst
      BY <1>6, <3>2
    <3>4. Counted # {}
      <4>1. SUFFICES ASSUME Counted = {} PROVE FALSE
        OBVIOUS
      <4>2. Cardinality(Counted) = 0
        BY <4>1, FS_EmptySet
      <4> QED
        BY <1>a, <3>3, <4>2 DEF AccountingInv, AccountingAssumption, CounterInv, IsFirst
    <3>5. PICK q \in Atops : pc[q] \in UserLabels
      BY <3>4 DEF Counted, AccountingInv, PrivateFileInv
    <3>6. Keeper(q)'
      BY <1>0, <1>b, <3>5 DEF Keeper, UserLabels
    <3> QED
      BY <3>6
  <2> QED
    BY <1>1, <1>2, <1>3, <1>4, <2>2, <2>3 DEF AccountingInv
<1> QED
  BY <1>5, <1>6

\* An atop is killed: SEM_UNDO gives back the mutex and its place in the
\* counter, and the file stays.
LEMMA KilledInv ==
  ASSUME AccountingAssumption, AccountingInv, NEW p \in Atops, Killed(p)
  PROVE  AccountingInv'
<1>0. /\ pc[p] # "off" /\ mutex' = IF pc[p] \in HasMutex THEN 1 ELSE mutex
      /\ fd' = [fd EXCEPT ![p] = 0] /\ acctsize' = [acctsize EXCEPT ![p] = 0]
      /\ acctatop' = [acctatop EXCEPT ![p] = FALSE] /\ Goto(p, "off") /\ killed' = TRUE
      /\ UNCHANGED <<group, disk, suspended, priv, foreign>>
  BY DEF Killed
<1>a. counter' = IF IsCounted(pc[p]) THEN counter + 1 ELSE counter
  BY DEF Killed, IsCounted, UserLabels
<1>b. \A q \in Atops : /\ pc'[q] = IF q = p THEN "off" ELSE pc[q]
                       /\ fd'[q] = IF q = p THEN 0 ELSE fd[q]
                       /\ acctatop'[q] = IF q = p THEN FALSE ELSE acctatop[q]
  BY <1>0 DEF AccountingInv, PrivateTypes, Goto
<1>c. Cardinality(Counted) \in Nat
  BY CountedFinite
<1>1. PrivateTypes'
  <2>1. counter' \in Int
    BY <1>a DEF AccountingInv, PrivateTypes
  <2>2. pc' \in [Atops -> PrivateLabels] /\ fd' \in [Atops -> 0 .. MaxFiles]
    BY <1>0 DEF AccountingInv, AccountingAssumption, PrivateTypes, PrivateLabels, Goto
  <2>3. acctsize' \in [Atops -> Nat] /\ acctatop' \in [Atops -> BOOLEAN] /\ mutex' \in {0, 1}
    BY <1>0 DEF AccountingInv, PrivateTypes
  <2> QED
    BY <1>0, <2>1, <2>2, <2>3 DEF AccountingInv, PrivateTypes, disk
<1>2. MutexInv'
  BY <1>0, MutexGoes DEF AccountingInv, PrivateLabels, HasMutex
<1>3. OwnInv'
  BY <1>0, <1>b DEF AccountingInv, OwnInv, UserLabels
<1>4. PrivateFileInv'
  BY <1>0, <1>b DEF AccountingInv, PrivateFileInv, disk
<1>5. KeepsFileInv'
  BY <1>0 DEF KeepsFileInv
<1>6. CounterInv'
  BY <1>0, <1>a, <1>c, CountedGoto
  DEF AccountingInv, AccountingAssumption, CounterInv, IsCounted, UserLabels, PrivateLabels
<1> QED
  BY <1>1, <1>2, <1>3, <1>4, <1>5, <1>6 DEF AccountingInv

\* The kernel writes a record, stops or resumes writing, or the administrator
\* changes the accounting.
LEMMA WorldInv ==
  ASSUME AccountingAssumption, AccountingInv, ExitPrivate \/ Suspend \/ Admin
  PROVE  AccountingInv'
<1>0. UNCHANGED <<sems, pdir, file, priv, pc, own, killed>>
  BY DEF ExitPrivate, Suspend, Admin, disk, history
<1>1. PrivateTypes'
  <2>1. CASE ExitPrivate
    BY <2>1, GrownTypes DEF ExitPrivate, AccountingInv, PrivateTypes, sems, own, history
  <2>2. CASE Suspend
    BY <2>2, <1>0 DEF Suspend, AccountingInv, PrivateTypes, sems, disk, own
  <2>3. CASE Admin
    <3>1. target' \in 0 .. MaxFiles + 1
      BY <2>3 DEF Admin, Standard, AccountingInv, AccountingAssumption, PrivateTypes
    <3> QED
      BY <2>3, <3>1 DEF Admin, AccountingInv, PrivateTypes, sems, own
  <2> QED
    BY <2>1, <2>2, <2>3
<1>2. MutexInv'
  BY <1>0 DEF AccountingInv, MutexInv, sems
<1>3. OwnInv'
  BY <1>0 DEF AccountingInv, OwnInv, own
<1>4. PrivateFileInv'
  BY <1>0 DEF ExitPrivate, Suspend, Admin, AccountingInv, PrivateFileInv, own, history
<1>5. KeepsFileInv'
  BY <1>0 DEF ExitPrivate, Suspend, Admin, AccountingInv, KeepsFileInv, Keeper, history
<1>6. CounterInv'
  BY <1>0 DEF AccountingInv, CounterInv, Counted, sems
<1> QED
  BY <1>1, <1>2, <1>3, <1>4, <1>5, <1>6 DEF AccountingInv

\* Every step of the atops, the kernel and the administrator keeps the
\* invariant.
LEMMA AccountingStep ==
  ASSUME AccountingAssumption, AccountingInv, [NextPrivate]_varsPrivate
  PROVE  AccountingInv'
<1>1. CASE ExitPrivate \/ Suspend \/ Admin
  BY <1>1, WorldInv
<1>2. ASSUME NEW p \in Atops,
             \/ GetGroup(p) \/ SetAll(p) \/ ClaimMutex(p) \/ Create(p) \/ OpenPrivate(p) \/ acctversPrivate(p)
             \/ Sample(p) \/ CheckSize(p) \/ acctrestarttrial(p) \/ acctswoff(p) \/ LastUser(p) \/ Killed(p)
      PROVE  AccountingInv'
  BY <1>2, GetGroupInv, SetAllInv, ClaimMutexInv, CreateInv, OpenPrivateInv, VersPrivateInv, SampleInv, CheckSizeInv,
     RestartTrialInv, SwoffInv, LastUserInv, KilledInv
<1>3. CASE UNCHANGED varsPrivate
  <2>1. UNCHANGED <<group, mutex, counter, pdir, file, size, target, suspended, priv, pc, fd,
                    acctsize, acctatop, killed, foreign>>
    BY <1>3 DEF varsPrivate
  <2>2. PrivateTypes' /\ MutexInv' /\ OwnInv'
    BY <2>1 DEF AccountingInv, PrivateTypes, MutexInv, OwnInv
  <2>3. PrivateFileInv' /\ KeepsFileInv' /\ CounterInv'
    BY <2>1 DEF AccountingInv, PrivateFileInv, KeepsFileInv, Keeper, CounterInv, Counted
  <2> QED
    BY <2>2, <2>3 DEF AccountingInv
<1> QED
  BY <1>1, <1>2, <1>3 DEF NextPrivate

\* The invariant holds before the first atop starts.
LEMMA AccountingStart ==
  ASSUME AccountingAssumption, InitPrivate
  PROVE  AccountingInv
<1>1. PrivateTypes
  <2>1. 0 \in 0 .. MaxFiles /\ 0 \in 0 .. MaxFiles + 1
    BY DEF AccountingAssumption
  <2>2. /\ size \in [1 .. MaxFiles -> Nat] /\ pc \in [Atops -> PrivateLabels]
        /\ fd \in [Atops -> 0 .. MaxFiles] /\ acctsize \in [Atops -> Nat]
        /\ acctatop \in [Atops -> BOOLEAN]
    BY <2>1 DEF InitPrivate, PrivateLabels
  <2>3. file \in 0 .. MaxFiles /\ target \in 0 .. MaxFiles + 1 /\ priv \subseteq Atops
    BY <2>1 DEF InitPrivate
  <2>4. group \in {"absent", "created", "ready"} /\ mutex \in {0, 1} /\ counter \in Int
    BY DEF InitPrivate
  <2>5. pdir \in BOOLEAN /\ suspended \in BOOLEAN /\ killed \in BOOLEAN /\ foreign \in BOOLEAN
    BY DEF InitPrivate
  <2> QED
    BY <2>2, <2>3, <2>4, <2>5 DEF PrivateTypes
<1>2. MutexInv /\ OwnInv
  BY DEF InitPrivate, MutexInv, OwnInv, HasMutex, UserLabels
<1>3. PrivateFileInv /\ KeepsFileInv /\ CounterInv
  BY DEF InitPrivate, PrivateFileInv, KeepsFileInv, CounterInv
<1> QED
  BY <1>1, <1>2, <1>3 DEF AccountingInv

---------------------------------------------------------------------------
(* The results.                                                              *)

\* The semaphore that counts the users stays between 0 and its total: to join
\* never blocks, and the one who sees the total is alone.  For any number of
\* atops that start, leave and are killed (acctproc.c).
THEOREM AccountingInvariant ==
  ASSUME AccountingAssumption
  PROVE  SpecPrivate => [](AccountingInv /\ (group = "ready" => counter \in 0 .. ATOPACCTTOT))
<1>1. AccountingInv => (group = "ready" => counter \in 0 .. ATOPACCTTOT)
  <2>1. Cardinality(Counted) \in 0 .. ATOPACCTTOT
    BY CountedFinite
  <2> QED
    BY <2>1 DEF AccountingInv, CounterInv, AccountingAssumption
<1>2. InitPrivate => AccountingInv
  BY AccountingStart
<1>3. AccountingInv /\ [NextPrivate]_varsPrivate => AccountingInv'
  BY AccountingStep
<1> QED
  BY <1>1, <1>2, <1>3, PTL DEF SpecPrivate

\* For any number of atops with private accounting: the counter counts them
\* whoever was killed, the users have one file open, the one the kernel writes
\* to, and the last one to leave switches accounting off and removes the file
\* (acctswon, acctswoff).
THEOREM PrivateSharedUntilLast ==
  ASSUME AccountingAssumption
  PROVE  SpecPrivate => []SharedUntilLast
<1>1. AccountingInv => SharedUntilLast
  <2> SUFFICES ASSUME AccountingInv PROVE SharedUntilLast
    OBVIOUS
  <2>1. CounterCounts
    <3>1. Counted = Users \union {p \in Atops : pc[p] = "half"}
      BY DEF Counted, Users, UserLabels
    <3> QED
      BY <3>1 DEF AccountingInv, CounterInv, CounterCounts
  <2>2. UsersShareFile
    BY DEF AccountingInv, PrivateFileInv, OwnInv, UsersShareFile, Users, UserLabels
  <2>3. LastOneCleans
    BY DEF AccountingInv, PrivateFileInv, KeepsFileInv, Keeper, LastOneCleans, UserLabels
  <2> QED
    BY <2>1, <2>2, <2>3 DEF SharedUntilLast
<1>2. InitPrivate => AccountingInv
  BY AccountingStart
<1>3. AccountingInv /\ [NextPrivate]_varsPrivate => AccountingInv'
  BY AccountingStep
<1> QED
  BY <1>1, <1>2, <1>3, PTL DEF SpecPrivate

\* For any number of atops: a private file is emptied only when at most one
\* atop has it open (acctrestarttrial, acctswon).
THEOREM PrivateWipedOnlyAlone ==
  ASSUME AccountingAssumption
  PROVE  SpecPrivate => WipedOnlyAlone
<1> DEFINE Alone1 == \A f \in 1 .. MaxFiles :
                       size'[f] < size[f] => Cardinality({p \in Users : fd[p] = f}) <= 1
<1>1. AccountingInv /\ [NextPrivate]_varsPrivate => [Alone1]_varsPrivate
  <2> SUFFICES ASSUME AccountingInv, NextPrivate PROVE Alone1
    OBVIOUS
  <2>0. size \in [1 .. MaxFiles -> Nat]
    BY DEF AccountingInv, PrivateTypes
  <2>1. CASE UNCHANGED size
    BY <2>0, <2>1
  <2>2. CASE size' = Grown
    BY <2>0, <2>2, GrownTypes DEF AccountingInv
  <2>3. ASSUME NEW p \in Atops, acctrestarttrial(p), Alone PROVE Alone1
    <3> SUFFICES ASSUME NEW f \in 1 .. MaxFiles PROVE Cardinality({q \in Users : fd[q] = f}) <= 1
      OBVIOUS
    <3>1. group = "ready"
      BY <2>3, PastClaim DEF AccountingInv, acctrestarttrial
    <3>2. IsFiniteSet(Counted) /\ Cardinality(Counted) \in Nat
      BY CountedFinite
    <3>3. Cardinality(Counted) <= 1
      BY <2>3, <3>1, <3>2 DEF AccountingInv, CounterInv, Alone, AccountingAssumption
    <3>4. {q \in Users : fd[q] = f} \in SUBSET Counted
      BY DEF Users, Counted, UserLabels
    <3>5. Cardinality({q \in Users : fd[q] = f}) <= Cardinality(Counted)
      BY <3>2, <3>4, FS_Subset
    <3>6. Cardinality({q \in Users : fd[q] = f}) \in Nat
      BY <3>2, <3>4, FS_Subset, FS_CardinalityType
    <3> QED
      BY <3>2, <3>3, <3>5, <3>6
  <2>4. ASSUME NEW p \in Atops, Create(p), IsFirst PROVE Alone1
    <3> SUFFICES ASSUME NEW f \in 1 .. MaxFiles PROVE Cardinality({q \in Users : fd[q] = f}) <= 1
      OBVIOUS
    <3>1. \A q \in Atops : fd[q] = 0
      BY <2>4, FirstIsAlone DEF Create, HasMutex
    <3>2. {q \in Users : fd[q] = f} = {}
      BY <3>1 DEF Users
    <3>3. Cardinality({q \in Users : fd[q] = f}) = 0
      BY <3>2, FS_EmptySet
    <3> QED
      BY <3>3
  <2>5. CASE ExitPrivate \/ Suspend \/ Admin
    BY <2>1, <2>2, <2>5 DEF ExitPrivate, Suspend, Admin, disk
  <2>6. ASSUME NEW p \in Atops,
               \/ GetGroup(p) \/ SetAll(p) \/ ClaimMutex(p) \/ OpenPrivate(p)
               \/ Sample(p) \/ CheckSize(p) \/ acctswoff(p) \/ Killed(p)
        PROVE  UNCHANGED size
    BY <2>6 DEF GetGroup, SetAll, ClaimMutex, OpenPrivate, Sample, CheckSize, acctswoff, Killed, disk
  <2>7. ASSUME NEW p \in Atops, acctversPrivate(p) \/ LastUser(p) PROVE UNCHANGED size \/ size' = Grown
    BY <2>7 DEF acctversPrivate, LastUser
  <2>8. ASSUME NEW p \in Atops, Create(p), ~IsFirst PROVE UNCHANGED size
    BY <2>8 DEF Create, disk
  <2>9. ASSUME NEW p \in Atops, acctrestarttrial(p), ~Alone PROVE UNCHANGED size
    BY <2>9 DEF acctrestarttrial
  <2> HIDE DEF Alone1
  <2> QED
    BY <2>1, <2>2, <2>3, <2>4, <2>5, <2>6, <2>7, <2>8, <2>9 DEF NextPrivate
<1>2. InitPrivate => AccountingInv
  BY AccountingStart
<1>3. AccountingInv /\ [NextPrivate]_varsPrivate => AccountingInv'
  BY AccountingStep
<1> QED
  BY <1>1, <1>2, <1>3, PTL DEF SpecPrivate, WipedOnlyAlone
=============================================================================
