------------------------------ MODULE ProcFiles ------------------------------
(* How photosyst (photosyst.c) reads the files of /proc: line by line, each  *)
(* line stored by its label.  The kernel decides on the lines and on their   *)
(* order; the value of a line is its place in the file.  For the disks there *)
(* are two samples, and between them logical volumes come and go: the table  *)
(* of their names is made at the first one only.                             *)
EXTENDS Integers, Sequences, FiniteSets, FiniteSetsExt, SequencesExt

CONSTANTS
    Kinds,    \* the files looked at
    MaxMount  \* entries of the table of mounts (MAXNFSMOUNT)

VARIABLE rdr  \* the reader: file, its lines, lines read, what is stored

Line(l, d) == [label |-> l, id |-> d]
Fields == {"InReceives", "InDelivers", "OutRequests", "physmem", "cachemem", "pgscans", "rpcread"}

Init ==
    rdr = [kind |-> "none", file |-> <<>>, at |-> 0, cur |-> 1, vals |-> [f \in Fields |-> -1], mountdev |-> "",
           fstype |-> "", tab |-> <<>>, devmaps |-> {}, mapped |-> FALSE, volumes |-> {}, samples |-> 0]

---------------------------------------------------------------------------
(* The files. *)

Lines(labels) == UNION {SetToSeqs({Line(l, 0) : l \in S}) : S \in SUBSET labels}
Blocks(bs) == {FlattenSeq(b) : b \in UNION {SetToSeqs(S) : S \in SUBSET bs}}

Mount(d) == <<Line("device nfs", d), Line("age:", d), Line("bytes:", d)>>
OtherMount == <<Line("device ext4", "other")>>
Container(c) == <<Line("numproc", c), Line("physpages", "")>>
Usage == {Line("vestat", "c1"), Line("vestat", "c2"), Line("vestat", "c3")}

Files ==
    [v6 |-> Lines({"InReceives", "InDelivers", "OutRequests", "InOctets"}),
     meminfo |-> Lines({"Mem:", "MemTotal:", "Cached:", "Dirty:"}),
     vmstat |-> Lines({"pgscan_kswapd", "pgscan_direct", "pswpin"}),
     nfs |-> Lines({"proc2", "proc3", "proc4", "rpc"}),
     mountstats |-> Blocks({Mount("m1"), Mount("m2"), Mount("m3"), OtherMount}),
     containers |-> {b \o u : b \in Blocks({Container("c1"), Container("c2")}), u \in SetToSeqs(Usage)}]

Open ==
    /\ rdr.kind = "none"
    /\ \E k \in Kinds \ {"diskstats"} : \E f \in Files[k] :
        rdr' = [rdr EXCEPT !.kind = k, !.file = f, !.vals = [x \in Fields |-> IF x \in {"physmem", "cachemem"} THEN -1 ELSE 0]]

Reading(kind) == rdr.kind = kind /\ rdr.at < Len(rdr.file)
Val == rdr.at + 1
Cur == rdr.file[Val]

---------------------------------------------------------------------------
(* Files with one value on a line. *)

v6tab == <<"InReceives", "InDelivers", "OutRequests">>

\* Mutant of V6Found.
V6Found_ahead(nam) ==
    IF v6tab[rdr.cur] = nam THEN rdr.cur
    ELSE Min({k \in rdr.cur .. Len(v6tab) : v6tab[k] = nam} \union {Len(v6tab) + 1})

\* The entry behind the last one is tried first.
V6Found(nam) ==
    IF v6tab[rdr.cur] = nam THEN rdr.cur
    ELSE Min({k \in 1 .. Len(v6tab) : v6tab[k] = nam} \union {Len(v6tab) + 1})

snmp6 ==
    /\ Reading("v6")
    /\ LET c == V6Found(Cur.label)
       IN rdr' = [rdr EXCEPT !.at = Val, !.cur = IF c + 1 > Len(v6tab) THEN 1 ELSE c + 1,
                             !.vals = IF c > Len(v6tab) THEN @ ELSE [@ EXCEPT ![v6tab[c]] = Val]]

\* A line of a 2.4 kernel overrules; the other lines only fill in.
meminfo ==
    /\ Reading("meminfo")
    /\ rdr' = [rdr EXCEPT !.at = Val,
                 !.vals = [@ EXCEPT !.physmem = IF Cur.label = "Mem:" \/ (Cur.label = "MemTotal:" /\ @ = -1) THEN Val ELSE @,
                                    !.cachemem = IF Cur.label = "Cached:" /\ @ = -1 THEN Val ELSE @]]

\* The scans of all zones, and of kswapd and the processes, are one counter.
vmstat ==
    /\ Reading("vmstat")
    /\ rdr' = [rdr EXCEPT !.at = Val, !.vals.pgscans = IF Cur.label \in {"pgscan_kswapd", "pgscan_direct"} THEN @ + Val ELSE @]

\* The calls of all versions of NFS are one counter.
nfsserver ==
    /\ Reading("nfs")
    /\ rdr' = [rdr EXCEPT !.at = Val, !.vals.rpcread = IF Cur.label \in {"proc2", "proc3", "proc4"} THEN @ + Val ELSE @]

---------------------------------------------------------------------------
(* Files with several lines for a mount or a container. *)

\* The entry under construction is the one behind the complete ones.
InTable(i, f, v) ==
    LET e == IF i <= Len(rdr.tab) THEN rdr.tab[i] ELSE [id |-> "", age |-> 0, bytes |-> 0]
        t == IF i <= Len(rdr.tab) THEN rdr.tab ELSE Append(rdr.tab, e)
    IN [t EXCEPT ![i] = [e EXCEPT ![f] = v]]

\* Mutant of NextMount.
NextMount_age(i) == IF Cur.label = "age:" THEN i + 1 ELSE i

NextMount(i) == IF Cur.label = "bytes:" THEN i + 1 ELSE i

\* The loop ends when one entry is left; cur is the entry to be filled.
mountstats ==
    /\ Reading("mountstats") /\ rdr.cur < MaxMount
    /\ LET i == rdr.cur
           isnfs == rdr.fstype = "nfs"
           r == [rdr EXCEPT !.at = Val]
       IN rdr' = CASE Cur.label = "device nfs" -> [r EXCEPT !.mountdev = Cur.id, !.fstype = "nfs"]
                   [] Cur.label = "device ext4" -> [r EXCEPT !.mountdev = Cur.id, !.fstype = "ext4"]
                   [] Cur.label = "age:" /\ isnfs ->
                        [r EXCEPT !.tab = [InTable(i, "id", rdr.mountdev) EXCEPT ![i].age = Val], !.cur = NextMount(i)]
                   [] Cur.label = "bytes:" /\ isnfs ->
                        [r EXCEPT !.tab = InTable(i, "bytes", Val), !.cur = NextMount(i)]
                   [] OTHER -> r

\* A line with an id starts a container; vz/vestat is matched by the id.
beancounters ==
    /\ Reading("containers")
    /\ LET n == Len(rdr.tab)
           mine == {k \in 1 .. n : rdr.tab[k].id = Cur.id}
           r == [rdr EXCEPT !.at = Val]
       IN rdr' = CASE Cur.label = "numproc" -> [r EXCEPT !.tab = Append(@, [id |-> Cur.id, age |-> 0, bytes |-> 0])]
                   [] Cur.label = "physpages" -> [r EXCEPT !.tab[n].bytes = Val]
                   [] Cur.label = "vestat" -> IF mine = {} THEN r ELSE [r EXCEPT !.tab[Min(mine)].age = Val]

---------------------------------------------------------------------------
(* diskstats: volumes are pairs of the minor number and the name. *)

Minors == 0 .. 2
VolumeNames == {"root", "home"}

\* Volumes are made and removed.
Volumes ==
    /\ "diskstats" \in Kinds /\ rdr.kind \in {"none", "diskstats"} /\ rdr.samples < 2
    /\ \E vs \in SUBSET (Minors \X VolumeNames) :
        /\ \A v, w \in vs : v # w => v[1] # w[1] /\ v[2] # w[2]
        /\ vs # rdr.volumes
        /\ rdr' = [rdr EXCEPT !.kind = "diskstats", !.volumes = vs, !.at = rdr.samples + 1]

Unnamed == <<"dm-0", "dm-1", "dm-2">>

\* The name at the first call, or the original one.
lvmmapname(maps, minor) ==
    LET known == {v \in maps : v[1] = minor} IN IF known = {} THEN Unnamed[minor + 1] ELSE (CHOOSE v \in known : TRUE)[2]

\* The type that the first matching expression of validdisk gives.
isdisk(class) ==
    CASE class \in {"ram", "loop", "sda1"} -> "NONTYPE"
      [] class \in {"sda", "vda", "nvme0n1", "hda", "mmcblk0"} -> "DSKTYPE"
      [] class = "dm" -> "LVMTYPE"
      [] class = "md0" -> "MDDTYPE"

\* Mutant of MapNow.
MapNow_seen(r) == r.devmaps \union r.volumes

\* The list of names is set up at the first call and kept.
MapNow(r) == IF r.mapped THEN r.devmaps ELSE r.volumes

diskstats ==
    /\ rdr.kind = "diskstats" /\ rdr.at = rdr.samples + 1
    /\ LET maps == MapNow(rdr)
       IN rdr' = [rdr EXCEPT !.samples = @ + 1, !.mapped = (rdr.volumes # {} \/ @), !.devmaps = IF rdr.volumes = {} THEN @ ELSE maps,
                    !.tab = SetToSeq({<<c, isdisk(c)>> : c \in {x \in {"sda", "sda1", "md0", "loop"} : isdisk(x) # "NONTYPE"}}
                              \union {<<lvmmapname(maps, v[1]), isdisk("dm")>> : v \in rdr.volumes})]

Next ==
    \/ Open \/ snmp6 \/ meminfo \/ vmstat \/ nfsserver
    \/ mountstats \/ beancounters \/ Volumes \/ diskstats

Spec == Init /\ [][Next]_rdr

---------------------------------------------------------------------------
(* Properties. *)

AllRead == rdr.kind \notin {"none", "diskstats"} /\ rdr.at = Len(rdr.file)
PlacesOf(labels) == {i \in DOMAIN rdr.file : rdr.file[i].label \in labels}
OnlyOrDefault(S, dflt) == IF S = {} THEN dflt ELSE Min(S)

\* In whatever order the lines come: each counter of IP version 6 is stored
\* under its name, "Mem:" is preferred to "MemTotal:", and the scans and the
\* calls are summed over all their lines.
FieldsByLabel ==
    /\ AllRead /\ rdr.kind = "v6" => \A k \in DOMAIN v6tab : rdr.vals[v6tab[k]] = OnlyOrDefault(PlacesOf({v6tab[k]}), 0)
    /\ AllRead /\ rdr.kind = "meminfo" =>
        rdr.vals.physmem = OnlyOrDefault(PlacesOf({"Mem:"}), OnlyOrDefault(PlacesOf({"MemTotal:"}), -1))
    /\ AllRead /\ rdr.kind = "vmstat" => rdr.vals.pgscans = SumSet(PlacesOf({"pgscan_kswapd", "pgscan_direct"}))
    /\ AllRead /\ rdr.kind = "nfs" => rdr.vals.rpcread = SumSet(PlacesOf({"proc2", "proc3", "proc4"}))

\* A complete entry of a mount has the age and the bytes of that mount, and
\* a container the pages and the usage of that container, though the lines
\* that follow do not repeat the name and other mounts are in between.
BlocksTogether ==
    /\ rdr.kind = "mountstats" => \A i \in 1 .. Min({rdr.cur - 1, Len(rdr.tab)}) :
            rdr.file[rdr.tab[i].age].id = rdr.tab[i].id /\ rdr.tab[i].bytes = rdr.tab[i].age + 1
    /\ AllRead /\ rdr.kind = "containers" => \A i \in DOMAIN rdr.tab :
            rdr.file[rdr.tab[i].age].id = rdr.tab[i].id /\ rdr.file[rdr.tab[i].bytes - 1].id = rdr.tab[i].id

\* The logical volumes of a sample have different names, though the names
\* are those of the first sample and numbers are used again.
VolumesDistinct ==
    rdr.kind = "diskstats" /\ rdr.samples > 0 /\ rdr.at = rdr.samples =>
        Cardinality({rdr.tab[i] : i \in DOMAIN rdr.tab}) = Cardinality(rdr.volumes) + 2

\* Whatever lines a kernel prints, and in whatever order, a value is stored
\* where it belongs.
StoredWhereItBelongs == FieldsByLabel /\ BlocksTogether /\ VolumesDistinct
=============================================================================
