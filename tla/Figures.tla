------------------------------ MODULE Figures ------------------------------
(* The conversions of various.c and what the boxes of showsys.c and the    *)
(* columns of showprocs.c make of them.  A text is not built: it is the    *)
(* number of positions it takes and what it denotes.  A text with figure   *)
(* f, unit u, denominator d and per p stands for the value f * u * p / d;  *)
(* u / d is the weight of its last position and p is what the value was    *)
(* divided by (the seconds of the interval when it is an average).         *)
EXTENDS Integers, FiniteSets, TLC

Larger(a, b) == IF a > b THEN a ELSE b
Abs(n) == IF n < 0 THEN -n ELSE n
Quotient(n, d) == IF n < 0 THEN -((-n) \div d) ELSE n \div d      \* as in C
Digits(n) == 1 + Cardinality({k \in 1..9 : n >= 10^k})

\* printf rounds a double to the nearest, and to even when it is halfway.
Nearest(n, d) ==
    LET q == n \div d
        r == 2 * (n % d)
    IN  IF r > d \/ (r = d /\ q % 2 = 1) THEN q + 1 ELSE q

Text(len, figure, unit, den, per) ==
    [len |-> len, figure |-> figure, unit |-> unit, den |-> den, per |-> per]

\* A negative counter is shown as a question mark.
Unknown(len) == Text(len, -1, 0, 1, 1)
----------------------------------------------------------------------------
\* An average is wanted and the interval is not empty.
PerSecond(avg, nsecs) == avg /\ nsecs # 0
Seconds(avg, nsecs) == IF PerSecond(avg, nsecs) THEN nsecs ELSE 1

\* "/s" takes two of the positions.
WidthLeft_full(width, avg, nsecs) == width
WidthLeft(width, avg, nsecs) == IF PerSecond(avg, nsecs) THEN width - 2 ELSE width
Suffix(avg, nsecs) == IF PerSecond(avg, nsecs) THEN 2 ELSE 0

\* The number of divisions by ten after which v fits in w positions.
Exponent(v, w) == CHOOSE e \in 1..9 : /\ v \div 10^e <= 10^w - 1
                                      /\ v \div 10^(e - 1) > 10^w - 1
\* The last digit divided away decides on rounding up.
Rounded_first(v, e) == v \div 10^e + (IF v % 10 >= 5 THEN 1 ELSE 0)
Rounded(v, e) == v \div 10^e + (IF (v \div 10^(e - 1)) % 10 >= 5 THEN 1 ELSE 0)

val2valstr(value, width, avg, nsecs) ==
    LET n == Seconds(avg, nsecs)
        v == Quotient(value + n \div 2, n)
        w == WidthLeft(width, avg, nsecs)
        s == Suffix(avg, nsecs)
        e == Exponent(v, w - 2)
        m == Rounded(v, e)
    IN  CASE v < 0          -> Unknown(w + s)
          [] v >= 0 /\ v < 10^w - 1 -> Text(Larger(w, Digits(v)) + s, v, 1, 1, n)
          [] v >= 10^w - 1 /\ w < 3 -> Text(Digits(v) + s, v, 1, 1, n)
          [] OTHER -> Text(Larger(w - 2, Digits(m)) + 1 + Digits(e) + s, m, 10^e, 1, n)
----------------------------------------------------------------------------
\* Minutes rounded to hours.
Hours_day(min) == (min + 12) \div 24
Hours(min) == (min + 30) \div 60

\* Milliseconds, shown as seconds, minutes, hours or days.
val2cpustr(value) ==
    LET sec  == (value + 500) \div 1000
        min  == (sec + 30) \div 60
        hour == Hours(min)
        Two(lead, figure, unit) == Text(Larger(2, Digits(lead)) + 4, figure, unit, 1, 1)
    IN  CASE value < 100000 -> Two(value \div 1000, value \div 10, 10)
          [] value >= 100000 /\ sec < 6000 -> Two(sec \div 60, sec, 1000)
          [] sec >= 6000 /\ min < 6000 -> Two(min \div 60, min, 60000)
          [] OTHER -> Two(hour \div 24, hour, 3600000)

\* A fixed number of decimals, "%w.df"; the value is given in hundredths.
Decimals(value, w, d, suffix) ==
    LET f == Nearest(value, 10^(2 - d))
    IN  Text(Larger(w, Digits(f \div 10^d) + (IF d = 0 THEN 0 ELSE d + 1)) + suffix,
             f, 10^(2 - d), 1, 1)

\* MHz.  Halfway between two figures the double decides, not this operator.
val2Hzstr(value) ==
    LET Giga(d, unit) == LET f == Nearest(value, unit)
                         IN  Text(Larger(4, Digits(f \div 10^d) + (IF d = 0 THEN 0 ELSE d + 1)) + 3,
                                  f, unit, 1, 1)
        k == IF value >= 1000000 THEN 1000 ELSE 1
    IN  CASE value < 1000 -> Text(Larger(4, Digits(value)) + 3, value, 1, 1, 1)
          [] value >= 1000 /\ value < 10000 * k -> Giga(2, 10 * k)
          [] value >= 10000 * k /\ value < 100000 * k -> Giga(1, 100 * k)
          [] OTHER -> Giga(0, 1000 * k)

\* KiB.  The format grows with the value and is at least the one preferred;
\* a value below 2^31 KiB never needs more than terabytes.
Format(verify) == CASE verify <= 1 -> 0
                    [] verify > 1 /\ verify <= 99999 -> 1
                    [] verify > 99999 /\ verify <= 999 * 1024 -> 2
                    [] verify > 999 * 1024 /\ verify <= 999 * 1048576 -> 3
                    [] OTHER -> 4

val2memstr(value, pformat, avg, nsecs) ==
    LET n == Seconds(avg, nsecs)
        v == Abs(value)
        verify == IF PerSecond(avg, nsecs) THEN (v * 100 + n - 1) \div n
                  ELSE IF value < 0 THEN v * 10 ELSE v
        sign == IF value < 0 THEN 1 ELSE 0
        Sign(f) == IF value < 0 THEN -f ELSE f
        base == WidthLeft(6, avg, nsecs)
        s == Suffix(avg, nsecs)
        k == Larger(Format(verify), pformat)
        f == Nearest(10 * v, n * 1024^(k - 1))
    IN  CASE k = 1 -> Text(Larger(base - 1, sign + Digits(v \div n)) + 1 + s, Sign(v \div n), 1, 1, n)
          [] OTHER -> Text(Larger(base - 1, sign + Digits(f \div 10) + 2) + 1 + s,
                           Sign(f), 1024^(k - 1), 10, n)

\* Bytes per interval, shown in Kbps or a multiple of it (makenetspeed and
\* format_bandw are the same).
makenetspeed(value, nsecs) ==
    LET v == (value \div 125) \div nsecs
        k == CASE v < 10000 -> 1 [] v >= 10000 /\ v < 10000000 -> 1000 [] OTHER -> 1000000
    IN  Text(Larger(4, Digits(v \div k)) + 5, v \div k, k, 1, 125 * nsecs)

\* Mbps or Gbps of an interface.
SpeedMax(speed) == LET k == IF speed < 10000 THEN 1 ELSE 1000
                   IN  Text(Larger(4, Digits(speed \div k)) + 5, speed \div k, k, 1, 1)
----------------------------------------------------------------------------
(* A place is where a converted value goes: its first position, the        *)
(* conversion with its width, whether the interval average may be asked    *)
(* for, and the positions the whole text is meant to have.                 *)
Place(conv, at, w, d, avg, total) ==
    [conv |-> conv, at |-> at, w |-> w, d |-> d, avg |-> avg, total |-> total]
Box(conv, at, w) == Place(conv, at, w, 0, FALSE, 12)
Avg(at, w) == Place("val", at, w, 0, TRUE, 12)
Val(at, w) == Box("val", at, w)
Mem(at, pformat) == Box("mem", at, pformat)
MemAvg(at) == Place("mem", at, 1, 0, TRUE, 12)
Dec(at, w, d) == Place("dec", at, w, d, FALSE, 12)
Percent(at, w) == Place("percent", at, w, 0, FALSE, 12)
Literal(len) == Place("literal", 0, len, 0, FALSE, len)

\* What a place makes of a value (in the unit its conversion takes).
Convert(p, value, avg, nsecs) ==
    CASE p.conv = "val" -> val2valstr(value, p.w, p.avg /\ avg, nsecs)
      [] p.conv = "cpu" -> val2cpustr(value)
      [] p.conv = "mem" -> val2memstr(value, p.w, p.avg /\ avg, nsecs)
      [] p.conv = "hz"  -> val2Hzstr(value)
      [] p.conv = "dec" -> Decimals(value, p.w, p.d, 0)
      [] p.conv = "percent" -> Decimals(value, p.w, 0, 1)
      [] p.conv = "load" -> Decimals(value, p.w, IF value > 99900 THEN 0 ELSE 2, 0)
      [] p.conv = "avio" -> Decimals(value, p.w, IF value > 10000 THEN 0 ELSE IF value > 1000 THEN 1 ELSE 2, 3)
      [] p.conv = "speed" -> makenetspeed(value, nsecs)
      [] p.conv = "speedmax" -> SpeedMax(value)
      [] p.conv = "int" -> Text(Larger(p.w, Digits(value)), value, 1, 1, 1)
      [] p.conv = "literal" -> Text(p.w, value, 1, 1, 1)

PRCboxes == [ PRCSYS |-> Box("cpu", 6, 6), PRCUSER |-> Box("cpu", 6, 6),
              PRCNPROC |-> Val(6, 6), PRCNRUNNING |-> Val(6, 6),
              PRCNSLEEPING |-> Val(8, 4), PRCNDSLEEPING |-> Val(8, 4),
              PRCNZOMBIE |-> Val(8, 4), PRCNNEXIT |-> Avg(6, 6),
              PRCNNEXIT_overflow |-> Avg(7, 5), PRCNNEXIT_noacct |-> Literal(12) ]
CPUboxes == [ CPUSYS |-> Percent(5, 6), CPUUSER |-> Percent(5, 6), CPUIRQ |-> Percent(5, 6),
              CPUIDLE |-> Percent(5, 6), CPUWAIT |-> Percent(5, 6) ]
CPIboxes == [ CPUISYS |-> Percent(5, 6), CPUIUSER |-> Percent(5, 6), CPUIIRQ |-> Percent(5, 6),
              CPUIIDLE |-> Percent(5, 6), CPUIWAIT |-> Percent(8, 3) ]
FREQboxes == [ CPUIFREQ |-> Box("hz", 5, 7), CPUFREQ |-> Box("hz", 5, 7),
               CPUFREQ_unknown |-> Literal(12), CPUISCALE |-> Percent(7, 4),
               CPUSCALE |-> Percent(7, 4), CPUSCALE_unknown |-> Literal(12) ]
VIRTboxes == [ CPUSTEAL |-> Percent(6, 5), CPUISTEAL |-> Percent(6, 5),
               CPUGUEST |-> Percent(6, 5), CPUIGUEST |-> Percent(6, 5),
               CPUIPC_unknown |-> Literal(12), CPUIPC |-> Dec(4, 8, 2) ]
CYCLEboxes == [ CPUIIPC |-> Dec(4, 8, 2), CPUCYCLE |-> Box("hz", 5, 7),
                CPUCYCLE_unknown |-> Literal(12), CPUICYCLE |-> Box("hz", 5, 7) ]
CPLboxes == [ CPLAVG1 |-> Box("load", 5, 7), CPLAVG5 |-> Box("load", 5, 7), CPLAVG15 |-> Box("load", 6, 6),
              CPLCSW |-> Avg(4, 8), PRCCLONES |-> Avg(7, 5), CPLNUMCPU |-> Val(7, 5),
              CPLINTR |-> Avg(5, 7) ]
MEMboxes == [ MEMTOT |-> Mem(6, 2), MEMFREE |-> Mem(6, 2), MEMCACHE |-> Mem(6, 2),
              MEMDIRTY |-> Mem(6, 2), MEMBUFFER |-> Mem(6, 2), MEMSLAB |-> Mem(6, 2),
              RECSLAB |-> Mem(6, 2), SHMEM |-> Mem(6, 2), SHMRSS |-> Mem(6, 2),
              SHMSWP |-> Mem(6, 2), HUPTOT |-> Mem(6, 2), HUPUSE |-> Mem(6, 2) ]
SWPboxes == [ VMWBAL |-> Mem(6, 2), SWPTOT |-> Mem(6, 2), SWPFREE |-> Mem(6, 2),
              SWPCOMMITTED |-> Mem(6, 2), SWPCOMMITLIM |-> Mem(6, 2), PAGSCAN |-> Avg(5, 7),
              PAGSTEAL |-> Avg(6, 6), PAGSTALL |-> Avg(6, 6), PAGSWIN |-> Avg(5, 7),
              PAGSWOUT |-> Avg(6, 6) ]
CONTboxes == [ CONTNAME |-> Val(5, 7), CONTNPROC |-> Avg(6, 6), CONTCPU |-> Percent(8, 3),
               CONTCPU_unknown |-> Literal(12), CONTMEM |-> Mem(6, 2) ]
DSKboxes == [ DSKNAME |-> Literal(12), DSKBUSY |-> Percent(5, 6), DSKNREAD |-> Avg(5, 7),
              DSKNWRITE |-> Avg(6, 6), DSKKBPERWR |-> Val(6, 6), DSKKBPERRD |-> Val(6, 6),
              DSKMBPERSECWR |-> Dec(6, 6, 1), DSKMBPERSECRD |-> Dec(6, 6, 1),
              DSKAVQUEUE |-> Dec(4, 8, 2), DSKAVIO |-> Box("avio", 5, 4) ]
TCPboxes == [ NETTRANSPORT |-> Literal(12), NETTCPI |-> Avg(5, 7), NETTCPO |-> Avg(5, 7),
              NETTCPACTOPEN |-> Avg(6, 6), NETTCPPASVOPEN |-> Avg(6, 6),
              NETTCPRETRANS |-> Avg(6, 6), NETTCPINERR |-> Avg(6, 6), NETTCPORESET |-> Avg(6, 6),
              NETUDPNOPORT |-> Avg(6, 6), NETUDPINERR |-> Avg(6, 6), NETUDPI |-> Avg(5, 7),
              NETUDPO |-> Avg(5, 7) ]
IPboxes == [ NETNETWORK |-> Literal(12), NETIPI |-> Avg(4, 8), NETIPO |-> Avg(4, 8),
             NETIPFRW |-> Avg(6, 6), NETIPDELIV |-> Avg(6, 6), NETICMPIN |-> Avg(6, 6),
             NETICMPOUT |-> Avg(6, 6) ]
INTboxes == [ NETNAME |-> Percent(8, 3), NETPCKI |-> Avg(5, 7), NETPCKO |-> Avg(5, 7),
              NETSPEEDMAX |-> Box("speedmax", 3, 4), NETSPEEDIN |-> Box("speed", 3, 4),
              NETSPEEDOUT |-> Box("speed", 3, 4) ]
ERRboxes == [ NETCOLLIS |-> Avg(5, 7), NETMULTICASTIN |-> Avg(5, 7), NETRCVERR |-> Avg(5, 7),
              NETSNDERR |-> Avg(5, 7), NETRCVDROP |-> Avg(5, 7), NETSNDDROP |-> Avg(5, 7) ]
NFMboxes == [ NFMSERVER |-> Literal(12), NFMPATH |-> Literal(12), NFMTOTREAD |-> MemAvg(6),
              NFMTOTWRITE |-> MemAvg(6), NFMNREAD |-> MemAvg(6), NFMNWRITE |-> MemAvg(6),
              NFMDREAD |-> MemAvg(6), NFMDWRITE |-> MemAvg(6), NFMMREAD |-> MemAvg(6),
              NFMMWRITE |-> MemAvg(6) ]
NFCboxes == [ NFCRPCCNT |-> Avg(4, 8), NFCRPCREAD |-> Avg(5, 7), NFCRPCWRITE |-> Avg(6, 6),
              NFCRPCRET |-> Avg(8, 4), NFCRPCARF |-> Avg(7, 5) ]
NFSboxes == [ NFSRPCCNT |-> Avg(4, 8), NFSRPCREAD |-> Avg(6, 6), NFSRPCWRITE |-> Avg(6, 6),
              NFSBADFMT |-> Avg(7, 5), NFSBADAUT |-> Avg(7, 5), NFSBADCLN |-> Avg(7, 5),
              NFSNETTCP |-> Avg(7, 5), NFSNETUDP |-> Avg(7, 5) ]
RCboxes == [ NFSNRBYTES |-> Dec(7, 5, 1), NFSNWBYTES |-> Dec(7, 5, 1), NFSRCHITS |-> Avg(8, 4),
             NFSRCMISS |-> Avg(8, 4), NFSRCNOCA |-> Avg(8, 4), BLANKBOX |-> Literal(12) ]
----------------------------------------------------------------------------
(* A column of the process list: its declared width, what it shows of an   *)
(* active and what of an exited process.                                   *)
Column(w, active, exited) ==
    [w |-> w, active |-> [active EXCEPT !.total = w], exited |-> [exited EXCEPT !.total = w]]
Same(w, p) == Column(w, p, p)
Number(w) == Place("int", 0, w, 0, FALSE, w)
Dash(w, p) == Column(w, p, Literal(w))
Kbytes(w) == Dash(w, Mem(0, 1))

\* The PID columns are as wide as the largest PID.
IDcolumns(pidw) == [ PID |-> Same(pidw, Number(pidw)), TID |-> Same(pidw, Number(pidw)),
                     PPID |-> Dash(pidw, Number(pidw)), VPID |-> Dash(pidw, Number(pidw)),
                     CTID |-> Dash(5, Number(5)), CID |-> Same(12, Literal(12)) ]
GROWcolumns == [ SYSCPU |-> Same(6, Box("cpu", 0, 6)), USRCPU |-> Same(6, Box("cpu", 0, 6)),
                 VGROW |-> Kbytes(6), RGROW |-> Kbytes(6), MINFLT |-> Same(6, Avg(0, 6)),
                 MAJFLT |-> Same(6, Avg(0, 6)), VSTEXT |-> Kbytes(6), VSIZE |-> Kbytes(6) ]
SIZEcolumns == [ RSIZE |-> Kbytes(6), PSIZE |-> Kbytes(6), VSLIBS |-> Kbytes(6),
                 VDATA |-> Kbytes(6), VSTACK |-> Kbytes(6), SWAPSZ |-> Kbytes(6),
                 CMD |-> Same(14, Literal(14)) ]
USERcolumns == [c \in {"RUID", "EUID", "SUID", "FSUID"} |-> Same(8, Literal(8))]
GROUPcolumns == [c \in {"RGID", "EGID", "SGID", "FSGID"} |-> Same(8, Literal(8))]
DATEcolumns == [ STDATE |-> Same(10, Literal(10)), STTIME |-> Same(8, Literal(8)),
                 ENDATE |-> Same(10, Literal(10)), ENTIME |-> Same(8, Literal(8)) ]
SCHEDcolumns == [ THR |-> Dash(4, Number(4)), TRUN |-> Dash(4, Number(4)), TSLPI |-> Dash(5, Number(5)),
                  TSLPU |-> Dash(5, Number(5)), POLI |-> Same(4, Literal(4)) ]
PRIOcolumns == [ NICE |-> Dash(4, Number(4)), PRI |-> Dash(3, Number(3)), RTPR |-> Dash(4, Number(4)),
                 CPUNR |-> Dash(5, Number(5)), ST |-> Same(2, Literal(2)),
                 EXC |-> Column(3, Literal(3), Number(3)), S |-> Same(1, Literal(1)) ]
DISKcolumns == [ NPROCS |-> Same(6, Val(0, 6)), RDDSK |-> Dash(6, MemAvg(0)),
                 WRDSK |-> Dash(6, MemAvg(0)), CWRDSK |-> Dash(6, MemAvg(0)),
                 WCANCL |-> Dash(6, MemAvg(0)) ]
TCPcolumns == [ TCPRCV |-> Same(6, Avg(0, 6)), TCPRASZ |-> Same(7, Val(0, 7)),
                TCPSND |-> Same(6, Avg(0, 6)), TCPSASZ |-> Same(7, Val(0, 7)) ]
UDPcolumns == [ UDPRCV |-> Same(6, Avg(0, 6)), UDPRASZ |-> Same(7, Val(0, 7)),
                UDPSND |-> Same(6, Avg(0, 6)), UDPSASZ |-> Same(7, Val(0, 7)) ]
NETcolumns == [ RNET |-> Same(5, Avg(0, 5)), SNET |-> Same(5, Avg(0, 5)),
                BANDWI |-> Same(9, Box("speed", 0, 9)), BANDWO |-> Same(9, Box("speed", 0, 9)) ]
SORTITEM == Same(4, Percent(0, 3))

Columns(pidw) == IDcolumns(pidw) @@ GROWcolumns @@ SIZEcolumns @@ USERcolumns @@ GROUPcolumns
                 @@ DATEcolumns @@ SCHEDcolumns @@ PRIOcolumns @@ DISKcolumns @@ TCPcolumns
                 @@ UDPcolumns @@ NETcolumns @@ [SORTITEM |-> SORTITEM]

\* Every place a figure can be shown at.
BoxPlaces == UNION { {b[n] : n \in DOMAIN b} :
                 b \in {PRCboxes, CPUboxes, CPIboxes, FREQboxes, VIRTboxes, CYCLEboxes, CPLboxes,
                        MEMboxes, SWPboxes, CONTboxes, DSKboxes, TCPboxes, IPboxes, INTboxes,
                        ERRboxes, NFMboxes, NFCboxes, NFSboxes, RCboxes} }
ColumnPlaces == UNION { {c[n].active, c[n].exited} : c \in {Columns(5)}, n \in DOMAIN Columns(5) }
=============================================================================
