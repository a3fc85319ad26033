----------------------------- MODULE BalanceLoad -----------------------------
(***************************************************************************)
(* Qt/BalanceLoad: balanceDevices gives a transcoding job to a CPU or GPU, *)
(* by the time each device is still busy and the frame rate config gives   *)
(* for the transformation.  A job is its transformation, a pair of         *)
(* resolutions, and its number of frames, duration * fps_input.  main      *)
(* makes one call; here jobs follow each other until MaxTime.              *)
(***************************************************************************)
EXTENDS Integers, FiniteSets

CONSTANTS
  NumDevice,    \* num_device
  Lists,        \* the device lists to start from
  CPU, GPU,     \* frames per second for a transformation, -1 for none
  Inputs,       \* the jobs, [trans, frames]
  MaxTime       \* bound of remaining_time

Indices == 0 .. NumDevice - 1
DeviceInformation == [gpu : BOOLEAN, remaining_time : Nat]

\* Assumed of the constants.
BalanceAssumption ==
  /\ NumDevice \in Nat \ {0}
  /\ Lists \subseteq [Indices -> DeviceInformation]
  /\ DOMAIN CPU = DOMAIN GPU
  /\ \A t \in DOMAIN CPU : CPU[t] \in Int \ {0} /\ GPU[t] \in Int \ {0}
  /\ \A in \in Inputs : in.trans \in DOMAIN CPU /\ in.frames \in Nat
  /\ MaxTime \in Nat

VARIABLE list_device

\* init_device
Init == list_device \in Lists

\* Slip: the minimum found is not stored.
ScanKeepsFirst(kind) ==
  LET best[n \in 0 .. NumDevice] ==
        IF n = 0 THEN [re |-> -1, id |-> 0]
        ELSE LET b == best[n - 1]
                 d == list_device[n - 1]
                 re == IF b.re < 0 THEN d.remaining_time ELSE b.re
             IN  IF d.gpu # kind THEN b
                 ELSE [re |-> re, id |-> IF d.remaining_time < re THEN n - 1 ELSE b.id]
  IN  best[NumDevice]

\* The first loop, for the devices of one kind: re_gpu and id_gpu, or re_cpu
\* and id_cpu, after n devices.
Scan(kind) ==
  LET best[n \in 0 .. NumDevice] ==
        IF n = 0 THEN [re |-> -1, id |-> 0]
        ELSE LET b == best[n - 1]
                 d == list_device[n - 1]
                 re == IF b.re < 0 THEN d.remaining_time ELSE b.re
             IN  IF d.gpu # kind THEN b
                 ELSE IF d.remaining_time < re
                 THEN [re |-> d.remaining_time, id |-> n - 1]
                 ELSE [re |-> re, id |-> b.id]
  IN  best[NumDevice]

Rate(kind, in) == IF kind THEN GPU[in.trans] ELSE CPU[in.trans]
Exe(kind, in) == in.frames \div Rate(kind, in)

\* Slip: the comparison looks at the remaining times alone.
UsesByRemaining(in) ==
  {k \in BOOLEAN : Rate(k, in) >= 0
                   /\ (Rate(~k, in) >= 0 => k = (Scan(TRUE).re <= Scan(FALSE).re))}

\* The kinds of device the comparison chooses: the only one config has a rate
\* for, or the one that would be done first, or none.
Uses(in) ==
  {k \in BOOLEAN :
     /\ Rate(k, in) >= 0
     /\ Rate(~k, in) >= 0 =>
          k = (Scan(TRUE).re + Exe(TRUE, in) <= Scan(FALSE).re + Exe(FALSE, in))}

\* Slip: the execution time is taken off.
AddSubtracts(id, t) ==
  list_device' = [list_device EXCEPT ![id].remaining_time = @ - t]

Add(id, t) ==
  list_device' = [list_device EXCEPT ![id].remaining_time = @ + t]

balanceDevices(in) ==
  \/ \E k \in Uses(in) :
       /\ \A n \in Indices : list_device[n].remaining_time + Exe(k, in) <= MaxTime
       /\ Add(Scan(k).id, Exe(k, in))
  \/ Uses(in) = {} /\ UNCHANGED list_device

Next == \E in \in Inputs : balanceDevices(in)
Spec == Init /\ [][Next]_list_device

-----------------------------------------------------------------------------

TypeOK == list_device \in [Indices -> DeviceInformation]

Of(kind) == {n \in Indices : list_device[n].gpu = kind}
Least(kind) == {n \in Of(kind) :
                  \A m \in Of(kind) :
                    list_device[n].remaining_time <= list_device[m].remaining_time}

\* The scan computes the least remaining time of each kind, -1 without devices
\* of the kind, whatever the order of the devices and the earlier jobs.
ScanFindsMinimum ==
  \A kind \in BOOLEAN :
    \/ Of(kind) = {} /\ Scan(kind).re = -1
    \/ \E n \in Least(kind) : Scan(kind).re = list_device[n].remaining_time

\* The scan keeps index 0 when no device of the kind is less loaded than the
\* first of its kind.
IndexMoves(kind) ==
  \/ list_device[0].gpu = kind
  \/ \E n, m \in Of(kind) :
       n < m /\ list_device[m].remaining_time < list_device[n].remaining_time
             /\ \A l \in Of(kind) : n <= l

\* Where the index moves for every kind in use, a job ends as early as any
\* device could end it.
EndsEarliest ==
  [][\A in \in Inputs, n \in Indices :
       (/\ balanceDevices(in)
        /\ list_device'[n] # list_device[n]
        /\ \A k \in BOOLEAN : Rate(k, in) >= 0 => IndexMoves(k))
       => \A m \in Indices :
            LET k == list_device[m].gpu IN
            Rate(k, in) >= 0 =>
              list_device'[n].remaining_time
                <= list_device[m].remaining_time + Exe(k, in)]_list_device

=============================================================================
