---------------------------- MODULE MCAccounting ----------------------------
(***************************************************************************)
(* The two ways in which atop gets the records of ended processes: through *)
(* the shadow files of atopacctd, or by private accounting when no daemon  *)
(* runs.  A behaviour is one of the two (acctswon chooses once).           *)
(***************************************************************************)
EXTENDS ShadowAccounting, PrivateAccounting

VARIABLE way  \* "shadow" or "private"

\* The assumptions of both modules hold of these instances.
ASSUME AccountingAssumptions == AccountingAssumption /\ BatchFits

InitAccounting ==
    /\ way \in {"shadow", "private"}
    /\ Init /\ InitPrivate
    /\ way = "shadow" => priv = Atops

NextAccounting ==
    \/ way = "shadow" /\ Next /\ UNCHANGED <<way, varsPrivate>>
    \/ way = "private" /\ NextPrivate /\ UNCHANGED <<way, vars>>

SpecAccounting == InitAccounting /\ [][NextAccounting]_<<way, vars, varsPrivate>>
=============================================================================
