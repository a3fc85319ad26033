------------------------------ MODULE MCReports ------------------------------
(***************************************************************************)
(* The raw log with its writer and reader, and the reports that atopsar    *)
(* makes of the samples.  atopsar calls rawread for its samples; here a    *)
(* behaviour looks at one of the two.                                      *)
(***************************************************************************)
EXTENDS RawLog
CONSTANTS Rcs, Args, MaxLog, Units, NrCpu, Midnights, Idles, Supports, Summaries, Begins, Ends, RepeatHead
VARIABLES
    part,   \* "raw" or "sar"
    sar

Sar == INSTANCE AtopSar

\* The assumptions of both modules hold of this instance.
ASSUME ReportAssumptions == RawAssumption /\ Sar!SarAssumption

MCRcs == {<<>>, <<"c">>}
MCArgs == {<<>>, <<"a">>, <<"i", "R", "b">>, <<"d", "R", "e", "H">>, <<"c", "O", "R">>, <<"D", "N", "G", "m">>,
           <<"P", "I", "H">>, <<"A">>}

InitReports ==
    /\ Init
    /\ (part = "sar" /\ Sar!Init) \/ (part = "raw" /\ sar = [pc |-> "idle"])

OfSar(A) == part = "sar" /\ A /\ UNCHANGED <<part, vars>>
OfRaw(A) == part = "raw" /\ A /\ UNCHANGED <<part, sar>>
NextReports == OfSar(Sar!Next) \/ OfRaw(Next)

\* The fairness of AtopSar and of RawLog: atopsar and the reader run on.
SpecReports ==
    /\ InitReports /\ [][NextReports]_<<part, sar, vars>>
    /\ WF_<<part, sar, vars>>(OfSar(Sar!Next)) /\ WF_<<part, sar, vars>>(OfRaw(Reader))

\* ReportsCover of AtopSar: a report has each of its samples in one line.
SamplesReported == part = "sar" => Sar!ReportsCover

\* Terminates of AtopSar and ShowsAgain of RawLog: atopsar comes to the end of
\* a log, and rawread never keeps scanning.
ReadingEnds == Sar!Terminates /\ ShowsAgain
=============================================================================
