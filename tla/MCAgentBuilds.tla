---------------------------- MODULE MCAgentBuilds ---------------------------
(***************************************************************************)
(* The master in its two builds: as it is shipped (onRun ends after the    *)
(* boot from a log) and with the loop of onRun compiled in.                *)
(***************************************************************************)
EXTENDS MCAgentMaster
VARIABLE build

Loop == INSTANCE AgentMaster WITH
  Names <- {a, c}, Type <- [n \in {a, c} |-> Type[n]], Delay <- [n \in {a, c} |-> Delay[n]],
  Configured <- {a, c} \X Versions, Logs <- NoLog,
  MaxTime <- 3, ForkCanFail <- FALSE, ServiceLoop <- TRUE

Shipped(A) == build = "shipped" /\ A /\ UNCHANGED build
InLoop(A) == build = "loop" /\ A /\ UNCHANGED build

InitBuilds == (build = "shipped" /\ Init) \/ (build = "loop" /\ Loop!Init)
NextBuilds == Shipped(Next) \/ InLoop(Loop!Next)

\* The fairness of AgentMaster, in each build.
FairBuilds ==
  /\ WF_<<vars, build>>(Shipped(pc \notin Ended /\ Master))
  /\ WF_<<vars, build>>(Shipped(pc \notin Ended /\ (Deliver \/ Reap)))
  /\ WF_<<vars, build>>(InLoop(pc \notin Ended /\ Loop!Master))
  /\ WF_<<vars, build>>(InLoop(pc \notin Ended /\ (Loop!Deliver \/ Loop!Reap)))
SpecBuilds == InitBuilds /\ [][NextBuilds]_<<vars, build>> /\ FairBuilds
=============================================================================
