---------------------------- MODULE MCAgentMaster ----------------------------
EXTENDS AgentMaster, TLC
CONSTANTS a, b, c, p1, p2

MCType == [n \in Names |-> CASE n = a -> 2 [] n = b -> 0 [] OTHER -> 1]
MCDelay == [n \in Names |-> 1]
AllConfigured == Names \X Versions
NothingOffered == {}
AllOffered == Names \X Versions
OnlyAOffered == {a} \X Versions
BUnconfigured == Libs \ {<<b, 1>>}
SomeLogs == {<< >>, <<[pid |-> p1, name |-> a, ver |-> 1]>>,
             <<[pid |-> p1, name |-> a, ver |-> 1], [pid |-> p2, name |-> b, ver |-> 1]>>}
NoLog == {<< >>}
PidSymmetry == Permutations(Pids)
=============================================================================
