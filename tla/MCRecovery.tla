---------------------------- MODULE MCRecovery ----------------------------
EXTENDS Recovery

CONSTANTS g, a1, a2, a3, b1, b2, b3, c2, p1, p2

MCParent ==
    [b \in Block |->
        CASE b = a2 -> a1 [] b = a3 -> a2 [] b \in {b2, c2} -> b1 [] b = b3 -> b2
          [] OTHER -> g]
MCNumber ==
    [b \in Block |->
        CASE b = g -> 0 [] b \in {a1, b1} -> 1 [] b \in {a2, b2, c2} -> 2
          [] b \in {a3, b3} -> 3]
MCWork == [b \in Block |-> IF b \in {a2, b3} THEN 2 ELSE 1]
MCHashRank ==
    [b \in Block |->
        CASE b = g -> 0 [] b = a1 -> 1 [] b = a2 -> 2 [] b = b1 -> 3
          [] b = b2 -> 4 [] b = b3 -> 5 [] b = a3 -> 6 [] b = c2 -> 7]
MCAncestor[b \in Block] ==
    [n \in 0..MCNumber[b] |->
        IF n = MCNumber[b] THEN b ELSE MCAncestor[MCParent[b]][n]]
MCTotalWork[b \in Block] ==
    IF b = g THEN 1 ELSE MCTotalWork[MCParent[b]] + MCWork[b]

Branches == {g, a1, a2, a3, b1, b2, b3}
Siblings == {g, a1, b1, b2, c2}
Peers2 == {p1, p2}
\* The tips of p1 and p2.  In the first world p2 joins p1 on the heavier branch;
\* in the second p1 moves on while its branch is fetched, in the third it is
\* ahead on the local branch.
Tips(t1, t2) == [p \in Peer |-> IF p = p1 THEN t1 ELSE t2]
Worlds == {Tips(<<b3>>, <<a1, b3>>), Tips(<<b2, b3>>, <<a1>>),
           Tips(<<a2>>, <<a1>>)}
\* The peers are on two branches, the longer of which starts at the local tip.
TwoBranches == {Tips(<<b2>>, <<a3>>)}
TwoTips == {Tips(<<b2>>, <<c2>>)}
TwoProviders == {Tips(<<b3>>, <<b3>>)}
OneProvider == {Tips(<<b3>>, <<a1>>)}
NoCandidates == [p \in Peer |-> {}]
OurTipIsCandidate == [p \in Peer |-> {a1}]
OnlyA2 == {a2}
NoGossip == {}
=============================================================================
