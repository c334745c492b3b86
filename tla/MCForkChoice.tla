--------------------------- MODULE MCForkChoice ---------------------------
(***************************************************************************)
(* Small block trees for ForkChoice, all cut from this one:                *)
(*                                                                         *)
(*    g - t1 - a2 - a3                                                     *)
(*           \ b2 - b3 - b4                                                *)
(*                \ d3 - d4                                                *)
(*           \ c2                                                          *)
(*                                                                         *)
(* c2 weighs as much as a2 and a3 together and the other blocks weigh the  *)
(* same, so that heavier, equal and lighter branches of equal and of       *)
(* different length meet; b2 wins the tie against a2 and a3 the one        *)
(* against b3.  A run chooses the blocks that exist and the ones that do   *)
(* not validate.                                                           *)
(***************************************************************************)
EXTENDS ForkLedger

CONSTANTS g, t1, a2, a3, b2, b3, b4, c2, d3, d4

LongBranch == {g, t1, a2, a3, b2, b3, b4}
WithHeavy == {g, t1, a2, a3, b2, b3, c2}
TwoBranches == {g, t1, a2, a3, b2, b3}
NestedHeavy == {g, t1, a2, a3, b2, b3, c2, d3, d4}
OneLong == {g, t1, a2, b2, b3, b4}
Nested == {g, t1, a2, a3, b2, b3, d3, d4}

MCParent ==
    [b \in Block |->
        CASE b \in {a2, b2, c2} -> t1
          [] b = a3 -> a2
          [] b \in {b3, d3} -> b2
          [] b = b4 -> b3
          [] b = d4 -> d3
          [] OTHER  -> g]

MCNumber ==
    [b \in Block |->
        CASE b = g -> 0 [] b = t1 -> 1 [] b \in {a2, b2, c2} -> 2
          [] b \in {b4, d4} -> 4 [] OTHER -> 3]

MCWork == [b \in Block |-> IF b = c2 THEN 2 ELSE 1]

MCHashRank ==
    [b \in Block |->
        CASE b = g -> 0 [] b = b2 -> 1 [] b = t1 -> 2 [] b = a2 -> 3
          [] b = a3 -> 4 [] b = b3 -> 5 [] b = c2 -> 6 [] b = b4 -> 7
          [] b = d3 -> 8 [] b = d4 -> 9]

MCAncestor[b \in Block] ==
    [n \in 0..MCNumber[b] |->
        IF n = MCNumber[b] THEN b ELSE MCAncestor[MCParent[b]][n]]

MCTotalWork[b \in Block] ==
    IF b = g THEN 1 ELSE MCTotalWork[MCParent[b]] + MCWork[b]

NoBlocks == {}
OnlyB3 == {b3}
OnlyB4 == {b4}
OnlyD3 == {d3}
=============================================================================
