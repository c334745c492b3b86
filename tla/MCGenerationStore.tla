------------------------- MODULE MCGenerationStore -------------------------
(***************************************************************************)
(* GenerationStore on a tree with a fork at genesis and one at height 1:   *)
(*                                                                         *)
(*      g -- a1 -- a2 -- a3                                                *)
(*       \     \-- c2                                                      *)
(*        \- b1 -- b2 -- b3                                                *)
(***************************************************************************)
EXTENDS GenerationStore

CONSTANTS g, a1, a2, a3, b1, b2, b3, c2

MCBlock == {g, a1, a2, a3, b1, b2, b3, c2}

MCParent ==
    [b \in MCBlock |->
        CASE b = a2 -> a1
          [] b = c2 -> a1
          [] b = a3 -> a2
          [] b = b2 -> b1
          [] b = b3 -> b2
          [] OTHER  -> g]

MCNumber ==
    [b \in MCBlock |->
        CASE b = g              -> 0
          [] b \in {a1, b1}     -> 1
          [] b \in {a2, b2, c2} -> 2
          [] OTHER              -> 3]

MCWork == [b \in MCBlock |-> IF b = c2 THEN 2 ELSE 1]

MCHashRank ==
    [b \in MCBlock |->
        CASE b = g -> 0 [] b = b1 -> 1 [] b = a1 -> 2 [] b = a2 -> 3
          [] b = b2 -> 4 [] b = c2 -> 5 [] b = b3 -> 6 [] b = a3 -> 7]

Up(b, n) == IF n = 0 THEN b ELSE IF n = 1 THEN MCParent[b]
            ELSE IF n = 2 THEN MCParent[MCParent[b]] ELSE g

MCAncestor == [b \in MCBlock |-> [n \in 0..MCNumber[b] |-> Up(b, MCNumber[b] - n)]]

MCTotalWork ==
    [b \in MCBlock |->
        CASE b = g        -> 1
          [] b \in {a1, b1} -> 2
          [] b \in {a2, b2} -> 3
          [] OTHER          -> 4]
=============================================================================
