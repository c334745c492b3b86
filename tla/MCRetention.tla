---------------------------- MODULE MCRetention ----------------------------
(***************************************************************************)
(* Retention on a chain with one fork:                                     *)
(*                                                                         *)
(*      g -- a1 -- a2 -- a3 -- a4 -- a5 -- a6                              *)
(*             \- b2 -- b3                                                 *)
(***************************************************************************)
EXTENDS Retention

CONSTANTS g, a1, a2, a3, a4, a5, a6, b2, b3, MaxHeight

As == <<a1, a2, a3, a4, a5, a6>>
Bs == <<a1, b2, b3>>

MCBlock == {g, b2, b3} \cup {As[n] : n \in 1..MaxHeight}

OnA(b) == \E n \in 1..6 : As[n] = b

Height(b) ==
    IF b = g THEN 0
    ELSE IF OnA(b) THEN CHOOSE n \in 1..6 : As[n] = b ELSE CHOOSE n \in 2..3 : Bs[n] = b

MCNumber == [b \in MCBlock |-> Height(b)]

MCAncestor ==
    [b \in MCBlock |->
        [n \in 0..Height(b) |-> IF n = 0 THEN g ELSE IF OnA(b) THEN As[n] ELSE Bs[n]]]

MCParent == [b \in MCBlock |-> IF b = g THEN g ELSE MCAncestor[b][Height(b) - 1]]
MCWork == [b \in MCBlock |-> 1]
MCTotalWork == [b \in MCBlock |-> Height(b) + 1]

\* Of two tips of one height, the b branch has the lower hash.
MCHashRank == [b \in MCBlock |-> 2 * Height(b) + (IF b /= g /\ OnA(b) THEN 1 ELSE 0)]

\* The root of a node that never served it.
EmptyRoot == [tip |-> None, manifest |-> FALSE]

Only(d) == [i \in Id |-> IF i = 1 THEN d ELSE None]

\* A generation published by an earlier release, with a snapshot of its tip.
Snapshotted == [active |-> 1, root |-> EmptyRoot, gens |-> Only(Complete(a1))]

\* One that has grown past its snapshot, and a lighter one that a stale
\* publication record got quarantined.
Quarantined ==
    [active |-> 2, root |-> EmptyRoot,
     gens |-> [i \in Id |->
                 CASE i = 1 -> [Complete(a1) EXCEPT !.status = "Failed"]
                   [] i = 2 -> [Complete(a2) EXCEPT !.snaps = {a1}]
                   [] OTHER -> None]]

\* A node that is started for the first time, and one without any full snapshot.
Fresh == [active |-> None, root |-> EmptyRoot, gens |-> Only(None)]
Bare == [active |-> 1, root |-> EmptyRoot, gens |-> Only([Complete(g) EXCEPT !.snaps = {}])]

Grown == {Snapshotted, Quarantined, Bare}
OnRoot == {Fresh}
NoSnapshot == {Bare}
NoHeights == {}
One == {1}
=============================================================================
