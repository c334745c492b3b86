------------------------------- MODULE Ledger -------------------------------
(***************************************************************************)
(* What the node promises about its canonical chain, whatever threads      *)
(* import into it: a ledger of valid blocks, each on top of the one        *)
(* before, which from one moment to the next either stays or gives way, as *)
(* a whole, to one that fork choice prefers.                               *)
(***************************************************************************)
EXTENDS Integers, Sequences

CONSTANTS
    Block, Genesis, Parent, HashRank, TotalWork,    \* as in BlockTree
    Valid                                           \* the blocks that validate

VARIABLE
    ledger      \* the canonical blocks, genesis first

Top(s) == s[Len(s)]

IsLedger(s) ==
    /\ s /= <<>> /\ s[1] = Genesis
    /\ \A i \in 2..Len(s) : s[i] \in Valid /\ Parent[s[i]] = s[i - 1]

(* More work; at equal work and equal length the lower hash.  Between two  *)
(* ledgers of equal work and different length there is no preference.      *)
Preferred(s, t) ==
    \/ TotalWork[Top(s)] > TotalWork[Top(t)]
    \/ /\ TotalWork[Top(s)] = TotalWork[Top(t)]
       /\ Len(s) = Len(t) => HashRank[Top(s)] < HashRank[Top(t)]

Init == ledger = <<Genesis>>

Advance == IsLedger(ledger') /\ Preferred(ledger', ledger)

Spec == Init /\ [][Advance]_ledger
=============================================================================
