----------------------------- MODULE BlockTree -----------------------------
(***************************************************************************)
(* The block tree every chain component of the node talks about.           *)
(*                                                                         *)
(* A block is a model value.  What the code reads from a header is given   *)
(* by constant functions: the parent hash, the number, and the order of    *)
(* block hashes, which breaks ties between equally heavy tips.  A header   *)
(* hash commits to the parent hash, so a block determines all of its       *)
(* ancestors and therefore its cumulative work.  Ancestor and TotalWork    *)
(* state those two derived facts as functions, so that no operator needs   *)
(* to walk the chain.                                                      *)
(***************************************************************************)
EXTENDS Integers

CONSTANTS
    Block,      \* every block the environment can produce, genesis included
    Genesis,    \* the configured genesis block
    Parent,     \* Parent[b]: the block whose hash is b's header.parent_hash
    Number,     \* Number[b]: header.number
    Work,       \* Work[b]: work_for_target(header.difficulty_target)
    HashRank,   \* HashRank[b]: the position of b's hash in the hash order
    Ancestor,   \* Ancestor[b][n]: the ancestor of b at height n
    TotalWork   \* TotalWork[b]: the work of the chain that ends in b

(***************************************************************************)
(* The shape of the constants.  Header validation enforces the number      *)
(* clause; the last two clauses define Ancestor and TotalWork.             *)
(***************************************************************************)
ASSUME BlockTreeAssumption ==
    /\ Genesis \in Block
    /\ Parent \in [Block -> Block]
    /\ Number \in [Block -> Nat]
    /\ Number[Genesis] = 0
    /\ \A b \in Block : Number[b] = 0 => b = Genesis
    /\ \A b \in Block \ {Genesis} : Number[b] = Number[Parent[b]] + 1
    /\ Work \in [Block -> Nat \ {0}]
    /\ HashRank \in [Block -> Nat]
    /\ \A a, b \in Block : HashRank[a] = HashRank[b] => a = b
    /\ TotalWork \in [Block -> Nat]
    /\ \A b \in Block \ {Genesis} : TotalWork[b] = TotalWork[Parent[b]] + Work[b]
    /\ \A b \in Block :
          /\ Ancestor[b] \in [0..Number[b] -> Block]
          /\ Ancestor[b][0] = Genesis
          /\ Ancestor[b][Number[b]] = b
    /\ \A b \in Block \ {Genesis} :
          \A n \in 0..Number[b]-1 : Ancestor[b][n] = Ancestor[Parent[b]][n]
    /\ \A b \in Block : \A n \in 0..Number[b] : Number[Ancestor[b][n]] = n

\* a is b or one of its ancestors.
IsAncestor(a, b) == Number[a] <= Number[b] /\ Ancestor[b][Number[a]] = a

(***************************************************************************)
(* The order in which the replacement of a tip is decided when both tips   *)
(* are known: more work first, then the lower hash.                        *)
(***************************************************************************)
Outranks(a, b) ==
    \/ TotalWork[a] > TotalWork[b]
    \/ TotalWork[a] = TotalWork[b] /\ HashRank[a] < HashRank[b]
=============================================================================
