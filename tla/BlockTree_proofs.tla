-------------------------- MODULE BlockTree_proofs --------------------------
(***************************************************************************)
(* Facts about the block tree that the proofs of the chain components use. *)
(***************************************************************************)
EXTENDS BlockTree, WellFoundedInduction, TLAPS

\* Every nonempty set of naturals has a least element, because < is well-founded
\* on them.  It stands for induction on the height of a block, the length of
\* every loop that walks parent hashes.
LEMMA LeastNatural ==
    ASSUME NEW T \in SUBSET Nat, T /= {}
    PROVE  \E m \in T : \A k \in T : m <= k
<1>1. PICK m \in T : \A k \in T : <<k, m>> \notin OpToRel(<, Nat)
  BY NatLessThanWellFounded, WFMin, Zenon
<1>2. ASSUME NEW k \in T
      PROVE  m <= k
  <2>1. <<k, m>> \notin OpToRel(<, Nat)
    BY <1>1, Zenon
  <2>2. k \in Nat /\ m \in Nat /\ ~ (k < m)
    BY <2>1 DEF OpToRel
  <2> QED BY <2>2
<1> QED BY <1>2

\* The types of the fields of a header and of the totals derived from them.
LEMMA HeaderTypes ==
    /\ Genesis \in Block
    /\ \A b \in Block : /\ Parent[b] \in Block /\ Number[b] \in Nat
                         /\ Work[b] \in Nat \ {0} /\ HashRank[b] \in Nat
                         /\ TotalWork[b] \in Nat
BY BlockTreeAssumption

\* A block stands one above its parent, adds its own work to the parent's total
\* and has the parent's ancestors below itself.
LEMMA HeaderStep ==
    ASSUME NEW b \in Block, b /= Genesis
    PROVE  /\ Number[b] = Number[Parent[b]] + 1
           /\ TotalWork[b] = TotalWork[Parent[b]] + Work[b]
           /\ \A n \in 0..Number[b] - 1 : Ancestor[b][n] = Ancestor[Parent[b]][n]
<1>1. b \in Block \ {Genesis}
  OBVIOUS
<1> QED BY <1>1, BlockTreeAssumption, Zenon

\* A block is its own ancestor at its own height.
LEMMA OwnAncestor ==
    ASSUME NEW b \in Block
    PROVE  Ancestor[b][Number[b]] = b
BY BlockTreeAssumption, Zenon

\* Every height up to its own names an ancestor of a block.
LEMMA AncestorIsBlock ==
    ASSUME NEW b \in Block, NEW n \in 0..Number[b]
    PROVE  Ancestor[b][n] \in Block /\ Number[Ancestor[b][n]] = n
<1>1. Ancestor[b] \in [0..Number[b] -> Block]
  BY BlockTreeAssumption
<1>2. Number[Ancestor[b][n]] = n
  BY BlockTreeAssumption
<1> QED BY <1>1, <1>2, Zenon

(***************************************************************************)
(* Ancestry is transitive, and work grows along a chain: the parent walks  *)
(* of the fork choice meet the same blocks from wherever they start.  By   *)
(* induction on the height, as a block of least height that breaks it.     *)
(***************************************************************************)
LEMMA Ancestry ==
    \A b \in Block : \A n \in 0..Number[b] :
        /\ \A m \in 0..n : Ancestor[Ancestor[b][n]][m] = Ancestor[b][m]
        /\ n < Number[b] => TotalWork[Ancestor[b][n]] < TotalWork[b]
<1> DEFINE P(b) == \A n \in 0..Number[b] :
                      /\ \A m \in 0..n : Ancestor[Ancestor[b][n]][m] = Ancestor[b][m]
                      /\ n < Number[b] => TotalWork[Ancestor[b][n]] < TotalWork[b]
           T == {Number[b] : b \in {c \in Block : ~P(c)}}
<1>1. SUFFICES ASSUME NEW c \in Block, ~P(c)
               PROVE  FALSE
  OBVIOUS
<1>2. PICK b \in Block : ~P(b) /\ \A d \in Block : ~P(d) => Number[b] <= Number[d]
  <2> HIDE DEF P
  <2>1. T \in SUBSET Nat /\ Number[c] \in T
    BY <1>1, HeaderTypes
  <2>2. PICK m \in T : \A k \in T : m <= k
    <3> HIDE DEF T
    <3> QED BY <2>1, LeastNatural
  <2>3. PICK b \in Block : ~P(b) /\ Number[b] = m
    BY <2>2
  <2>4. ASSUME NEW d \in Block, ~P(d)
        PROVE  Number[b] <= Number[d]
    <3>1. Number[d] \in T
      BY <2>4
    <3> QED BY <2>2, <2>3, <3>1
  <2> QED BY <2>3, <2>4
<1>3. CASE b = Genesis
  <2>1. Number[b] = 0 /\ Ancestor[b][0] = b
    BY <1>3, BlockTreeAssumption
  <2> QED BY <1>2, <2>1
<1>4. CASE b /= Genesis
  <2> DEFINE p == Parent[b]
  <2>1. /\ p \in Block /\ Number[p] \in Nat /\ Number[b] = Number[p] + 1
        /\ TotalWork[p] \in Nat /\ TotalWork[b] \in Nat /\ TotalWork[p] < TotalWork[b]
        /\ Ancestor[b][Number[b]] = b /\ Ancestor[p][Number[p]] = p
    <3>1. p \in Block /\ Work[b] \in Nat \ {0} /\ TotalWork[p] \in Nat /\ Number[p] \in Nat
      BY HeaderTypes
    <3>2. TotalWork[b] = TotalWork[p] + Work[b] /\ Number[b] = Number[p] + 1
      BY <1>4, HeaderStep
    <3>3. Ancestor[b][Number[b]] = b /\ Ancestor[p][Number[p]] = p
      BY <3>1, OwnAncestor
    <3> QED BY <3>1, <3>2, <3>3
  <2>2. \A n \in 0..Number[p] : Ancestor[b][n] = Ancestor[p][n]
    BY <1>4, <2>1, BlockTreeAssumption
  <2>3. P(p)
    <3> HIDE DEF P
    <3> QED BY <1>2, <2>1
  <2>4. ASSUME NEW n \in 0..Number[b]
        PROVE  /\ \A m \in 0..n : Ancestor[Ancestor[b][n]][m] = Ancestor[b][m]
               /\ n < Number[b] => TotalWork[Ancestor[b][n]] < TotalWork[b]
    <3>1. CASE n = Number[b]
      BY <2>1, <3>1
    <3>2. CASE n /= Number[b]
      <4>1. n \in 0..Number[p] /\ Ancestor[b][n] = Ancestor[p][n]
        BY <2>1, <2>2, <3>2
      <4>2. \A m \in 0..n : Ancestor[b][m] = Ancestor[p][m]
        BY <2>1, <2>2, <4>1
      <4>3. \A m \in 0..n : Ancestor[Ancestor[p][n]][m] = Ancestor[p][m]
        BY <2>3, <4>1
      <4>4. TotalWork[Ancestor[p][n]] < TotalWork[b]
        <5>1. Ancestor[p][n] \in Block
          BY <2>1, <4>1, AncestorIsBlock
        <5>2. TotalWork[Ancestor[p][n]] \in Nat
          BY <5>1, BlockTreeAssumption, Zenon
        <5>3. n < Number[p] => TotalWork[Ancestor[p][n]] < TotalWork[p]
          BY <2>3, <4>1
        <5> QED BY <2>1, <4>1, <5>2, <5>3
      <4> QED BY <4>1, <4>2, <4>3, <4>4
    <3> QED BY <3>1, <3>2
  <2> QED BY <1>2, <2>4
<1> QED BY <1>3, <1>4

\* Every block is its own ancestor.
LEMMA SelfAncestor ==
    ASSUME NEW b \in Block
    PROVE  IsAncestor(b, b)
BY BlockTreeAssumption DEF IsAncestor

\* A parent is a proper ancestor.
LEMMA ParentAncestor ==
    ASSUME NEW b \in Block, b /= Genesis
    PROVE  IsAncestor(Parent[b], b) /\ Parent[b] /= b
<1>1. /\ Parent[b] \in Block /\ Number[b] \in Nat /\ Number[Parent[b]] \in Nat
      /\ Number[b] = Number[Parent[b]] + 1
      /\ Ancestor[Parent[b]][Number[Parent[b]]] = Parent[b]
  BY BlockTreeAssumption
<1>2. \A n \in 0..Number[b]-1 : Ancestor[b][n] = Ancestor[Parent[b]][n]
  BY BlockTreeAssumption
<1> QED BY <1>1, <1>2 DEF IsAncestor

\* Genesis is an ancestor of every block.
LEMMA GenesisAncestor ==
    ASSUME NEW b \in Block
    PROVE  Genesis \in Block /\ IsAncestor(Genesis, b)
BY BlockTreeAssumption DEF IsAncestor

(***************************************************************************)
(* The next block on the way from t to b is again on that way, and each    *)
(* ancestor of t is a proper ancestor of it.                               *)
(***************************************************************************)
LEMMA NextOnPath ==
    ASSUME NEW t \in Block, NEW b \in Block, IsAncestor(t, b), t /= b
    PROVE  LET n == Ancestor[b][Number[t] + 1]
           IN  /\ n \in Block
               /\ IsAncestor(n, b)
               /\ \A a \in Block : IsAncestor(a, t) => a /= n /\ IsAncestor(a, n)
<1> DEFINE n == Ancestor[b][Number[t] + 1]
<1>1. Number[t] \in Nat /\ Number[b] \in Nat /\ Number[t] <= Number[b]
  BY BlockTreeAssumption DEF IsAncestor
<1>2. Number[t] /= Number[b]
  BY BlockTreeAssumption, Zenon DEF IsAncestor
<1>3. Number[t] + 1 \in 0..Number[b]
  BY <1>1, <1>2
<1>4. n \in Block /\ Number[n] = Number[t] + 1
  BY <1>3, AncestorIsBlock
<1>5. \A m \in 0..Number[t] + 1 : Ancestor[n][m] = Ancestor[b][m]
  BY <1>3, Ancestry
<1>6. \A m \in 0..Number[t] : Ancestor[t][m] = Ancestor[b][m]
  <2>1. Number[t] \in 0..Number[b] /\ Ancestor[b][Number[t]] = t
    BY <1>1 DEF IsAncestor
  <2> QED BY <2>1, Ancestry
<1>7. ASSUME NEW a \in Block, IsAncestor(a, t)
      PROVE  a /= n /\ IsAncestor(a, n)
  <2>1. Number[a] \in 0..Number[t] /\ Number[a] \in 0..Number[t] + 1
    <3>1. Number[a] \in Nat
      BY BlockTreeAssumption
    <3> QED BY <1>1, <1>7, <3>1 DEF IsAncestor
  <2>2. Ancestor[n][Number[a]] = a
    BY <1>5, <1>6, <1>7, <2>1 DEF IsAncestor
  <2> QED BY <1>1, <1>4, <2>1, <2>2 DEF IsAncestor
<1>8. IsAncestor(n, b)
  BY <1>3, <1>4 DEF IsAncestor
<1> QED BY <1>4, <1>7, <1>8

\* Ancestry is a partial order.
LEMMA AncestorOrder ==
    ASSUME NEW a \in Block, NEW b \in Block
    PROVE  /\ IsAncestor(a, b) /\ IsAncestor(b, a) => a = b
           /\ \A c \in Block : IsAncestor(a, b) /\ IsAncestor(b, c) => IsAncestor(a, c)
<1>1. Number[a] \in Nat /\ Number[b] \in Nat /\ Ancestor[b][Number[b]] = b
  BY BlockTreeAssumption
<1>2. ASSUME IsAncestor(a, b), IsAncestor(b, a)
      PROVE  a = b
  BY <1>1, <1>2 DEF IsAncestor
<1>3. ASSUME NEW c \in Block, IsAncestor(a, b), IsAncestor(b, c)
      PROVE  IsAncestor(a, c)
  <2>1. Number[c] \in Nat /\ Number[b] \in 0..Number[c] /\ Number[a] \in 0..Number[b]
    BY <1>1, <1>3, BlockTreeAssumption DEF IsAncestor
  <2>2. Ancestor[Ancestor[c][Number[b]]][Number[a]] = Ancestor[c][Number[a]]
    BY <2>1, Ancestry
  <2> QED BY <1>1, <1>3, <2>1, <2>2 DEF IsAncestor
<1> QED BY <1>2, <1>3

\* The order of tips is strict, and a descendant comes before its ancestors.
LEMMA OutranksOrder ==
    ASSUME NEW a \in Block, NEW b \in Block
    PROVE  /\ ~ (Outranks(a, b) /\ Outranks(b, a)) /\ ~ Outranks(a, a)
           /\ \A c \in Block : Outranks(a, b) /\ Outranks(b, c) => Outranks(a, c)
           /\ IsAncestor(a, b) /\ a /= b => Outranks(b, a)
<1>1. \A c \in Block : TotalWork[c] \in Nat /\ HashRank[c] \in Nat /\ Number[c] \in Nat
  BY BlockTreeAssumption
<1>2. ASSUME IsAncestor(a, b), a /= b
      PROVE  Outranks(b, a)
  <2>1. Number[a] \in 0..Number[b] /\ Ancestor[b][Number[a]] = a
    BY <1>1, <1>2 DEF IsAncestor
  <2>2. Number[a] < Number[b]
    BY <1>1, <1>2, <2>1, OwnAncestor
  <2>3. TotalWork[a] < TotalWork[b]
    BY <2>1, <2>2, Ancestry
  <2> QED BY <1>1, <2>3 DEF Outranks
<1>3. ~ (Outranks(a, b) /\ Outranks(b, a)) /\ ~ Outranks(a, a)
  BY <1>1 DEF Outranks
<1>4. \A c \in Block : Outranks(a, b) /\ Outranks(b, c) => Outranks(a, c)
  BY <1>1 DEF Outranks
<1> QED BY <1>2, <1>3, <1>4
=============================================================================
