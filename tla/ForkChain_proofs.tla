-------------------------- MODULE ForkChain_proofs --------------------------
(***************************************************************************)
(* What a step of fork choice does to the canonical chain, to the candidate *)
(* pool and to the threads, for every block tree and every limit.  The     *)
(* inductive invariant is stated here; ForkChoice_proofs shows it is one.  *)
(***************************************************************************)
EXTENDS ForkChoice, BlockTree_proofs

\* Zenon proves the steps that name no other prover.
USE Zenon

\* The types of the database's canonical part.
ChainTyped == best \in Nat /\ canon \in [0..best -> Block] /\ accounts \in Block

\* The canonical part of the database is well formed.
ChainOK == ChainTyped /\ CanonicalIsOneSoundChain

PoolsTyped ==
    /\ orphans \subseteq Block
    /\ DOMAIN candWork \subseteq Block
    /\ \A c \in DOMAIN candWork : candWork[c] \in Nat
    /\ quarantined \subseteq Block
    /\ \A n \in DOMAIN snapshot : snapshot[n] \in [block : Block, state : Block]

ThreadsTyped ==
    /\ storage \in {Free, "p2p", "rpc"}
    /\ replay \in Actor \cup {Free}
    /\ maintain \in BOOLEAN
    /\ pc \in [Actor -> Labels]
    /\ block \in [Actor -> Block]
    /\ fork \in [Actor -> Nat]
    /\ seen \in [Actor -> Block]
    /\ applied \in [Actor -> Block]
    /\ todo \subseteq Block
    /\ progressed \in BOOLEAN
    /\ passes \in 0..DrainPasses
    /\ resume \in {"idle", "kick", "maintain", "stage"}

(***************************************************************************)
(* What a thread knows while it replays and publishes without the storage  *)
(* mutex: its branch leaves the chain of the tip it saw at the common      *)
(* ancestor, and once replayed the suffix is valid.                        *)
(***************************************************************************)
JobOK(a) ==
    /\ pc[a] \in {"replay", "publish"} =>
        /\ fork[a] <= Number[seen[a]]
        /\ Ancestor[seen[a]][fork[a]] = Ancestor[block[a]][fork[a]]
    /\ pc[a] = "publish" =>
        /\ Number[block[a]] > fork[a]
        /\ SoundAbove(block[a], fork[a])

\* No importer is handed the genesis block, so it never waits for a parent.
GenesisNeverWaits == Genesis \notin orphans /\ Genesis \notin todo

\* The inductive invariant.
IInv ==
    /\ TypeOK
    /\ CanonicalIsOneSoundChain
    /\ CandidateWorkIsExact
    /\ GenesisNeverWaits
    /\ \A a \in Actor : JobOK(a)

\* The type invariant, in the three parts that the proofs use.
LEMMA TypeParts == TypeOK <=> ChainTyped /\ PoolsTyped /\ ThreadsTyped
BY DEF TypeOK, ChainTyped, PoolsTyped, ThreadsTyped

-----------------------------------------------------------------------------
(* Moves of the canonical chain.                                           *)

\* The chain now ends in b, which leaves the old chain at height n.
Moves(b, n) ==
    /\ n \in 0..best /\ n <= Number[b]
    /\ canon[n] = Ancestor[b][n]
    /\ SoundAbove(b, n)
    /\ best' = Number[b]
    /\ canon' = Switched(b, n)
    /\ accounts' \in Block

\* b may take the place of the tip.
Prevails(b) ==
    \/ b = Tip
    \/ TotalWork[b] > TotalWork[Tip]
    \/ /\ TotalWork[b] = TotalWork[Tip]
       /\ Number[b] = Number[Tip] => HashRank[b] < HashRank[Tip]

\* The facts about heights and work that the steps need.
LEMMA TreeTypes ==
    ASSUME NEW b \in Block
    PROVE  /\ Number[b] \in Nat /\ TotalWork[b] \in Nat /\ HashRank[b] \in Nat
           /\ Parent[b] \in Block /\ Work[b] \in Nat
           /\ Ancestor[b][Number[b]] = b
           /\ b /= Genesis => /\ Number[b] = Number[Parent[b]] + 1
                              /\ TotalWork[b] = TotalWork[Parent[b]] + Work[b]
                              /\ Work[b] > 0
BY HeaderTypes, HeaderStep, OwnAncestor, SMTT(30)

\* An ancestor below a block has less work and the same ancestors.
LEMMA AncestorFacts ==
    ASSUME NEW b \in Block, NEW n \in 0..Number[b]
    PROVE  /\ Ancestor[b][n] \in Block /\ Number[Ancestor[b][n]] = n
           /\ \A m \in 0..n : Ancestor[Ancestor[b][n]][m] = Ancestor[b][m]
           /\ n < Number[b] => TotalWork[Ancestor[b][n]] < TotalWork[b]
BY AncestorIsBlock, Ancestry

\* The tip of a well-formed chain.
LEMMA TipFacts ==
    ASSUME ChainOK
    PROVE  /\ Tip \in Block /\ Number[Tip] = best
           /\ \A n \in 0..best : canon[n] = Ancestor[Tip][n] /\ canon[n] \in Block
                                 /\ Number[canon[n]] = n /\ Sound(canon[n])
<1>1. Tip \in Block /\ Number[Tip] = best
  BY SMTT(30) DEF ChainOK, ChainTyped, CanonicalIsOneSoundChain, Tip
<1> QED BY <1>1, AncestorFacts, SMTT(30) DEF ChainOK, ChainTyped, CanonicalIsOneSoundChain

\* Switching to a valid suffix that starts on the chain keeps it well formed.
LEMMA MovesKeepsChain ==
    ASSUME ChainOK, NEW b \in Block, NEW n, Moves(b, n)
    PROVE  ChainOK' /\ Tip' = b
<1>1. Number[b] \in Nat /\ Ancestor[b][Number[b]] = b /\ n \in Nat
  BY TreeTypes, SMTT(30) DEF Moves, ChainOK, ChainTyped
<1>2. \A m \in 0..n : canon[m] = Ancestor[b][m]
  <2> SUFFICES ASSUME NEW m \in 0..n PROVE canon[m] = Ancestor[b][m]
    OBVIOUS
  <2>1. n \in 0..Number[b] /\ n \in 0..best /\ m \in 0..best
    BY <1>1, SMTT(30) DEF Moves, ChainOK, ChainTyped
  <2>2. Ancestor[Ancestor[b][n]][m] = Ancestor[b][m]
    BY <2>1, AncestorFacts
  <2>3. canon[n] = Ancestor[Tip][n] /\ canon[m] = Ancestor[Tip][m] /\ Tip \in Block /\ Number[Tip] = best
    BY <2>1, TipFacts
  <2>4. Ancestor[Ancestor[Tip][n]][m] = Ancestor[Tip][m]
    BY <2>1, <2>3, AncestorFacts
  <2> QED BY <2>2, <2>3, <2>4 DEF Moves
<1>3. \A m \in 0..Number[b] : canon'[m] = Ancestor[b][m]
  BY <1>1, <1>2, SMTT(30) DEF Moves, Switched
<1>4. \A m \in 0..Number[b] : Ancestor[b][m] \in Block /\ Sound(Ancestor[b][m])
  <2> SUFFICES ASSUME NEW m \in 0..Number[b]
               PROVE  Ancestor[b][m] \in Block /\ Sound(Ancestor[b][m])
    OBVIOUS
  <2>1. Ancestor[b][m] \in Block
    BY AncestorFacts
  <2>2. CASE m <= n
    <3>1. m \in 0..n /\ m \in 0..best
      BY <2>2, <1>1, SMTT(30) DEF Moves, ChainOK, ChainTyped
    <3> QED BY <3>1, <2>1, <1>2, TipFacts
  <2>3. CASE ~ (m <= n)
    <3>1. m \in n+1..Number[b]
      BY <2>3, <1>1, SMTT(30)
    <3> QED BY <3>1, <2>1 DEF Moves, SoundAbove
  <2> QED BY <2>2, <2>3
<1>5. Tip' = b /\ best' = Number[b]
  BY <1>1, <1>3, SMTT(30) DEF Moves, Tip
<1>6. canon' \in [0..Number[b] -> Block]
  BY <1>3, <1>4 DEF Moves, Switched
<1>7. ChainTyped'
  BY <1>1, <1>5, <1>6 DEF ChainTyped, Moves
<1>8. CanonicalIsOneSoundChain'
  <2>1. \A m \in 0..best' : canon'[m] = Ancestor[Tip'][m] /\ Sound(canon'[m])
    BY <1>3, <1>4, <1>5
  <2> QED BY <1>5, <2>1 DEF CanonicalIsOneSoundChain, Sound
<1> QED BY <1>5, <1>7, <1>8 DEF ChainOK

\* insert_block of a valid child of the tip.
LEMMA InsertMoves ==
    ASSUME ChainOK, NEW b \in Block, ExtendsTip(b), Sound(b), Insert(b)
    PROVE  Moves(b, best) /\ Prevails(b) /\ best \in 0..best /\ accounts' = b
<1>1. Tip \in Block /\ Number[Tip] = best /\ best \in Nat
  BY TipFacts DEF ChainOK, ChainTyped
<1>2. /\ Number[b] = best + 1 /\ TotalWork[b] > TotalWork[Tip]
      /\ Ancestor[b][Number[b]] = b
  BY <1>1, TreeTypes, SMTT(30) DEF ExtendsTip
<1>3. Ancestor[b][best] = Tip
  BY <1>1, ParentAncestor DEF ExtendsTip, IsAncestor
<1>4. SoundAbove(b, best)
  BY <1>1, <1>2, SMTT(30) DEF SoundAbove
<1>5. canon[best] = Tip
  BY DEF Tip
<1> QED BY <1>1, <1>2, <1>3, <1>4, <1>5, SMTT(30) DEF Insert, Moves, Prevails

\* A valid stretch of the chain of t on top of the tip, up to height k.
LEMMA StretchMoves ==
    ASSUME ChainOK, NEW t \in Block, NEW n \in Nat, NEW k \in n..Number[t],
           Tip = Ancestor[t][n],
           \A m \in n+1..k : Sound(Ancestor[t][m]),
           best' = k, canon' = Switched(Ancestor[t][k], n), accounts' \in Block
    PROVE  /\ Ancestor[t][k] \in Block /\ n = best /\ n \in 0..best
           /\ Moves(Ancestor[t][k], n) /\ Prevails(Ancestor[t][k])
<1> DEFINE b == Ancestor[t][k]
<1>1. Number[t] \in Nat /\ n \in 0..Number[t] /\ k \in 0..Number[t]
  BY TreeTypes, SMTT(30)
<1>2. b \in Block /\ Number[b] = k /\ \A m \in 0..k : Ancestor[b][m] = Ancestor[t][m]
  BY <1>1, AncestorFacts
<1>3. n = best /\ best \in Nat
  BY <1>1, AncestorFacts, TipFacts DEF ChainOK, ChainTyped
<1>4. Ancestor[b][n] = Tip /\ canon[n] = Tip
  BY <1>1, <1>2, <1>3, SMTT(30) DEF Tip
<1>5. SoundAbove(b, n)
  BY <1>1, <1>2, SMTT(30) DEF SoundAbove
<1>6. Prevails(b)
  <2>1. CASE n = k
    BY <2>1 DEF Prevails
  <2>2. CASE n < k
    BY <2>2, <1>1, <1>2, <1>4, AncestorFacts, TreeTypes, SMTT(30) DEF Prevails
  <2> QED BY <2>1, <2>2, SMTT(30)
<1> QED BY <1>1, <1>2, <1>3, <1>4, <1>5, <1>6, SMTT(30) DEF Moves

\* The work that the queue computes for a block with a known parent is exact.
LEMMA QueuedWorkExact ==
    ASSUME ChainOK, PoolsTyped, CandidateWorkIsExact,
           NEW b \in Block, b /= Genesis, Known(Parent[b])
    PROVE  QueuedWork(b) = TotalWork[b]
<1>1. TotalWork[b] = TotalWork[Parent[b]] + Work[b] /\ Work[b] \in Nat
      /\ TotalWork[Parent[b]] \in Nat /\ Parent[b] \in Block
  BY TreeTypes
<1>2. CASE Parent[b] \in DOMAIN candWork
  BY <1>1, <1>2, SMTT(30) DEF QueuedWork, CandidateWorkIsExact
<1>3. CASE Parent[b] \notin DOMAIN candWork
  BY <1>1, <1>3, SMTT(30) DEF QueuedWork, Known, OnChain
<1> QED BY <1>2, <1>3

(***************************************************************************)
(* Every step of every thread leaves the chain alone or moves it to a      *)
(* valid branch that prevails over the tip.  The accounts move with it,    *)
(* unless a direct commit stops half-way.                                  *)
(***************************************************************************)
StopsHalfWay == \E a \in Actor : StageDirectFails(a)

\* Every step leaves the canonical chain alone, or moves it to a block that
\* prevails, with the accounts of that block unless staging stopped half-way.
LEMMA ChainMoves ==
    ASSUME IInv, [Next]_vars
    PROVE  \/ UNCHANGED chain
           \/ \E b \in Block : \E n \in 0..best :
                 Moves(b, n) /\ Prevails(b) /\ (accounts' = b \/ StopsHalfWay)
<1> DEFINE Goal == \/ UNCHANGED chain
                   \/ \E b \in Block : \E n \in 0..best :
                         Moves(b, n) /\ Prevails(b) /\ (accounts' = b \/ StopsHalfWay)
<1>0. /\ ChainOK /\ PoolsTyped /\ ThreadsTyped /\ CandidateWorkIsExact
      /\ GenesisNeverWaits
      /\ \A a \in Actor : JobOK(a) /\ block[a] \in Block /\ fork[a] \in Nat /\ seen[a] \in Block
      /\ accounts \in Block /\ best \in Nat
  BY TypeParts DEF IInv, ChainOK, ChainTyped, ThreadsTyped
<1>1. CASE UNCHANGED vars
  BY <1>1 DEF vars, chain
<1>2. CASE Arrival
  <2>1. ASSUME NEW b \in Block, RpcExtends(b) PROVE Goal
    <3>1. ExtendsTip(b) /\ Sound(b) /\ Insert(b)
      BY <2>1 DEF RpcExtends, Validates
    <3> QED BY <1>0, <3>1, InsertMoves
  <2>2. ASSUME NEW b \in Block, P2pFuture(b) \/ P2pExtends(b) PROVE Goal
    BY <2>2 DEF P2pFuture, P2pExtends, chain
  <2>3. ASSUME NEW b \in Block, NEW a \in {"p2p", "rpc"}, ImportStep(a, b) PROVE Goal
    BY <2>3 DEF ImportStep, QueueOrphan, QueueLosing, QueueBranch, QueueIncomplete,
                Queues, chain
  <2> QED BY <1>2, <2>1, <2>2, <2>3 DEF Arrival
<1>3. CASE P2pSecond
  <2>1. CASE P2pInsert
    <3>1. ExtendsTip(block["p2p"]) /\ Sound(block["p2p"]) /\ Insert(block["p2p"])
      BY <2>1 DEF P2pInsert, Validates
    <3>2. block["p2p"] \in Block
      BY <1>0 DEF Actor
    <3> QED BY <1>0, <3>1, <3>2, InsertMoves
  <2>2. CASE P2pNotNext \/ P2pInvalid \/ P2pMaintain \/ P2pKick
    BY <2>2 DEF P2pNotNext, P2pInvalid, P2pMaintain, P2pKick, chain
  <2> QED BY <1>3, <2>1, <2>2 DEF P2pSecond
<1>4. ASSUME NEW a \in {"p2p", "rpc"}, DrainStep(a) PROVE Goal
  <2>1. ASSUME NEW b \in todo, DrainInsert(a, b) PROVE Goal
    <3>1. b \in Block /\ ExtendsTip(b) /\ Sound(b) /\ Insert(b)
      BY <1>0, <2>1 DEF DrainInsert, Validates, ThreadsTyped
    <3> QED BY <1>0, <3>1, InsertMoves
  <2>2. ASSUME NEW b \in todo, DrainPromote(a, b) PROVE Goal
    <3>0. b \in Block
      BY <1>0 DEF ThreadsTyped
    <3>1. PICK n \in 0..best : ForksAt(b, n) /\ SoundAbove(b, n) /\ Replace(b, n)
      BY <2>2 DEF DrainPromote
    <3>2. Moves(b, n)
      BY <3>0, <3>1 DEF Moves, ForksAt, Replace
    <3>3. b /= Genesis
      BY <1>0 DEF GenesisNeverWaits
    <3>5. accounts' = b
      BY <3>1 DEF Replace
    <3>4. Prevails(b)
      BY <1>0, <3>0, <3>3, <2>2, QueuedWorkExact, TipFacts, TreeTypes, SMTT(30)
         DEF DrainPromote, DrainQueues, NotCompetitive, Prevails
    <3> QED BY <3>0, <3>2, <3>4, <3>5
  <2>3. ASSUME NEW b \in todo, \/ DrainInvalid(a, b) \/ DrainSkip(a, b)
                               \/ DrainLosing(a, b) \/ DrainPromoteFails(a, b)
        PROVE  Goal
    BY <2>3 DEF DrainInvalid, DrainSkip, DrainLosing, DrainPromoteFails, chain
  <2>4. CASE DrainNextPass(a) \/ DrainDone(a)
    BY <2>4 DEF DrainNextPass, DrainDone, chain
  <2> QED BY <1>4, <2>1, <2>2, <2>3, <2>4 DEF DrainStep
<1>5. ASSUME NEW a \in Actor, StageStep(a) PROVE Goal
  <2> DEFINE b == block[a]
  <2>0. b \in Block /\ fork[a] \in Nat /\ Number[b] \in Nat /\ Ancestor[b][Number[b]] = b
    BY <1>0, TreeTypes
  <2>1. CASE StageCommitsDirectly(a)
    <3>1. /\ Tip = Ancestor[b][fork[a]] /\ Number[b] \in fork[a]..Number[b]
          /\ \A m \in fork[a]+1..Number[b] : Sound(Ancestor[b][m])
          /\ best' = Number[b] /\ canon' = Switched(b, fork[a]) /\ accounts' \in Block
      BY <2>0, <2>1, SMTT(30) DEF StageCommitsDirectly, StartsAtTip, SoundAbove, Replace
    <3>3. accounts' = Ancestor[b][Number[b]]
      BY <2>0, <2>1 DEF StageCommitsDirectly, Replace
    <3> HIDE DEF b
    <3>2. /\ Ancestor[b][Number[b]] \in Block /\ fork[a] \in 0..best
          /\ Moves(Ancestor[b][Number[b]], fork[a]) /\ Prevails(Ancestor[b][Number[b]])
      BY <1>0, <2>0, <3>1, StretchMoves
    <3> QED BY <3>2, <3>3
  <2>2. CASE StageDirectFails(a)
    <3>1. PICK k \in fork[a]+1..Number[b] :
             /\ \A m \in fork[a]+1..k-1 : Sound(Ancestor[b][m])
             /\ best' = k - 1
             /\ canon' = Switched(Ancestor[b][k-1], fork[a])
      BY <2>2 DEF StageDirectFails
    <3>2. /\ Tip = Ancestor[b][fork[a]] /\ k - 1 \in fork[a]..Number[b] /\ accounts' \in Block
      BY <1>0, <2>0, <2>2, SMTT(30) DEF StageDirectFails, StartsAtTip
    <3> HIDE DEF b
    <3>3. /\ Ancestor[b][k-1] \in Block /\ fork[a] \in 0..best
          /\ Moves(Ancestor[b][k-1], fork[a]) /\ Prevails(Ancestor[b][k-1])
      BY <1>0, <2>0, <3>1, <3>2, StretchMoves
    <3>4. StopsHalfWay
      BY <2>2 DEF StopsHalfWay
    <3> QED BY <3>3, <3>4
  <2>3. CASE StagePublish(a)
    <3>0. JobOK(a) /\ Tip \in Block /\ Number[Tip] = best
      BY <1>0, TipFacts
    <3>1. /\ fork[a] \in 0..best /\ fork[a] \in 0..Number[b] /\ fork[a] <= Number[b]
          /\ Ancestor[Tip][fork[a]] = Ancestor[b][fork[a]] /\ SoundAbove(b, fork[a])
      <4>1. seen[a] = Tip /\ pc[a] = "publish"
        BY <2>3 DEF StagePublish, AtStage
      <4>2. /\ fork[a] <= Number[Tip] /\ Ancestor[Tip][fork[a]] = Ancestor[b][fork[a]]
            /\ Number[b] > fork[a] /\ SoundAbove(b, fork[a])
        BY <3>0, <4>1 DEF JobOK
      <4> QED BY <2>0, <3>0, <4>2, SMTT(30)
    <3>2. canon[fork[a]] = Ancestor[b][fork[a]]
      <4>1. ChainOK /\ fork[a] \in 0..best
        BY <1>0, <3>1
      <4> QED BY <3>1, <4>1, TipFacts
    <3>3. Moves(b, fork[a])
      BY <2>0, <2>3, <3>1, <3>2 DEF Moves, StagePublish, Replace
    <3>4. TotalWork[Ancestor[b][fork[a]]] \in Nat
      BY <2>0, <3>1, AncestorFacts, TreeTypes
    <3>5. BranchWork(a) = TotalWork[b]
      BY <2>0, <3>2, <3>4, TreeTypes, SMTT(30) DEF BranchWork
    <3>6. Prevails(b)
      BY <2>0, <2>3, <3>0, <3>5, TreeTypes, SMTT(30) DEF Prevails, StagePublish, Superseded
    <3>7. accounts' = b
      BY <2>3 DEF StagePublish, Replace
    <3> QED BY <2>0, <3>1, <3>3, <3>6, <3>7
  <2>4. CASE \/ StageIsFork(a) \/ StageCapture(a) \/ StageDeferred(a)
             \/ StageReplayAncestor(a) \/ StageReplaySuffix(a) \/ StageOvertaken(a)
    BY <2>4 DEF StageIsFork, StageCapture, StageDeferred, StageReplayAncestor,
                StageReplaySuffix, StageOvertaken, chain
  <2> QED BY <1>5, <2>1, <2>2, <2>3, <2>4 DEF StageStep
<1>6. CASE RecStep
  <2> DEFINE t == block["rec"]
             f == fork["rec"]
  <2>0. t \in Block /\ f \in Nat /\ Number[t] \in Nat /\ "rec" \in Actor
    BY <1>0, TreeTypes DEF Actor
  <2>1. CASE RecImportBatch
    <3>1. PICK last \in 0..Number[t] :
             /\ ImportsBatch(last) /\ Tip = Ancestor[t][f]
             /\ SoundAbove(Ancestor[t][last], f) /\ Insert(Ancestor[t][last])
      BY <2>1 DEF RecImportBatch
    <3>2. last \in f..Number[t]
      BY <2>0, <3>1, ForkChoiceAssumption, SMTT(30) DEF ImportsBatch
    <3>3. f = best
      <4>0. f \in 0..Number[t]
        BY <2>0, <3>2, SMTT(30)
      <4>1. Number[Ancestor[t][f]] = f
        BY <2>0, <4>0, AncestorFacts
      <4>2. Number[Tip] = best
        BY <1>0, TipFacts
      <4> QED BY <3>1, <4>1, <4>2
    <3>4. /\ Ancestor[t][last] \in Block /\ Number[Ancestor[t][last]] = last
          /\ \A m \in 0..last : Ancestor[Ancestor[t][last]][m] = Ancestor[t][m]
      BY <2>0, <3>2, AncestorFacts
    <3>5. /\ \A m \in f+1..last : Sound(Ancestor[t][m])
          /\ best' = last /\ canon' = Switched(Ancestor[t][last], f) /\ accounts' \in Block
      BY <2>0, <3>1, <3>3, <3>4, SMTT(30) DEF SoundAbove, Insert
    <3>7. accounts' = Ancestor[t][last]
      BY <3>1 DEF Insert
    <3> HIDE DEF t, f
    <3>6. /\ f \in 0..best /\ Moves(Ancestor[t][last], f) /\ Prevails(Ancestor[t][last])
      BY <1>0, <2>0, <3>1, <3>2, <3>5, StretchMoves
    <3> QED BY <3>4, <3>6, <3>7
  <2>2. CASE RecBatchFails
    <3>1. PICK last \in 0..Number[t] : \E k \in f+1..last :
             /\ \A m \in f+1..k-1 : Tip = Ancestor[t][f] /\ Sound(Ancestor[t][m])
             /\ IF k = f + 1 THEN UNCHANGED chain ELSE Insert(Ancestor[t][k-1])
      BY <2>2 DEF RecBatchFails
    <3>2. PICK k \in f+1..last :
             /\ \A m \in f+1..k-1 : Tip = Ancestor[t][f] /\ Sound(Ancestor[t][m])
             /\ IF k = f + 1 THEN UNCHANGED chain ELSE Insert(Ancestor[t][k-1])
      BY <3>1
    <3>3. CASE k = f + 1
      BY <3>2, <3>3
    <3>4. CASE k /= f + 1
      <4>1. k - 1 \in f+1..k-1 /\ k - 1 \in f..Number[t] /\ k - 1 \in 0..Number[t] /\ f \in 0..Number[t]
        BY <2>0, <3>4, SMTT(30)
      <4>2. Tip = Ancestor[t][f] /\ Insert(Ancestor[t][k-1])
        BY <3>2, <3>4, <4>1
      <4>3. f = best
        <5>1. Number[Ancestor[t][f]] = f
          BY <2>0, <4>1, AncestorFacts
        <5>2. Number[Tip] = best
          BY <1>0, TipFacts
        <5> QED BY <4>2, <5>1, <5>2
      <4>4. Ancestor[t][k-1] \in Block /\ Number[Ancestor[t][k-1]] = k - 1
        BY <2>0, <4>1, AncestorFacts
      <4>5. /\ \A m \in f+1..k-1 : Sound(Ancestor[t][m])
            /\ best' = k - 1 /\ canon' = Switched(Ancestor[t][k-1], f) /\ accounts' \in Block
        BY <3>2, <4>2, <4>3, <4>4 DEF Insert
      <4>7. accounts' = Ancestor[t][k-1]
        BY <4>2 DEF Insert
      <4> HIDE DEF t, f
      <4>6. /\ f \in 0..best /\ Moves(Ancestor[t][k-1], f) /\ Prevails(Ancestor[t][k-1])
        BY <1>0, <2>0, <4>1, <4>2, <4>5, StretchMoves
      <4> QED BY <4>4, <4>6, <4>7
    <3> QED BY <3>3, <3>4
  <2>3. CASE RecAssemble \/ RecCannotAssemble \/ RecChoosePath \/ RecFinish
    BY <2>3 DEF RecAssemble, RecCannotAssemble, RecChoosePath, RecFinish, chain
  <2> QED BY <1>6, <2>1, <2>2, <2>3 DEF RecStep
<1>7. CASE PeerHello \/ Maintain \/ Restart
  BY <1>7 DEF PeerHello, Maintain, Restart, chain
<1> QED BY <1>1, <1>2, <1>3, <1>4, <1>5, <1>6, <1>7 DEF Next

-----------------------------------------------------------------------------
(* The candidate pool.                                                     *)

PoolOK == DOMAIN candWork \subseteq Block /\ CandidateWorkIsExact

\* A candidate that store_candidate_block files has its exact work.
LEMMA PoolWithKeeps ==
    ASSUME ChainOK, PoolsTyped, CandidateWorkIsExact,
           NEW b \in Block, b /= Genesis, Known(Parent[b]), candWork' = PoolWith(b)
    PROVE  PoolOK'
BY QueuedWorkExact DEF PoolOK, PoolsTyped, PoolWith, CandidateWorkIsExact

\* What evictions leave in the candidate pool keeps its exact work.
LEMMA PoolWithoutKeeps ==
    ASSUME PoolsTyped, CandidateWorkIsExact, NEW S, candWork' = PoolWithout(S)
    PROVE  PoolOK'
BY DEF PoolOK, PoolsTyped, PoolWithout, CandidateWorkIsExact

\* A candidate pool that no one touches stays exact.
LEMMA PoolSame ==
    ASSUME PoolsTyped, CandidateWorkIsExact, UNCHANGED candWork
    PROVE  PoolOK'
BY DEF PoolOK, PoolsTyped, CandidateWorkIsExact

\* store_candidate_block files b: its parent is known, its header is valid and
\* there is room for it.
Files(b) ==
    /\ b /= Genesis /\ b \notin BadHeader
    /\ Known(Parent[b]) /\ ~ PoolFull(b)
    /\ candWork' = PoolWith(b)

(***************************************************************************)
(* Every step leaves the pool alone, files one block, drops a published    *)
(* suffix, or empties the pool.                                            *)
(***************************************************************************)
LEMMA PoolMoves ==
    ASSUME IInv, [Next]_vars
    PROVE  \/ UNCHANGED candWork
           \/ \E b \in Block : Files(b)
           \/ \E S : candWork' = PoolWithout(S)
           \/ candWork' = EmptyPool
<1> DEFINE Goal == \/ UNCHANGED candWork
                   \/ \E b \in Block : Files(b)
                   \/ \E S : candWork' = PoolWithout(S)
                   \/ candWork' = EmptyPool
<1> SUFFICES Goal
  OBVIOUS
<1>0. GenesisNeverWaits /\ todo \subseteq Block
  BY TypeParts DEF IInv, ThreadsTyped
<1>2. ASSUME NEW b \in Block, NEW a \in {"p2p", "rpc"}, Queues(a, b) PROVE Goal
  BY <1>2 DEF Queues, Competes, Receives, Files
<1>3. ASSUME NEW b \in todo, NEW a \in {"p2p", "rpc"}, DrainQueues(a, b) PROVE Goal
  BY <1>0, <1>3 DEF DrainQueues, GenesisNeverWaits, Files
<1>6. CASE UNCHANGED vars
  BY <1>6 DEF vars
<1>7. CASE Arrival
  <2>1. ASSUME NEW b \in Block, P2pFuture(b) \/ P2pExtends(b) \/ RpcExtends(b)
        PROVE  UNCHANGED candWork
    BY <2>1 DEF P2pFuture, P2pExtends, RpcExtends, pools
  <2>2. ASSUME NEW b \in Block, NEW a \in {"p2p", "rpc"}, ImportStep(a, b)
        PROVE  UNCHANGED candWork \/ Queues(a, b)
    BY <2>2 DEF ImportStep, QueueOrphan, QueueLosing, QueueBranch, QueueIncomplete
  <2> HIDE DEF Goal
  <2>3. UNCHANGED candWork => Goal
    BY DEF Goal
  <2>4. ASSUME NEW b \in Block,
               \/ P2pFuture(b) \/ P2pExtends(b) \/ RpcExtends(b)
               \/ \E a \in {"p2p", "rpc"} : ImportStep(a, b)
        PROVE  Goal
    BY <1>2, <2>1, <2>2, <2>3, <2>4
  <2> QED BY <1>7, <2>4 DEF Arrival
<1>8. CASE P2pSecond \/ PeerHello
  <2>1. CASE P2pNotNext \/ P2pInsert \/ P2pInvalid \/ P2pMaintain
    BY <2>1 DEF P2pNotNext, P2pInsert, P2pInvalid, P2pMaintain, pools
  <2>2. CASE P2pKick \/ PeerHello
    BY <2>2 DEF P2pKick, PeerHello, StartCandidateRecovery
  <2> QED BY <1>8, <2>1, <2>2 DEF P2pSecond
<1>9. ASSUME NEW a \in {"p2p", "rpc"}, DrainStep(a) PROVE Goal
  <2>1. ASSUME NEW b \in todo,
               DrainLosing(a, b) \/ DrainPromote(a, b) \/ DrainPromoteFails(a, b)
        PROVE  DrainQueues(a, b)
    BY <2>1 DEF DrainLosing, DrainPromote, DrainPromoteFails
  <2>2. ASSUME NEW b \in todo,
               DrainInsert(a, b) \/ DrainInvalid(a, b) \/ DrainSkip(a, b)
        PROVE  UNCHANGED candWork
    BY <2>2 DEF DrainInsert, DrainInvalid, DrainSkip, pools
  <2>3. CASE DrainNextPass(a) \/ DrainDone(a)
    BY <2>3 DEF DrainNextPass, DrainDone, pools
  <2> HIDE DEF Goal
  <2>4. UNCHANGED candWork => Goal
    BY DEF Goal
  <2> QED BY <1>3, <1>9, <2>1, <2>2, <2>3, <2>4 DEF DrainStep
<1>10. ASSUME NEW a \in Actor, StageStep(a) PROVE Goal
  <2>1. \/ UNCHANGED candWork \/ StageCommitsDirectly(a) \/ StagePublish(a)
    BY <1>10 DEF StageStep, StageDirectFails, StageIsFork, StageCapture, StageDeferred,
                 StageReplayAncestor, StageReplaySuffix, StageOvertaken, pools
  <2>2. \/ UNCHANGED candWork \/ candWork' = PoolWithout(SuffixOf(block[a], fork[a]))
    BY <2>1 DEF StageCommitsDirectly, StagePublish
  <2> QED BY <2>2
<1>11. CASE RecStep \/ Maintain \/ Restart
  BY <1>11 DEF RecStep, RecAssemble, RecCannotAssemble, RecChoosePath, RecImportBatch,
                 RecBatchFails, RecFinish, Maintain, Restart, pools
<1> HIDE DEF Goal
<1> QED BY <1>6, <1>7, <1>8, <1>9, <1>10, <1>11 DEF Next

\* Whatever a step does to the pool, the work it records stays exact.
LEMMA PoolStep ==
    ASSUME IInv, [Next]_vars
    PROVE  PoolOK'
<1>0. ChainOK /\ PoolsTyped /\ CandidateWorkIsExact
  BY TypeParts DEF IInv, ChainOK
<1>1. CASE UNCHANGED candWork
  BY <1>0, <1>1, PoolSame
<1>2. ASSUME NEW b \in Block, Files(b) PROVE PoolOK'
  BY <1>0, <1>2, PoolWithKeeps DEF Files
<1>3. ASSUME NEW S, candWork' = PoolWithout(S) PROVE PoolOK'
  BY <1>0, <1>3, PoolWithoutKeeps
<1>4. CASE candWork' = EmptyPool
  BY <1>4 DEF EmptyPool, PoolOK, CandidateWorkIsExact
<1> QED BY <1>1, <1>2, <1>3, <1>4, PoolMoves

-----------------------------------------------------------------------------
(* The threads: their locals, the mutexes, and what a replaying thread     *)
(* knows of the branch it publishes.                                       *)

\* The locals of the threads, and the state of the mutexes and the drain.
LocalsTyped ==
    /\ pc \in [Actor -> Labels] /\ block \in [Actor -> Block]
    /\ fork \in [Actor -> Nat] /\ seen \in [Actor -> Block]
    /\ applied \in [Actor -> Block] /\ replay \in Actor \cup {Free}

SharedTyped ==
    /\ storage \in {Free, "p2p", "rpc"} /\ maintain \in BOOLEAN
    /\ progressed \in BOOLEAN /\ passes \in 0..DrainPasses
    /\ resume \in {"idle", "kick", "maintain", "stage"}

\* The types of the threads, in the parts that the proofs use.
LEMMA ThreadParts == ThreadsTyped <=> LocalsTyped /\ SharedTyped /\ todo \subseteq Block
BY DEF ThreadsTyped, LocalsTyped, SharedTyped

\* A handler that returns resets its locals.
LEMMA ReturnTyped ==
    ASSUME LocalsTyped, NEW a \in Actor, Return(a)
    PROVE  LocalsTyped'
BY GenesisAncestor DEF LocalsTyped, Return, Goto, Set, Labels

\* No step leaves the mutex or the orphan drain in another state than the code's.
LEMMA SharedStep ==
    ASSUME IInv, [Next]_vars
    PROVE  SharedTyped'
<1>0. SharedTyped /\ 1 \in 0..DrainPasses /\ 0 \in 0..DrainPasses /\ DrainPasses \in Nat
  BY TypeParts, ThreadParts, ForkChoiceAssumption, SMTT(30) DEF IInv
<1>1. UNCHANGED <<storage, maintain, progressed, passes, resume>> => SharedTyped'
  BY <1>0 DEF SharedTyped
<1>2. ASSUME NEW a \in {"p2p", "rpc"}, NEW after \in {"idle", "kick", "maintain", "stage"},
             NEW S, StartDrain(a, after, S), UNCHANGED maintain
      PROVE  SharedTyped'
  BY <1>0, <1>2 DEF StartDrain, SharedTyped
<1>3. CASE UNCHANGED vars
  BY <1>1, <1>3 DEF vars
<1>4. CASE Arrival
  <2>1. ASSUME NEW b \in Block, P2pFuture(b) \/ P2pExtends(b) PROVE SharedTyped'
    BY <1>1, <2>1 DEF P2pFuture, P2pExtends, draining
  <2>2. ASSUME NEW b \in Block, RpcExtends(b) PROVE SharedTyped'
    BY <1>0, <2>2 DEF RpcExtends, draining, SharedTyped
  <2>3. ASSUME NEW b \in Block, NEW a \in {"p2p", "rpc"}, ImportStep(a, b) PROVE SharedTyped'
    <3>1. /\ UNCHANGED maintain
          /\ \/ UNCHANGED <<storage, draining>>
             \/ StartDrain("rpc", "idle", OrphansWith(b))
             \/ StartDrain("rpc", "idle", orphans) \/ StartDrain("rpc", "stage", orphans)
      BY <2>3 DEF ImportStep, QueueOrphan, QueueLosing, QueueBranch, QueueIncomplete,
                  Queues, NothingToReplay, ReplayNext
    <3> QED BY <1>1, <1>2, <3>1 DEF draining
  <2> QED BY <1>4, <2>1, <2>2, <2>3 DEF Arrival
<1>5. CASE P2pSecond \/ PeerHello
  <2>1. CASE P2pNotNext \/ P2pInsert
    BY <1>2, <2>1 DEF P2pNotNext, P2pInsert
  <2>2. CASE P2pInvalid \/ P2pKick \/ PeerHello
    BY <1>1, <2>2 DEF P2pInvalid, P2pKick, PeerHello, draining
  <2>3. CASE P2pMaintain
    BY <1>0, <2>3 DEF P2pMaintain, draining, SharedTyped
  <2> QED BY <1>5, <2>1, <2>2, <2>3 DEF P2pSecond
<1>6. ASSUME NEW a \in {"p2p", "rpc"}, DrainStep(a) PROVE SharedTyped'
  <2>1. ASSUME NEW b \in todo, \/ DrainInsert(a, b) \/ DrainLosing(a, b) \/ DrainPromote(a, b)
        PROVE  SharedTyped'
    BY <1>0, <2>1 DEF DrainInsert, DrainLosing, DrainPromote, DrainQueues, Attached,
                           SharedTyped
  <2>2. ASSUME NEW b \in todo, DrainInvalid(a, b) \/ DrainPromoteFails(a, b)
        PROVE  SharedTyped'
    BY <1>0, <2>2 DEF DrainInvalid, DrainPromoteFails, DrainQueues, Aborts, SharedTyped
  <2>3. ASSUME NEW b \in todo, DrainSkip(a, b) PROVE SharedTyped'
    BY <1>1, <2>3 DEF DrainSkip
  <2>4. CASE DrainNextPass(a)
    <3>1. /\ UNCHANGED <<storage, maintain, resume>> /\ progressed' = FALSE
          /\ passes < DrainPasses /\ passes' = passes + 1
      BY <2>4 DEF DrainNextPass
    <3>2. passes' \in 0..DrainPasses
      BY <1>0, <3>1, SMTT(30) DEF SharedTyped
    <3> QED BY <1>0, <3>1, <3>2 DEF SharedTyped
  <2>5. CASE DrainDone(a)
    BY <1>0, <2>5 DEF DrainDone, SharedTyped
  <2> QED BY <1>6, <2>1, <2>2, <2>3, <2>4, <2>5 DEF DrainStep
<1>7. ASSUME NEW a \in Actor, StageStep(a) PROVE SharedTyped'
  BY <1>1, <1>7 DEF StageStep, StageCommitsDirectly, StageDirectFails, StageIsFork,
             StageCapture, StageDeferred, StageReplayAncestor, StageReplaySuffix,
             StagePublish, StageOvertaken, draining
<1>8. CASE RecStep
  BY <1>1, <1>8 DEF RecStep, RecAssemble, RecCannotAssemble, RecChoosePath, RecImportBatch,
             RecBatchFails, RecFinish, draining
<1>9. CASE Maintain \/ Restart
  BY <1>0, <1>9 DEF Maintain, Restart, draining, SharedTyped
<1> QED BY <1>3, <1>4, <1>5, <1>6, <1>7, <1>8, <1>9 DEF Next

\* Every step keeps the types of the threads' locals.
LEMMA LocalsStep ==
    ASSUME IInv, [Next]_vars
    PROVE  LocalsTyped'
<1>0. /\ LocalsTyped /\ Genesis \in Block /\ {"p2p", "rpc"} \subseteq Actor /\ "rec" \in Actor
      /\ todo \subseteq Block /\ DOMAIN candWork \subseteq Block /\ Tip \in Block /\ best \in Nat
      /\ resume \in {"idle", "kick", "maintain", "stage"}
  BY TypeParts, ThreadParts, TipFacts, GenesisAncestor
     DEF IInv, ChainOK, ChainTyped, PoolsTyped, SharedTyped, Actor
<1>1. UNCHANGED <<pc, block, fork, seen, applied, replay>> => LocalsTyped'
  BY <1>0 DEF LocalsTyped
<1>2. ASSUME NEW a \in Actor, NEW label \in Labels, Goto(a, label),
             UNCHANGED <<block, fork, seen, applied, replay>>
      PROVE  LocalsTyped'
  BY <1>0, <1>2 DEF LocalsTyped, Goto
<1>3. ASSUME NEW a \in Actor, NEW label \in Labels, Goto(a, label),
             NEW b \in Block, block' = Set(block, a, b), UNCHANGED <<fork, seen, applied, replay>>
      PROVE  LocalsTyped'
  BY <1>0, <1>3 DEF LocalsTyped, Goto, Set
<1>4. ASSUME NEW a \in Actor, Return(a) PROVE LocalsTyped'
  BY <1>0, <1>4, ReturnTyped
<1>5. CASE UNCHANGED vars
  BY <1>1, <1>5 DEF vars
<1>6. CASE Arrival
  <2>1. ASSUME NEW b \in Block, P2pFuture(b) \/ RpcExtends(b) PROVE LocalsTyped'
    BY <1>1, <2>1 DEF P2pFuture, RpcExtends, job
  <2>2. ASSUME NEW b \in Block, P2pExtends(b) PROVE LocalsTyped'
    BY <1>0, <1>3, <2>2 DEF P2pExtends, Labels
  <2>3. ASSUME NEW b \in Block, NEW a \in {"p2p", "rpc"}, NEW S, NothingToReplay(a, b, S),
               UNCHANGED <<fork, seen, applied, replay>>
        PROVE  LocalsTyped'
    BY <1>0, <1>2, <1>3, <2>3 DEF NothingToReplay, StartDrain, Labels
  <2>4. ASSUME NEW b \in Block, NEW a \in {"p2p", "rpc"}, QueueBranch(a, b) PROVE LocalsTyped'
    <3>1. PICK n \in 0..best : fork' = Set(fork, a, n)
      BY <2>4 DEF QueueBranch
    <3>2. /\ block' = Set(block, a, b) /\ UNCHANGED <<seen, applied, replay>>
          /\ Goto(a, "drain") \/ Goto(a, "stage")
      BY <2>4 DEF QueueBranch, Queues, ReplayNext, StartDrain
    <3> QED BY <1>0, <3>1, <3>2, SMTT(30) DEF LocalsTyped, Goto, Set, Labels
  <2>5. ASSUME NEW b \in Block, NEW a \in {"p2p", "rpc"}, QueueIncomplete(a, b) PROVE LocalsTyped'
    BY <1>1, <2>5 DEF QueueIncomplete, Queues
  <2>6. ASSUME NEW b \in Block, NEW a \in {"p2p", "rpc"}, QueueOrphan(a, b) \/ QueueLosing(a, b)
        PROVE  LocalsTyped'
    BY <2>3, <2>6 DEF QueueOrphan, QueueLosing, Queues
  <2> QED BY <1>6, <2>1, <2>2, <2>4, <2>5, <2>6 DEF Arrival, ImportStep
<1>7. CASE P2pSecond \/ PeerHello
  <2>1. CASE P2pNotNext \/ P2pInsert
    BY <1>0, <1>3, <2>1 DEF P2pNotNext, P2pInsert, StartDrain, Labels
  <2>2. CASE P2pInvalid
    BY <1>0, <1>4, <2>2 DEF P2pInvalid
  <2>3. CASE P2pMaintain
    BY <1>0, <1>2, <2>3 DEF P2pMaintain, Labels, job
  <2>4. CASE P2pKick \/ PeerHello
    <3>1. PICK p \in [Actor -> Labels] : StartCandidateRecovery(p)
      BY <1>0, <2>4 DEF P2pKick, PeerHello, LocalsTyped, Set, Labels
    <3>2. UNCHANGED <<fork, seen, applied, replay>>
      BY <2>4 DEF P2pKick, PeerHello
    <3> QED BY <1>0, <3>1, <3>2, SMTT(30) DEF StartCandidateRecovery, Selectable, LocalsTyped, Set, Labels
  <2> QED BY <1>7, <2>1, <2>2, <2>3, <2>4 DEF P2pSecond
<1>8. ASSUME NEW a \in {"p2p", "rpc"}, DrainStep(a) PROVE LocalsTyped'
  <2>1. ASSUME NEW b \in todo, \/ DrainInsert(a, b) \/ DrainSkip(a, b)
                               \/ DrainLosing(a, b) \/ DrainPromote(a, b)
        PROVE  LocalsTyped'
    BY <1>1, <2>1 DEF DrainInsert, DrainSkip, DrainLosing, DrainPromote, job
  <2>2. ASSUME NEW b \in todo, DrainInvalid(a, b) \/ DrainPromoteFails(a, b)
        PROVE  LocalsTyped'
    BY <1>0, <1>4, <2>2 DEF DrainInvalid, DrainPromoteFails, Aborts
  <2>3. CASE DrainNextPass(a)
    BY <1>1, <2>3 DEF DrainNextPass, job
  <2>4. CASE DrainDone(a)
    BY <1>0, <1>2, <2>4 DEF DrainDone, job, Labels
  <2> QED BY <1>8, <2>1, <2>2, <2>3, <2>4 DEF DrainStep
<1>9. ASSUME NEW a \in Actor, StageStep(a) PROVE LocalsTyped'
  <2>1. CASE \/ StageCommitsDirectly(a) \/ StageDirectFails(a) \/ StageDeferred(a)
             \/ StagePublish(a) \/ StageOvertaken(a)
    BY <1>4, <2>1 DEF StageCommitsDirectly, StageDirectFails, StageDeferred, StagePublish,
                      StageOvertaken
  <2>2. CASE StageIsFork(a)
    BY <1>2, <2>2 DEF StageIsFork, Labels, job
  <2>3. CASE StageCapture(a)
    <3>1. PICK m \in DOMAIN snapshot : applied' = Set(applied, a, snapshot[m].block)
      BY <2>3 DEF StageCapture
    <3>2. snapshot[m].block \in Block
      BY TypeParts DEF IInv, PoolsTyped
    <3>3. /\ Goto(a, "replay") /\ seen' = Set(seen, a, Tip) /\ replay' = a
          /\ UNCHANGED <<block, fork>>
      BY <2>3 DEF StageCapture
    <3> QED BY <1>0, <3>1, <3>2, <3>3 DEF LocalsTyped, Goto, Set, Labels
  <2>4. CASE StageReplayAncestor(a)
    <3> DEFINE n == Number[applied[a]] + 1
    <3>1. CASE Return(a)
      BY <1>4, <3>1
    <3>2. CASE /\ n <= best /\ applied' = Set(applied, a, canon[n])
               /\ UNCHANGED <<pc, replay, block, fork, seen>>
      <4>0. applied[a] \in Block
        BY <1>0 DEF LocalsTyped
      <4>1. n \in 0..best
        <5>1. Number[applied[a]] \in Nat
          BY <4>0, TreeTypes
        <5> QED BY <1>0, <3>2, <5>1, SMTT(30)
      <4>2. canon[n] \in Block
        BY <4>1, TypeParts DEF IInv, ChainTyped
      <4> QED BY <1>0, <3>2, <4>2 DEF LocalsTyped, Set
    <3> QED BY <2>4, <3>1, <3>2 DEF StageReplayAncestor
  <2>5. CASE StageReplaySuffix(a)
    BY <1>2, <1>4, <2>5 DEF StageReplaySuffix, Labels, job
  <2> QED BY <1>9, <2>1, <2>2, <2>3, <2>4, <2>5 DEF StageStep
<1>10. CASE RecStep
  <2>1. CASE RecAssemble
    <3>1. PICK n \in 0..best : fork' = Set(fork, "rec", n)
      BY <2>1 DEF RecAssemble
    <3> QED BY <1>0, <2>1, <3>1, SMTT(30) DEF RecAssemble, LocalsTyped, Goto, Set, Labels
  <2>2. CASE RecCannotAssemble \/ RecBatchFails \/ RecFinish
    BY <1>0, <1>4, <2>2 DEF RecCannotAssemble, RecBatchFails, RecFinish
  <2>3. CASE RecChoosePath
    BY <1>0, <1>2, <2>3 DEF RecChoosePath, Labels, job
  <2>4. CASE RecImportBatch
    <3>1. PICK last \in 0..Number[block["rec"]] : fork' = Set(fork, "rec", last)
      BY <2>4 DEF RecImportBatch
    <3>2. UNCHANGED <<pc, block, seen, applied, replay>>
      BY <2>4 DEF RecImportBatch
    <3>3. last \in Nat
      BY SMTT(30)
    <3> QED BY <1>0, <3>1, <3>2, <3>3 DEF LocalsTyped, Set
  <2> QED BY <1>10, <2>1, <2>2, <2>3, <2>4 DEF RecStep
<1>11. CASE Maintain
  BY <1>1, <1>11 DEF Maintain, job
<1>12. CASE Restart
  BY <1>0, <1>12 DEF Restart, LocalsTyped, Labels
<1> QED BY <1>5, <1>6, <1>7, <1>8, <1>9, <1>10, <1>11, <1>12 DEF Next

\* A thread that a step does not concern, and one that is not replaying.
Rests(x) == /\ pc'[x] = pc[x] /\ block'[x] = block[x]
            /\ fork'[x] = fork[x] /\ seen'[x] = seen[x]
Elsewhere(x) == pc'[x] \notin {"replay", "publish"}

\* A thread that rests, or that replays nothing, keeps what is known of its job.
LEMMA RestKeepsJob ==
    ASSUME NEW x \in Actor, JobOK(x), Rests(x) \/ Elsewhere(x)
    PROVE  JobOK(x)'
BY DEF JobOK, Rests, Elsewhere, SoundAbove, Sound

(***************************************************************************)
(* A job is captured under the storage mutex, so the tip and the common    *)
(* ancestor it notes fit together; after that only its own replay moves it.*)
(***************************************************************************)
LEMMA JobsStep ==
    ASSUME IInv, [Next]_vars, NEW x \in Actor
    PROVE  JobOK(x)'
<1> DEFINE Idle(y) == Rests(y) \/ Elsewhere(y)
<1>0. /\ LocalsTyped /\ ChainOK /\ {"p2p", "rpc"} \subseteq Actor /\ "rec" \in Actor /\ JobOK(x)
      /\ resume \in {"idle", "kick", "maintain", "stage"}
  BY TypeParts, ThreadParts DEF IInv, ChainOK, SharedTyped, Actor
<1>1. UNCHANGED <<pc, block, fork, seen>> => Idle(x)
  BY DEF Rests
<1>2. ASSUME NEW a \in Actor, NEW label \in Labels \ {"replay", "publish"}, Goto(a, label),
             \A y \in Actor \ {a} : block'[y] = block[y] /\ fork'[y] = fork[y] /\ seen'[y] = seen[y]
      PROVE  Idle(x)
  BY <1>0, <1>2 DEF Goto, LocalsTyped, Rests, Elsewhere
<1>3. ASSUME NEW a \in Actor, Return(a) PROVE Idle(x)
  <2>1. Goto(a, "idle") /\ "idle" \in Labels \ {"replay", "publish"}
    BY <1>3 DEF Return, Labels
  <2>2. \A y \in Actor \ {a} : block'[y] = block[y] /\ fork'[y] = fork[y] /\ seen'[y] = seen[y]
    BY <1>0, <1>3 DEF Return, Set, LocalsTyped
  <2> QED BY <1>2, <2>1, <2>2
<1>4. CASE UNCHANGED vars
  BY <1>0, <1>1, <1>4, RestKeepsJob DEF vars
<1>5. CASE Arrival
  <2>1. ASSUME NEW b \in Block, P2pFuture(b) \/ RpcExtends(b) PROVE Idle(x)
    BY <1>1, <2>1 DEF P2pFuture, RpcExtends, job
  <2>2. ASSUME NEW b \in Block, P2pExtends(b) PROVE Idle(x)
    BY <1>0, <1>2, <2>2 DEF P2pExtends, Labels, Set, LocalsTyped
  <2>3. ASSUME NEW b \in Block, NEW a \in {"p2p", "rpc"}, QueueOrphan(a, b) \/ QueueLosing(a, b)
        PROVE  Idle(x)
    <3>1. /\ UNCHANGED <<fork, seen>>
          /\ UNCHANGED block \/ block' = Set(block, a, b)
          /\ Goto(a, "drain") \/ Goto(a, "second")
      BY <2>3 DEF QueueOrphan, QueueLosing, Queues, NothingToReplay, StartDrain
    <3>2. \A y \in Actor \ {a} : block'[y] = block[y] /\ fork'[y] = fork[y] /\ seen'[y] = seen[y]
      BY <1>0, <3>1 DEF Set, LocalsTyped
    <3> QED BY <1>0, <1>2, <3>1, <3>2 DEF Labels
  <2>4. ASSUME NEW b \in Block, NEW a \in {"p2p", "rpc"}, QueueBranch(a, b) PROVE Idle(x)
    <3>1. PICK n \in 0..best : fork' = Set(fork, a, n)
      BY <2>4 DEF QueueBranch
    <3>2. /\ UNCHANGED seen /\ block' = Set(block, a, b)
          /\ Goto(a, "drain") \/ Goto(a, "stage")
      BY <2>4 DEF QueueBranch, Queues, ReplayNext, StartDrain
    <3> QED BY <1>0, <1>2, <3>1, <3>2 DEF Labels, Set, LocalsTyped
  <2>5. ASSUME NEW b \in Block, NEW a \in {"p2p", "rpc"}, QueueIncomplete(a, b) PROVE Idle(x)
    BY <1>1, <2>5 DEF QueueIncomplete, Queues
  <2>6. Idle(x)
    BY <1>5, <2>1, <2>2, <2>3, <2>4, <2>5 DEF Arrival, ImportStep
  <2> QED BY <1>0, <2>6, RestKeepsJob
<1>6. CASE P2pSecond \/ PeerHello
  <2> SUFFICES Idle(x)
    BY <1>0, RestKeepsJob
  <2>1. CASE P2pNotNext \/ P2pInsert
    BY <1>0, <1>2, <2>1 DEF P2pNotNext, P2pInsert, StartDrain, Labels, Set, LocalsTyped
  <2>2. CASE P2pInvalid
    BY <1>0, <1>3, <2>2 DEF P2pInvalid
  <2>3. CASE P2pMaintain
    BY <1>0, <1>2, <2>3 DEF P2pMaintain, Labels, job
  <2>4. CASE P2pKick \/ PeerHello
    <3>1. PICK p \in [Actor -> Labels] :
             /\ StartCandidateRecovery(p)
             /\ \A y \in Actor : p[y] = pc[y] \/ p[y] = "idle"
      <4>1. CASE P2pKick
        <5> DEFINE q == Set(pc, "p2p", "idle")
        <5>1. /\ q \in [Actor -> Labels] /\ StartCandidateRecovery(q)
              /\ \A y \in Actor : q[y] = pc[y] \/ q[y] = "idle"
          BY <1>0, <4>1 DEF P2pKick, LocalsTyped, Set, Labels
        <5> HIDE DEF q
        <5> QED BY <5>1
      <4>2. CASE PeerHello
        BY <1>0, <4>2 DEF PeerHello, LocalsTyped
      <4> QED BY <2>4, <4>1, <4>2
    <3>2. UNCHANGED <<fork, seen>>
      BY <2>4 DEF P2pKick, PeerHello
    <3>3. CASE pc' = p /\ UNCHANGED block
      BY <3>1, <3>2, <3>3 DEF Rests, Elsewhere
    <3>4. CASE /\ pc' = Set(p, "rec", "assemble")
               /\ \E c \in Selectable : block' = Set(block, "rec", c)
      BY <1>0, <3>1, <3>2, <3>4 DEF Rests, Elsewhere, Set, LocalsTyped
    <3> QED BY <3>1, <3>3, <3>4 DEF StartCandidateRecovery
  <2> QED BY <1>6, <2>1, <2>2, <2>3, <2>4 DEF P2pSecond
<1>7. ASSUME NEW a \in {"p2p", "rpc"}, DrainStep(a) PROVE JobOK(x)'
  <2> SUFFICES Idle(x)
    BY <1>0, RestKeepsJob
  <2>1. ASSUME NEW b \in todo, \/ DrainInsert(a, b) \/ DrainSkip(a, b)
                               \/ DrainLosing(a, b) \/ DrainPromote(a, b)
        PROVE  Idle(x)
    BY <1>1, <2>1 DEF DrainInsert, DrainSkip, DrainLosing, DrainPromote, job
  <2>2. ASSUME NEW b \in todo, DrainInvalid(a, b) \/ DrainPromoteFails(a, b) PROVE Idle(x)
    BY <1>0, <1>3, <2>2 DEF DrainInvalid, DrainPromoteFails, Aborts
  <2>3. CASE DrainNextPass(a)
    BY <1>1, <2>3 DEF DrainNextPass, job
  <2>4. CASE DrainDone(a)
    BY <1>0, <1>2, <2>4 DEF DrainDone, job, Labels
  <2> QED BY <1>7, <2>1, <2>2, <2>3, <2>4 DEF DrainStep
<1>8. ASSUME NEW a \in Actor, StageStep(a) PROVE JobOK(x)'
  <2>1. CASE \/ StageCommitsDirectly(a) \/ StageDirectFails(a) \/ StageDeferred(a)
             \/ StagePublish(a) \/ StageOvertaken(a)
    <3>1. Return(a)
      BY <2>1 DEF StageCommitsDirectly, StageDirectFails, StageDeferred,
                         StagePublish, StageOvertaken
    <3> QED BY <1>0, <1>3, <3>1, RestKeepsJob
  <2>2. CASE StageIsFork(a)
    BY <1>0, <1>2, <2>2, RestKeepsJob DEF StageIsFork, Labels, job
  <2>3. CASE StageCapture(a)
    <3>1. /\ fork[a] <= best /\ canon[fork[a]] = Ancestor[block[a]][fork[a]]
          /\ Goto(a, "replay") /\ seen' = Set(seen, a, Tip) /\ UNCHANGED <<block, fork>>
      BY <2>3 DEF StageCapture, Replayable
    <3>2. CASE x /= a
      <4>1. Rests(x)
        BY <1>0, <3>1, <3>2 DEF Rests, Goto, Set, LocalsTyped
      <4> QED BY <1>0, <4>1, RestKeepsJob
    <3>3. CASE x = a
      <4>1. /\ pc'[a] = "replay" /\ seen'[a] = Tip /\ block'[a] = block[a] /\ fork'[a] = fork[a]
        BY <1>0, <3>1 DEF Goto, Set, LocalsTyped
      <4>2. fork[a] \in 0..best /\ best \in Nat
        BY <1>0, <3>1, SMTT(30) DEF LocalsTyped, ChainOK, ChainTyped
      <4>3. fork[a] <= Number[Tip] /\ Ancestor[Tip][fork[a]] = Ancestor[block[a]][fork[a]]
        BY <1>0, <3>1, <4>2, TipFacts
      <4> QED BY <3>3, <4>1, <4>3 DEF JobOK
    <3> QED BY <3>2, <3>3
  <2>4. CASE StageReplayAncestor(a)
    BY <1>0, <1>1, <1>3, <2>4, RestKeepsJob DEF StageReplayAncestor
  <2>5. CASE StageReplaySuffix(a)
    <3>1. CASE Return(a)
      BY <1>0, <1>3, <3>1, RestKeepsJob
    <3>2. CASE /\ Number[block[a]] > fork[a] /\ SoundAbove(block[a], fork[a])
               /\ Goto(a, "publish") /\ UNCHANGED job
      <4>1. pc[a] = "replay" /\ UNCHANGED <<block, fork, seen>>
        BY <2>5, <3>2 DEF StageReplaySuffix, job
      <4>2. CASE x /= a
        <5>1. Rests(x)
          BY <1>0, <3>2, <4>1, <4>2 DEF Rests, Goto, LocalsTyped
        <5> QED BY <1>0, <5>1, RestKeepsJob
      <4>3. CASE x = a
        BY <1>0, <3>2, <4>1, <4>3 DEF JobOK, Goto, LocalsTyped, SoundAbove, Sound
      <4> QED BY <4>2, <4>3
    <3> QED BY <2>5, <3>1, <3>2 DEF StageReplaySuffix
  <2> QED BY <1>8, <2>1, <2>2, <2>3, <2>4, <2>5 DEF StageStep
<1>9. CASE RecStep
  <2> SUFFICES Idle(x)
    BY <1>0, RestKeepsJob
  <2>1. CASE RecAssemble
    <3>1. PICK n \in 0..best : fork' = Set(fork, "rec", n)
      BY <2>1 DEF RecAssemble
    <3>2. Goto("rec", "check") /\ UNCHANGED <<block, seen>>
      BY <2>1 DEF RecAssemble
    <3> QED BY <1>0, <1>2, <3>1, <3>2 DEF Labels, Set, LocalsTyped
  <2>2. CASE RecCannotAssemble \/ RecBatchFails \/ RecFinish
    BY <1>0, <1>3, <2>2 DEF RecCannotAssemble, RecBatchFails, RecFinish
  <2>3. CASE RecChoosePath
    BY <1>0, <1>2, <2>3 DEF RecChoosePath, Labels, job
  <2>4. CASE RecImportBatch
    <3>1. PICK last \in 0..Number[block["rec"]] : fork' = Set(fork, "rec", last)
      BY <2>4 DEF RecImportBatch
    <3>2. UNCHANGED <<pc, block, seen>> /\ pc["rec"] = "batch"
      BY <2>4 DEF RecImportBatch, ImportsBatch, AtStage
    <3> QED BY <1>0, <3>1, <3>2 DEF LocalsTyped, Set, Rests, Elsewhere
  <2> QED BY <1>9, <2>1, <2>2, <2>3, <2>4 DEF RecStep
<1>10. CASE Maintain
  BY <1>0, <1>1, <1>10, RestKeepsJob DEF Maintain, job
<1>11. CASE Restart
  BY <1>0, <1>11, RestKeepsJob DEF Restart, Elsewhere
<1> QED BY <1>4, <1>5, <1>6, <1>7, <1>8, <1>9, <1>10, <1>11 DEF Next

=============================================================================
