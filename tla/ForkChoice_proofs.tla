------------------------- MODULE ForkChoice_proofs -------------------------
(***************************************************************************)
(* Fork choice for every block tree and every limit: the canonical index   *)
(* is one chain of valid blocks, stored candidate work is exact, no step   *)
(* leaves the node on a lighter chain, the pools keep their limits, the    *)
(* accounts are those of the tip, and Ledger is implemented.               *)
(***************************************************************************)
EXTENDS ForkLedger, ForkChain_proofs, FiniteSetTheorems

\* Zenon proves the steps that name no other prover.
USE Zenon

-----------------------------------------------------------------------------
(* Orphans, quarantine marks and snapshots.                                *)

FilesTyped ==
    /\ orphans \subseteq Block /\ todo \subseteq Block /\ quarantined \subseteq Block
    /\ \A n \in DOMAIN snapshot : snapshot[n] \in [block : Block, state : Block]

FilesOK == FilesTyped /\ GenesisNeverWaits

\* A state snapshot is of a block and of the state after one.
LEMMA SnapshotsTyped ==
    ASSUME PoolsTyped, NEW b \in Block, NEW st \in Block, snapshot' = Snapshots(b, st)
    PROVE  \A n \in DOMAIN snapshot' : snapshot'[n] \in [block : Block, state : Block]
<1>1. CASE Number[b] = 0 \/ Number[b] % SnapshotEvery /= 0
  BY <1>1 DEF PoolsTyped, Snapshots
<1>2. CASE ~ (Number[b] = 0 \/ Number[b] % SnapshotEvery /= 0)
  BY <1>2 DEF PoolsTyped, Snapshots
<1> QED BY <1>1, <1>2

\* An orphan that is filed only adds itself.
LEMMA OrphansWithTyped ==
    ASSUME NEW b
    PROVE  OrphansWith(b) \subseteq orphans \cup {b}
BY DEF OrphansWith

\* Every step keeps the types of orphans, snapshots and quarantine, and the
\* genesis block waits nowhere.
LEMMA FilesStep ==
    ASSUME IInv, [Next]_vars
    PROVE  FilesOK'
<1> DEFINE SnapOK == \A n \in DOMAIN snapshot : snapshot[n] \in [block : Block, state : Block]
           WaitOK == /\ orphans \subseteq Block /\ todo \subseteq Block
                     /\ quarantined \subseteq Block /\ GenesisNeverWaits
<1>0. /\ ChainOK /\ PoolsTyped /\ WaitOK /\ SnapOK /\ Genesis \in Block
      /\ accounts \in Block /\ Tip \in Block
      /\ block["rec"] \in Block /\ DOMAIN candWork \subseteq Block
  BY TypeParts, TipFacts, GenesisAncestor
     DEF IInv, ChainOK, ChainTyped, ThreadsTyped, PoolsTyped, Actor
<1>1. UNCHANGED snapshot => SnapOK'
  BY <1>0
<1>2. UNCHANGED <<orphans, todo, quarantined>> => WaitOK'
  BY <1>0 DEF GenesisNeverWaits
<1>3. CASE UNCHANGED vars
  BY <1>1, <1>2, <1>3 DEF vars, FilesOK, FilesTyped
<1>4. CASE Arrival
  <2>1. ASSUME NEW b \in Block, P2pExtends(b) \/ RpcExtends(b)
        PROVE  UNCHANGED <<snapshot, orphans, todo, quarantined>>
    BY <2>1 DEF P2pExtends, RpcExtends, pools, draining
  <2>2. ASSUME NEW b \in Block, P2pFuture(b) PROVE FilesOK'
    <3>1. /\ b /= Genesis /\ orphans' \subseteq orphans \cup {b}
          /\ UNCHANGED <<snapshot, todo, quarantined>>
      BY <2>2, OrphansWithTyped DEF P2pFuture, Receives, draining
    <3> QED BY <1>0, <1>1, <3>1 DEF FilesOK, FilesTyped, GenesisNeverWaits
  <2>3. ASSUME NEW b \in Block, NEW a \in {"p2p", "rpc"}, ImportStep(a, b) PROVE FilesOK'
    <3>1. CASE QueueOrphan(a, b)
      <4>1. /\ b /= Genesis /\ orphans' \subseteq orphans \cup {b}
            /\ todo' = todo \/ todo' \subseteq orphans \cup {b}
            /\ UNCHANGED <<snapshot, quarantined>>
        BY <3>1, OrphansWithTyped
           DEF QueueOrphan, Competes, Receives, NothingToReplay, StartDrain, draining
      <4> QED BY <1>0, <1>1, <4>1 DEF FilesOK, FilesTyped, GenesisNeverWaits
    <3>2. CASE QueueLosing(a, b) \/ QueueBranch(a, b) \/ QueueIncomplete(a, b)
      <4>1. /\ UNCHANGED <<snapshot, orphans, quarantined>>
            /\ todo' = todo \/ todo' = orphans
        BY <3>2 DEF QueueLosing, QueueBranch, QueueIncomplete, Queues, NothingToReplay,
                    ReplayNext, StartDrain, draining
      <4> QED BY <1>0, <1>1, <4>1 DEF FilesOK, FilesTyped, GenesisNeverWaits
    <3> QED BY <2>3, <3>1, <3>2 DEF ImportStep
  <2> QED BY <1>1, <1>2, <1>4, <2>1, <2>2, <2>3 DEF Arrival, FilesOK, FilesTyped
<1>5. CASE P2pSecond \/ PeerHello
  <2>1. /\ UNCHANGED <<snapshot, orphans>>
        /\ todo' = todo \/ todo' = orphans
        /\ quarantined' = quarantined \/ quarantined' = {}
    BY <1>5 DEF P2pSecond, P2pNotNext, P2pInsert, P2pInvalid, P2pMaintain, P2pKick,
                PeerHello, StartCandidateRecovery, StartDrain, draining, pools
  <2> QED BY <1>0, <1>1, <2>1 DEF FilesOK, FilesTyped, GenesisNeverWaits
<1>6. ASSUME NEW a \in {"p2p", "rpc"}, DrainStep(a) PROVE FilesOK'
  <2> DEFINE Shrinks == /\ UNCHANGED <<snapshot, quarantined>>
                        /\ orphans' \subseteq orphans /\ todo' \subseteq todo \cup orphans
  <2>1. Shrinks
    <3>1. ASSUME NEW b \in todo, \/ DrainInsert(a, b) \/ DrainInvalid(a, b)
                                 \/ DrainSkip(a, b) \/ DrainLosing(a, b)
                                 \/ DrainPromote(a, b) \/ DrainPromoteFails(a, b)
          PROVE  Shrinks
      BY <3>1 DEF DrainInsert, DrainInvalid, DrainSkip, DrainLosing, DrainPromote,
                  DrainPromoteFails, DrainQueues, Attached, Aborts, pools
    <3>2. CASE DrainNextPass(a) \/ DrainDone(a)
      BY <3>2 DEF DrainNextPass, DrainDone, pools
    <3> QED BY <1>6, <3>1, <3>2 DEF DrainStep
  <2> QED BY <1>0, <1>1, <2>1 DEF FilesOK, FilesTyped, GenesisNeverWaits
<1>7. ASSUME NEW a \in Actor, StageStep(a) PROVE FilesOK'
  <2>1. UNCHANGED <<snapshot, orphans, todo>> /\ quarantined' \subseteq quarantined
    BY <1>7 DEF StageStep, StageCommitsDirectly, StageDirectFails, StageIsFork,
                StageCapture, StageDeferred, StageReplayAncestor, StageReplaySuffix,
                StagePublish, StageOvertaken, draining, pools
  <2> QED BY <1>0, <1>1, <2>1 DEF FilesOK, FilesTyped, GenesisNeverWaits
<1>8. CASE RecStep
  <2>1. UNCHANGED <<orphans, todo>> /\ quarantined' \subseteq quarantined \cup {block["rec"]}
    BY <1>8 DEF RecStep, RecAssemble, RecCannotAssemble, RecChoosePath, RecImportBatch,
                RecBatchFails, RecFinish, draining, pools
  <2>2. SnapOK'
    <3>1. CASE UNCHANGED snapshot
      BY <1>1, <3>1
    <3>2. CASE RecImportBatch
      <4>1. PICK last \in 0..Number[block["rec"]] :
               snapshot' = Snapshots(Ancestor[block["rec"]][last], Ancestor[block["rec"]][last])
        BY <3>2 DEF RecImportBatch
      <4>2. Ancestor[block["rec"]][last] \in Block
        BY <1>0, AncestorFacts
      <4> QED BY <1>0, <4>1, <4>2, SnapshotsTyped
    <3> QED BY <1>8, <3>1, <3>2 DEF RecStep, RecAssemble, RecCannotAssemble,
               RecChoosePath, RecBatchFails, RecFinish
  <2> QED BY <1>0, <2>1, <2>2 DEF FilesOK, FilesTyped, GenesisNeverWaits
<1>9. CASE Maintain
  <2>1. UNCHANGED <<orphans, todo, quarantined>> /\ snapshot' = Snapshots(Tip, accounts)
    BY <1>9 DEF Maintain, draining, pools
  <2>2. SnapOK'
    BY <1>0, <2>1, SnapshotsTyped
  <2> QED BY <1>2, <2>1, <2>2 DEF FilesOK, FilesTyped
<1>10. CASE Restart
  <2>1. UNCHANGED <<snapshot, orphans, quarantined>> /\ todo' = {}
    BY <1>10 DEF Restart, pools
  <2> QED BY <1>0, <1>1, <2>1 DEF FilesOK, FilesTyped, GenesisNeverWaits
<1> QED BY <1>3, <1>4, <1>5, <1>6, <1>7, <1>8, <1>9, <1>10 DEF Next

-----------------------------------------------------------------------------
(* The inductive invariant and the theorems.                               *)

\* A node that starts satisfies the inductive invariant.
LEMMA IInvInit == Init => IInv
<1> SUFFICES ASSUME Init PROVE IInv
  OBVIOUS
<1>0. /\ Genesis \in Block /\ Number[Genesis] = 0 /\ Ancestor[Genesis][0] = Genesis
      /\ Sound(Genesis) /\ 0 \in 0..DrainPasses
  <2>1. Genesis \in Block /\ Number[Genesis] = 0 /\ Ancestor[Genesis][0] = Genesis
    BY BlockTreeAssumption
  <2>2. Sound(Genesis) /\ 0 \in 0..DrainPasses
    BY ForkChoiceAssumption, SMTT(30) DEF Sound
  <2> QED BY <2>1, <2>2
<1>1. ChainTyped /\ CanonicalIsOneSoundChain
  BY <1>0, SMTT(30) DEF Init, ChainTyped, CanonicalIsOneSoundChain, Tip
<1>2. PoolsTyped /\ CandidateWorkIsExact /\ GenesisNeverWaits
  BY DEF Init, PoolsTyped, CandidateWorkIsExact, GenesisNeverWaits, EmptyPool
<1>3. ThreadsTyped
  BY <1>0 DEF Init, ThreadsTyped, Labels
<1>4. \A a \in Actor : JobOK(a)
  BY DEF Init, JobOK
<1> QED BY <1>1, <1>2, <1>3, <1>4, TypeParts DEF IInv

\* Every step of a thread keeps the inductive invariant.
LEMMA IInvStep == IInv /\ [Next]_vars => IInv'
<1> SUFFICES ASSUME IInv, [Next]_vars PROVE IInv'
  OBVIOUS
<1>1. ChainOK
  BY TypeParts DEF IInv, ChainOK
<1>2. ChainOK'
  <2>1. CASE UNCHANGED chain
    BY <1>1, <2>1 DEF chain, ChainOK, ChainTyped, CanonicalIsOneSoundChain, Tip, Sound
  <2>2. ASSUME NEW b \in Block, NEW n \in 0..best, Moves(b, n) PROVE ChainOK'
    BY <1>1, <2>2, MovesKeepsChain
  <2> QED BY <2>1, <2>2, ChainMoves
<1>3. PoolOK' /\ FilesOK' /\ SharedTyped' /\ LocalsTyped'
  BY PoolStep, FilesStep, SharedStep, LocalsStep
<1>4. \A c \in Block : TotalWork[c] \in Nat
  BY TreeTypes
<1>5. PoolsTyped'
  BY <1>3, <1>4 DEF PoolsTyped, PoolOK, FilesOK, FilesTyped, CandidateWorkIsExact
<1>6. ThreadsTyped'
  BY <1>3 DEF ThreadsTyped, LocalsTyped, SharedTyped, FilesOK, FilesTyped
<1>7. TypeOK'
  BY <1>2, <1>5, <1>6 DEF TypeOK, ChainOK, ChainTyped, PoolsTyped, ThreadsTyped
<1>8. \A a \in Actor : JobOK(a)'
  BY JobsStep
<1> QED BY <1>2, <1>3, <1>7, <1>8 DEF IInv, ChainOK, PoolOK, FilesOK

\* The inductive invariant of fork choice.
LEMMA Inductive == Spec => []IInv
BY IInvInit, IInvStep, PTL DEF Spec

\* The tip of one state prevails over the tip of the state before.
LEMMA WorkStep ==
    ASSUME IInv, [Next]_vars
    PROVE  \/ Tip' = Tip
           \/ TotalWork[Tip'] > TotalWork[Tip]
           \/ /\ TotalWork[Tip'] = TotalWork[Tip]
              /\ Number[Tip'] = Number[Tip] => HashRank[Tip'] < HashRank[Tip]
<1>1. ChainOK
  BY TypeParts DEF IInv, ChainOK
<1>2. CASE UNCHANGED chain
  BY <1>2 DEF chain, Tip
<1>3. ASSUME NEW b \in Block, NEW n \in 0..best, Moves(b, n), Prevails(b)
      PROVE  Tip' = b /\ Prevails(b)
  BY <1>1, <1>3, MovesKeepsChain
<1> QED BY <1>2, <1>3, ChainMoves DEF Prevails

\* Every variable keeps its type on every block tree and for every limit: no
\* thread indexes the canonical chain above best or leaves its labels.
THEOREM ForkTypes == Spec => []TypeOK
<1>1. IInv => TypeOK
  BY DEF IInv
<1> QED BY <1>1, Inductive, PTL

\* However gossip, miners, drains and recovery interleave, the canonical index
\* is the one chain of its tip, and every block of it is valid.
THEOREM ChainIsSound == Spec => []CanonicalIsOneSoundChain
<1>1. IInv => CanonicalIsOneSoundChain
  BY DEF IInv
<1> QED BY <1>1, Inductive, PTL

\* The work that queue_competing_block stores with a candidate stays the work
\* of that candidate's chain, whatever reorganizations happen meanwhile.
THEOREM CandidateWork == Spec => []CandidateWorkIsExact
<1>1. IInv => CandidateWorkIsExact
  BY DEF IInv
<1> QED BY <1>1, Inductive, PTL

\* No step gives up work: neither a direct extension, nor a batch, nor a
\* publication whose branch was judged before the storage mutex was released.
THEOREM WorkMonotone == Spec => WorkNeverDecreases
<1>1. IInv /\ [Next]_vars =>
        [ \/ Tip' = Tip
          \/ TotalWork[Tip'] > TotalWork[Tip]
          \/ /\ TotalWork[Tip'] = TotalWork[Tip]
             /\ Number[Tip'] = Number[Tip] => HashRank[Tip'] < HashRank[Tip] ]_vars
  BY WorkStep
<1> QED BY <1>1, Inductive, PTL DEF Spec, WorkNeverDecreases

-----------------------------------------------------------------------------
(* The limits of the pools.                                                *)

\* orphan_blocks lists a pool in a definite order: it has a first block.
LEMMA FirstExists ==
    ASSUME NEW S \in SUBSET Block, S /= {}
    PROVE  \E b \in S : IsFirst(b, S)
<1>0. \A b \in Block : Number[b] \in Nat /\ HashRank[b] \in Nat
  BY TreeTypes
<1>1. PICK m \in {Number[x] : x \in S} : \A k \in {Number[x] : x \in S} : m <= k
  <2>1. {Number[x] : x \in S} \in SUBSET Nat /\ {Number[x] : x \in S} /= {}
    BY <1>0
  <2> QED BY <2>1, LeastNatural
<1> DEFINE L == {x \in S : Number[x] = m}
<1>2. PICK r \in {HashRank[x] : x \in L} : \A k \in {HashRank[x] : x \in L} : r <= k
  <2>1. {HashRank[x] : x \in L} \in SUBSET Nat /\ {HashRank[x] : x \in L} /= {}
    BY <1>0, <1>1
  <2> QED BY <2>1, LeastNatural
<1>3. PICK b \in L : HashRank[b] = r
  BY <1>2
<1>4. ASSUME NEW x \in S \ {b}
      PROVE  Before(b, x)
  <2>1. b \in Block /\ x \in Block /\ Number[b] = m /\ m <= Number[x]
    BY <1>1, <1>3
  <2>2. HashRank[x] /= HashRank[b]
    BY <2>1, BlockTreeAssumption
  <2>3. Number[x] = m => HashRank[b] <= HashRank[x]
    BY <1>2, <1>3
  <2> QED BY <1>0, <2>1, <2>2, <2>3, SMTT(30) DEF Before
<1> QED BY <1>3, <1>4 DEF IsFirst

\* A finite pool S within the limit m.
Within(S, m) == IsFiniteSet(S) /\ Cardinality(S) <= m

\* What is left of a pool is within its limit, and so is one more block if
\* there was room for it.
LEMMA WithinLimit ==
    ASSUME NEW S, NEW m \in Nat, Within(S, m)
    PROVE  /\ \A R \in SUBSET S : Within(R, m)
           /\ \A b : Cardinality(S) < m \/ b \in S => Within(S \cup {b}, m)
<1>1. ASSUME NEW R \in SUBSET S
      PROVE  Within(R, m)
  BY <1>1, FS_Subset, FS_CardinalityType, SMTT(30) DEF Within
<1>2. ASSUME NEW b, Cardinality(S) < m \/ b \in S
      PROVE  Within(S \cup {b}, m)
  <2>1. CASE b \in S
    <3>1. S \cup {b} = S
      BY <2>1
    <3> QED BY <3>1
  <2>2. CASE b \notin S
    <3>1. IsFiniteSet(S \cup {b}) /\ Cardinality(S \cup {b}) = Cardinality(S) + 1
      BY <2>2, FS_AddElement DEF Within
    <3>2. Cardinality(S) \in Nat
      BY FS_CardinalityType DEF Within
    <3> QED BY <1>2, <2>2, <3>1, <3>2, SMTT(30) DEF Within
  <2> QED BY <2>1, <2>2
<1> QED BY <1>1, <1>2

\* store_orphan_block makes room before it stores.
LEMMA OrphansWithin ==
    ASSUME orphans \subseteq Block, Within(orphans, MaxOrphans), NEW b
    PROVE  Within(OrphansWith(b), MaxOrphans)
<1>0. MaxOrphans \in Nat /\ MaxOrphans > 0 /\ Cardinality(orphans) \in Nat
  BY ForkChoiceAssumption, FS_CardinalityType, SMTT(30) DEF Within
<1>1. CASE Cardinality(orphans) < MaxOrphans
  BY <1>0, <1>1, WithinLimit, SMTT(30) DEF OrphansWith
<1>2. CASE ~ (Cardinality(orphans) < MaxOrphans)
  <2> DEFINE F == {x \in orphans : ~ IsFirst(x, orphans)}
  <2>1. OrphansWith(b) = F \cup {b} /\ Cardinality(orphans) >= MaxOrphans
    BY <1>0, <1>2, SMTT(30) DEF OrphansWith
  <2>2. orphans /= {}
    BY <1>0, <2>1, FS_EmptySet, SMTT(30)
  <2>3. PICK x \in orphans : IsFirst(x, orphans)
    BY <2>2, FirstExists
  <2>4. /\ IsFiniteSet(orphans \ {x})
        /\ Cardinality(orphans \ {x}) = Cardinality(orphans) - 1
    BY <2>3, FS_RemoveElement DEF Within
  <2>5. F \subseteq orphans \ {x}
    BY <2>3
  <2>6. IsFiniteSet(F) /\ Cardinality(F) <= Cardinality(orphans) - 1 /\ Cardinality(F) \in Nat
    BY <2>4, <2>5, FS_Subset, FS_CardinalityType, SMTT(30)
  <2>7. Within(F, MaxOrphans) /\ Cardinality(F) < MaxOrphans
    BY <1>0, <2>6, SMTT(30) DEF Within
  <2> HIDE DEF F
  <2> QED BY <1>0, <2>1, <2>7, WithinLimit
<1> QED BY <1>1, <1>2

\* Every step stores one orphan, or only takes some away.
LEMMA OrphanMoves ==
    ASSUME [Next]_vars
    PROVE  orphans' \subseteq orphans \/ \E b \in Block : orphans' = OrphansWith(b)
<1> DEFINE Goal == orphans' \subseteq orphans \/ \E b \in Block : orphans' = OrphansWith(b)
<1>1. CASE UNCHANGED vars
  BY <1>1 DEF vars
<1>2. CASE Arrival
  <2>1. ASSUME NEW b \in Block, P2pFuture(b) \/ P2pExtends(b) \/ RpcExtends(b) PROVE Goal
    BY <2>1 DEF P2pFuture, P2pExtends, RpcExtends, pools
  <2>2. ASSUME NEW b \in Block, NEW a \in {"p2p", "rpc"}, ImportStep(a, b) PROVE Goal
    BY <2>2 DEF ImportStep, QueueOrphan, QueueLosing, QueueBranch, QueueIncomplete, Queues
  <2> QED BY <1>2, <2>1, <2>2 DEF Arrival
<1>3. CASE P2pSecond \/ PeerHello
  BY <1>3 DEF P2pSecond, P2pNotNext, P2pInsert, P2pInvalid, P2pMaintain, P2pKick,
              PeerHello, pools
<1>4. ASSUME NEW a \in {"p2p", "rpc"}, DrainStep(a) PROVE orphans' \subseteq orphans
  BY <1>4 DEF DrainStep, DrainInsert, DrainInvalid, DrainSkip, DrainLosing, DrainPromote,
              DrainPromoteFails, Attached, Aborts, DrainNextPass, DrainDone, pools
<1>5. ASSUME NEW a \in Actor, StageStep(a) PROVE orphans' = orphans
  BY <1>5 DEF StageStep, StageCommitsDirectly, StageDirectFails, StageIsFork,
              StageCapture, StageDeferred, StageReplayAncestor, StageReplaySuffix,
              StagePublish, StageOvertaken, pools
<1>6. CASE RecStep \/ Maintain \/ Restart
  BY <1>6 DEF RecStep, RecAssemble, RecCannotAssemble, RecChoosePath, RecImportBatch,
              RecBatchFails, RecFinish, Maintain, Restart, pools
<1> QED BY <1>1, <1>2, <1>3, <1>4, <1>5, <1>6 DEF Next

\* Both pools are within their limits.
BoundsInv == Within(orphans, MaxOrphans) /\ Within(DOMAIN candWork, MaxCandidates)

\* Every step keeps the orphans and the candidates within their limits.
LEMMA BoundsStep == IInv /\ BoundsInv /\ [Next]_vars => BoundsInv'
<1> SUFFICES ASSUME IInv, BoundsInv, [Next]_vars PROVE BoundsInv'
  OBVIOUS
<1>0. MaxOrphans \in Nat /\ MaxCandidates \in Nat /\ orphans \subseteq Block
  BY ForkChoiceAssumption, TypeParts DEF IInv, PoolsTyped
<1>1. Within(orphans', MaxOrphans)
  BY <1>0, OrphanMoves, OrphansWithin, WithinLimit DEF BoundsInv
<1>2. Within(DOMAIN candWork', MaxCandidates)
  <2>1. CASE UNCHANGED candWork
    BY <2>1 DEF BoundsInv
  <2>2. ASSUME NEW b \in Block, Files(b)
        PROVE  Within(DOMAIN candWork', MaxCandidates)
    <3>1. DOMAIN candWork' = DOMAIN candWork \cup {b}
      BY <2>2 DEF Files, PoolWith
    <3>2. Cardinality(DOMAIN candWork) < MaxCandidates \/ b \in DOMAIN candWork
      <4>1. Cardinality(DOMAIN candWork) \in Nat
        BY FS_CardinalityType DEF BoundsInv, Within
      <4> QED BY <1>0, <2>2, <4>1, SMTT(30) DEF Files, PoolFull
    <3> QED BY <1>0, <3>1, <3>2, WithinLimit DEF BoundsInv
  <2>3. CASE (\E S : candWork' = PoolWithout(S)) \/ candWork' = EmptyPool
    <3>1. DOMAIN candWork' \subseteq DOMAIN candWork
      BY <2>3 DEF PoolWithout, EmptyPool
    <3> QED BY <1>0, <3>1, WithinLimit DEF BoundsInv
  <2> QED BY <2>1, <2>2, <2>3, PoolMoves
<1> QED BY <1>1, <1>2 DEF BoundsInv

(***************************************************************************)
(* PoolsBounded: neither pool ever exceeds its limit, whoever fills it and *)
(* whatever the blocks: store_orphan_block evicts exactly one block of a   *)
(* full pool, and store_candidate_block refuses when its pool is full.     *)
(***************************************************************************)
THEOREM PoolLimits == Spec => []PoolsBounded
<1>1. Init => BoundsInv
  <2>1. Within({}, MaxOrphans) /\ Within({}, MaxCandidates)
    BY ForkChoiceAssumption, FS_EmptySet, SMTT(30) DEF Within
  <2> QED BY <2>1 DEF Init, BoundsInv, EmptyPool
<1>2. BoundsInv => PoolsBounded
  BY DEF BoundsInv, Within, PoolsBounded
<1> QED BY <1>1, <1>2, BoundsStep, Inductive, PTL DEF Spec

-----------------------------------------------------------------------------
(* The accounts of the tip.                                                *)

(***************************************************************************)
(* Thread a has assembled a branch.  A miner's thread drains the orphans   *)
(* before it stages the branch.                                            *)
(***************************************************************************)
Carries(a) ==
    \/ pc[a] \in {"stage", "capture", "replay", "publish", "check", "batch"}
    \/ pc[a] = "drain" /\ storage = a /\ resume = "stage"

\* The branch that a thread carries is valid above its common ancestor.
SoundJob(a) ==
    /\ Carries(a) => SoundAbove(block[a], fork[a])
    /\ pc[a] = "assemble" => Sound(block[a])

AccountsInv ==
    /\ AccountsMatchTip
    /\ DOMAIN candWork \cap BadHeader = {}
    /\ \A a \in Actor : SoundJob(a)

\* A thread that a step does not concern, and one that carries no branch.
KeepsJob(x) ==
    /\ pc'[x] = pc[x] /\ block'[x] = block[x] /\ fork'[x] = fork[x]
    /\ storage' = x /\ resume' = "stage" => storage = x /\ resume = "stage"

CarriesNothing(x) ==
    \/ pc'[x] \in {"idle", "second", "kick", "maintain"}
    \/ pc'[x] = "drain" /\ resume' /= "stage"

\* A job that is kept, or dropped, stays free of invalid headers.
LEMMA KeptJobIsSound ==
    ASSUME NEW x \in Actor, SoundJob(x), KeepsJob(x) \/ CarriesNothing(x)
    PROVE  SoundJob(x)'
<1>1. CASE KeepsJob(x)
  BY <1>1 DEF SoundJob, Carries, KeepsJob, SoundAbove, Sound
<1>2. CASE CarriesNothing(x)
  BY <1>2 DEF SoundJob, Carries, CarriesNothing
<1> QED BY <1>1, <1>2

\* A branch that candidate_branch_from_storage assembles passed header
\* validation block by block when it was filed.
LEMMA AssembledIsSound ==
    ASSUME BadBody = {}, DOMAIN candWork \cap BadHeader = {}, NEW n \in Nat,
           NEW b \in Block, Sound(b), Assembles(b, n)
    PROVE  SoundAbove(b, n)
<1> SUFFICES ASSUME NEW m \in n+1..Number[b] PROVE Sound(Ancestor[b][m])
  BY DEF SoundAbove
<1>1. Number[b] \in Nat /\ Ancestor[b][Number[b]] = b
  BY TreeTypes
<1>2. CASE m = Number[b]
  BY <1>1, <1>2
<1>3. CASE m /= Number[b]
  <2>1. m \in n+1..Number[b]-1
    BY <1>1, <1>3, SMTT(30)
  <2> QED BY <2>1 DEF Assembles, Sound
<1> QED BY <1>2, <1>3

\* Without bad bodies, what a thread is about to publish stays valid.
LEMMA SoundJobsStep ==
    ASSUME BadBody = {}, IInv, AccountsInv, [Next]_vars, NEW x \in Actor
    PROVE  SoundJob(x)'
<1> DEFINE Rest(y) == KeepsJob(y) \/ CarriesNothing(y)
<1>0. /\ LocalsTyped /\ {"p2p", "rpc"} \subseteq Actor /\ "rec" \in Actor /\ SoundJob(x)
      /\ DOMAIN candWork \subseteq Block /\ DOMAIN candWork \cap BadHeader = {}
      /\ best \in Nat /\ Free \notin Actor
      /\ resume \in {"idle", "kick", "maintain", "stage"}
  BY TypeParts, ThreadParts
     DEF IInv, SharedTyped, PoolsTyped, ChainTyped, AccountsInv, Actor, Free
<1>a. SUFFICES ASSUME ~ Rest(x) PROVE SoundJob(x)'
  BY <1>0, KeptJobIsSound
<1>1. UNCHANGED <<pc, block, fork, storage, resume>> => Rest(x)
  BY DEF KeepsJob
<1>2. ASSUME NEW a \in Actor, x /= a, NEW label, Goto(a, label),
             \A y \in Actor \ {a} : block'[y] = block[y] /\ fork'[y] = fork[y],
             storage' \in {Free, a} \/ UNCHANGED <<storage, resume>>
      PROVE  Rest(x)
  BY <1>0, <1>2 DEF Goto, LocalsTyped, KeepsJob
<1>3. ASSUME NEW a \in Actor, Return(a),
             storage' = Free \/ UNCHANGED <<storage, resume>>
      PROVE  Rest(x)
  <2>1. Goto(a, "idle") /\ \A y \in Actor \ {a} : block'[y] = block[y] /\ fork'[y] = fork[y]
    BY <1>0, <1>3 DEF Return, Set, LocalsTyped
  <2>2. x = a => CarriesNothing(x)
    BY <1>0, <2>1 DEF Goto, LocalsTyped, CarriesNothing
  <2> QED BY <1>2, <1>3, <2>1, <2>2
<1>4. CASE UNCHANGED vars
  BY <1>a, <1>1, <1>4 DEF vars
<1>5. CASE Arrival
  <2>1. ASSUME NEW b \in Block, P2pFuture(b) \/ RpcExtends(b) PROVE Rest(x)
    BY <1>1, <2>1 DEF P2pFuture, RpcExtends, job, draining
  <2>2. ASSUME NEW b \in Block, P2pExtends(b) PROVE Rest(x)
    BY <1>0, <2>2
       DEF P2pExtends, Goto, Set, LocalsTyped, KeepsJob, CarriesNothing, draining
  <2>3. ASSUME NEW b \in Block, NEW a \in {"p2p", "rpc"}, QueueOrphan(a, b) \/ QueueLosing(a, b)
        PROVE  Rest(x)
    <3>1. /\ UNCHANGED fork
          /\ UNCHANGED block \/ block' = Set(block, a, b)
          /\ \/ Goto(a, "drain") /\ resume' = "idle" /\ storage' = a
             \/ Goto(a, "second") /\ UNCHANGED <<storage, resume>>
      BY <2>3 DEF QueueOrphan, QueueLosing, Queues, NothingToReplay, StartDrain, draining
    <3> QED BY <1>0, <3>1 DEF Goto, Set, LocalsTyped, KeepsJob, CarriesNothing
  <2>4. ASSUME NEW b \in Block, NEW a \in {"p2p", "rpc"}, QueueBranch(a, b) PROVE SoundJob(x)'
    <3>1. PICK n \in 0..best : Assembles(b, n) /\ fork' = Set(fork, a, n)
      BY <2>4 DEF QueueBranch
    <3>2. /\ block' = Set(block, a, b) /\ b \notin BadHeader
          /\ \/ Goto(a, "drain") /\ storage' = a
             \/ Goto(a, "stage") /\ UNCHANGED <<storage, resume>>
      BY <2>4 DEF QueueBranch, Queues, ReplayNext, StartDrain, draining
    <3>3. CASE x /= a
      BY <1>0, <1>a, <3>1, <3>2, <3>3 DEF Goto, Set, LocalsTyped, KeepsJob
    <3>4. CASE x = a
      <4>1. SoundAbove(b, n)
        <5>1. n \in Nat /\ Sound(b)
          BY <1>0, <3>1, <3>2, SMTT(30) DEF Sound
        <5>2. BadBody = {} /\ DOMAIN candWork \cap BadHeader = {} /\ Assembles(b, n)
          BY <1>0, <3>1
        <5> QED BY <5>1, <5>2, AssembledIsSound
      <4>2. block'[x] = b /\ fork'[x] = n /\ pc'[x] /= "assemble"
        BY <1>0, <3>1, <3>2, <3>4 DEF Goto, Set, LocalsTyped
      <4> QED BY <4>1, <4>2 DEF SoundJob, SoundAbove, Sound
    <3> QED BY <3>3, <3>4
  <2>5. ASSUME NEW b \in Block, NEW a \in {"p2p", "rpc"}, QueueIncomplete(a, b) PROVE Rest(x)
    BY <1>1, <2>5 DEF QueueIncomplete, Queues, draining
  <2> HIDE DEF Rest
  <2> QED BY <1>a, <1>5, <2>1, <2>2, <2>3, <2>4, <2>5 DEF Arrival, ImportStep
<1>6. CASE P2pSecond \/ PeerHello
  <2>1. CASE P2pNotNext \/ P2pInsert
    <3>1. /\ Goto("p2p", "drain") /\ storage' = "p2p" /\ resume' /= "stage"
          /\ block' = Set(block, "p2p", Genesis) /\ UNCHANGED fork
      BY <2>1 DEF P2pNotNext, P2pInsert, StartDrain
    <3>2. Rest(x)
      BY <1>0, <3>1 DEF Goto, Set, LocalsTyped, KeepsJob, CarriesNothing
    <3> QED BY <1>a, <3>2
  <2>2. CASE P2pInvalid
    BY <1>0, <1>a, <1>3, <2>2 DEF P2pInvalid, draining
  <2>3. CASE P2pMaintain
    <3>1. Goto("p2p", "idle") /\ UNCHANGED <<block, fork, storage, resume>>
      BY <2>3 DEF P2pMaintain, job, draining
    <3>2. Rest(x)
      BY <1>0, <3>1 DEF Goto, LocalsTyped, KeepsJob, CarriesNothing
    <3> QED BY <1>a, <3>2
  <2>4. CASE P2pKick \/ PeerHello
    <3>1. PICK p \in [Actor -> Labels] :
             /\ StartCandidateRecovery(p)
             /\ \A y \in Actor : p[y] = pc[y] \/ p[y] = "idle"
      <4>1. CASE P2pKick
        <5> DEFINE q == Set(pc, "p2p", "idle")
        <5>1. /\ q \in [Actor -> Labels] /\ StartCandidateRecovery(q)
              /\ \A y \in Actor : q[y] = pc[y] \/ q[y] = "idle"
          BY <1>0, <4>1 DEF P2pKick, LocalsTyped, Set, Labels
        <5> HIDE DEF q
        <5> QED BY <5>1
      <4>2. CASE PeerHello
        BY <1>0, <4>2 DEF PeerHello, LocalsTyped
      <4> QED BY <2>4, <4>1, <4>2
    <3>2. UNCHANGED <<fork, storage, resume>>
      BY <2>4 DEF P2pKick, PeerHello, draining
    <3>3. CASE pc' = p /\ UNCHANGED block
      BY <1>a, <3>1, <3>2, <3>3 DEF KeepsJob, CarriesNothing
    <3>4. CASE /\ pc' = Set(p, "rec", "assemble")
               /\ \E c \in Selectable : block' = Set(block, "rec", c)
      <4>1. CASE x /= "rec"
        BY <1>0, <1>a, <3>1, <3>2, <3>4, <4>1
           DEF KeepsJob, CarriesNothing, Set, LocalsTyped
      <4>2. CASE x = "rec"
        BY <1>0, <3>1, <3>4, <4>2
           DEF SoundJob, Carries, Selectable, Sound, Set, LocalsTyped
      <4> QED BY <4>1, <4>2
    <3> QED BY <3>1, <3>3, <3>4 DEF StartCandidateRecovery
  <2> QED BY <1>6, <2>1, <2>2, <2>3, <2>4 DEF P2pSecond
<1>7. ASSUME NEW a \in {"p2p", "rpc"}, DrainStep(a) PROVE SoundJob(x)'
  <2>1. ASSUME NEW b \in todo, \/ DrainInsert(a, b) \/ DrainSkip(a, b)
                               \/ DrainLosing(a, b) \/ DrainPromote(a, b)
        PROVE  Rest(x)
    BY <1>1, <2>1 DEF DrainInsert, DrainSkip, DrainLosing, DrainPromote, Attached, job
  <2>2. ASSUME NEW b \in todo, DrainInvalid(a, b) \/ DrainPromoteFails(a, b) PROVE Rest(x)
    BY <1>0, <1>3, <2>2 DEF DrainInvalid, DrainPromoteFails, Aborts
  <2>3. CASE DrainNextPass(a)
    BY <1>a, <1>1, <2>3 DEF DrainNextPass, job
  <2>4. CASE DrainDone(a)
    <3>1. /\ pc[a] = "drain" /\ storage = a /\ storage' = Free /\ Goto(a, resume)
          /\ UNCHANGED <<block, fork>>
      BY <2>4 DEF DrainDone, job
    <3>2. CASE x /= a
      BY <1>0, <1>a, <3>1, <3>2 DEF Goto, LocalsTyped, KeepsJob
    <3>3. CASE x = a
      <4>1. pc'[x] = resume /\ block'[x] = block[x] /\ fork'[x] = fork[x]
        BY <1>0, <3>1, <3>3 DEF Goto, LocalsTyped
      <4>2. CASE resume = "stage"
        BY <1>0, <3>1, <3>3, <4>1, <4>2 DEF SoundJob, Carries, SoundAbove, Sound
      <4>3. CASE resume /= "stage"
        BY <1>0, <1>a, <4>1, <4>3 DEF CarriesNothing
      <4> QED BY <4>2, <4>3
    <3> QED BY <3>2, <3>3
  <2> HIDE DEF Rest
  <2> QED BY <1>a, <1>7, <2>1, <2>2, <2>3, <2>4 DEF DrainStep
<1>8. ASSUME NEW a \in Actor, StageStep(a) PROVE SoundJob(x)'
  <2>0. UNCHANGED <<storage, resume>>
    BY <1>8
       DEF StageStep, StageCommitsDirectly, StageDirectFails, StageIsFork, StageCapture,
           StageDeferred, StageReplayAncestor, StageReplaySuffix, StagePublish,
           StageOvertaken, draining
  <2>1. CASE Return(a)
    BY <1>a, <1>3, <2>0, <2>1
  <2>2. CASE ~ Return(a)
    <3>1. /\ pc[a] \in {"stage", "capture", "replay"} /\ UNCHANGED <<block, fork>>
          /\ \/ UNCHANGED pc
             \/ \E label \in {"capture", "replay", "publish"} : Goto(a, label)
      BY <1>8, <2>2
         DEF StageStep, StageCommitsDirectly, StageDirectFails, StageIsFork, StageCapture,
             StageDeferred, StageReplayAncestor, StageReplaySuffix, StagePublish,
             StageOvertaken, AtStage, job
    <3>2. CASE x /= a
      BY <1>0, <1>a, <2>0, <3>1, <3>2 DEF Goto, LocalsTyped, KeepsJob
    <3>3. CASE x = a
      <4>1. /\ pc'[x] \in {"stage", "capture", "replay", "publish"}
            /\ block'[x] = block[x] /\ fork'[x] = fork[x]
        BY <1>0, <3>1, <3>3 DEF Goto, LocalsTyped
      <4> QED BY <1>0, <3>1, <3>3, <4>1 DEF SoundJob, Carries, SoundAbove, Sound
    <3> QED BY <3>2, <3>3
  <2> QED BY <2>1, <2>2
<1>9. CASE RecStep
  <2>0. UNCHANGED <<storage, resume>> /\ block["rec"] \in Block
    BY <1>0, <1>9
       DEF RecStep, RecAssemble, RecCannotAssemble, RecChoosePath, RecImportBatch,
           RecBatchFails, RecFinish, draining, LocalsTyped
  <2>1. CASE RecAssemble
    <3>1. PICK n \in 0..best : Assembles(block["rec"], n) /\ fork' = Set(fork, "rec", n)
      BY <2>1 DEF RecAssemble
    <3>2. Goto("rec", "check") /\ UNCHANGED block /\ pc["rec"] = "assemble"
      BY <2>1 DEF RecAssemble, AtStage
    <3>3. CASE x /= "rec"
      BY <1>0, <1>a, <2>0, <3>1, <3>2, <3>3 DEF Goto, Set, LocalsTyped, KeepsJob
    <3>4. CASE x = "rec"
      <4>1. SoundAbove(block["rec"], n)
        <5>1. n \in Nat
          BY <1>0, <3>1, SMTT(30)
        <5>2. Sound(block["rec"])
          BY <1>0, <3>2, <3>4 DEF SoundJob
        <5>3. /\ BadBody = {} /\ DOMAIN candWork \cap BadHeader = {}
              /\ Assembles(block["rec"], n) /\ block["rec"] \in Block
          BY <1>0, <2>0, <3>1
        <5> QED BY <5>1, <5>2, <5>3, AssembledIsSound
      <4>2. block'[x] = block["rec"] /\ fork'[x] = n /\ pc'[x] = "check"
        BY <1>0, <3>1, <3>2, <3>4 DEF Goto, Set, LocalsTyped
      <4> QED BY <4>1, <4>2 DEF SoundJob, SoundAbove, Sound
    <3> QED BY <3>3, <3>4
  <2>2. CASE RecCannotAssemble \/ RecBatchFails \/ RecFinish
    <3>1. Return("rec")
      BY <2>2 DEF RecCannotAssemble, RecBatchFails, RecFinish
    <3> QED BY <1>0, <1>a, <1>3, <2>0, <3>1
  <2>3. CASE RecChoosePath
    <3>1. /\ pc["rec"] = "check" /\ UNCHANGED <<block, fork>>
          /\ \E label \in {"batch", "stage"} : Goto("rec", label)
      BY <2>3 DEF RecChoosePath, AtStage, job
    <3>2. CASE x /= "rec"
      BY <1>0, <1>a, <2>0, <3>1, <3>2 DEF Goto, LocalsTyped, KeepsJob
    <3>3. CASE x = "rec"
      <4>1. pc'[x] \in {"batch", "stage"} /\ block'[x] = block[x] /\ fork'[x] = fork[x]
        BY <1>0, <3>1, <3>3 DEF Goto, LocalsTyped
      <4> QED BY <1>0, <3>1, <3>3, <4>1 DEF SoundJob, Carries, SoundAbove, Sound
    <3> QED BY <3>2, <3>3
  <2>4. CASE RecImportBatch
    <3>1. PICK last \in 0..Number[block["rec"]] :
             ImportsBatch(last) /\ fork' = Set(fork, "rec", last)
      BY <2>4 DEF RecImportBatch
    <3>2. UNCHANGED <<pc, block>> /\ pc["rec"] = "batch"
      BY <2>4 DEF RecImportBatch, ImportsBatch, AtStage
    <3>3. fork["rec"] \in Nat /\ Number[block["rec"]] \in Nat /\ last > fork["rec"]
      BY <1>0, <2>0, <3>1, TreeTypes, ForkChoiceAssumption, SMTT(30) DEF ImportsBatch, LocalsTyped
    <3>4. CASE x /= "rec"
      BY <1>0, <1>a, <2>0, <3>1, <3>2, <3>4 DEF Set, LocalsTyped, KeepsJob
    <3>5. CASE x = "rec"
      <4>1. SoundAbove(block["rec"], fork["rec"])
        BY <1>0, <3>2, <3>5 DEF SoundJob, Carries
      <4>2. SoundAbove(block["rec"], last)
        BY <3>3, <4>1, SMTT(30) DEF SoundAbove
      <4>3. block'[x] = block["rec"] /\ fork'[x] = last /\ pc'[x] = "batch"
        BY <1>0, <3>1, <3>2, <3>5 DEF Set, LocalsTyped
      <4> QED BY <4>2, <4>3 DEF SoundJob, SoundAbove, Sound
    <3> QED BY <3>4, <3>5
  <2> QED BY <1>9, <2>1, <2>2, <2>3, <2>4, SMTT(30) DEF RecStep
<1>10. CASE Maintain
  BY <1>a, <1>1, <1>10 DEF Maintain, job, draining
<1>11. CASE Restart
  BY <1>a, <1>11 DEF Restart, CarriesNothing
<1> HIDE DEF Rest
<1> QED BY <1>4, <1>5, <1>6, <1>7, <1>8, <1>9, <1>10, <1>11, SMTT(30) DEF Next

\* Without bad bodies, every step keeps the accounts with the tip.
LEMMA AccountsStep ==
    ASSUME BadBody = {}, IInv, AccountsInv, [Next]_vars
    PROVE  AccountsInv'
<1>1. AccountsMatchTip'
  <2>1. ~ StopsHalfWay
    <3> SUFFICES ASSUME NEW a \in Actor, StageDirectFails(a) PROVE FALSE
      BY DEF StopsHalfWay
    <3>1. pc[a] = "stage" /\ accounts = Tip
      BY ZenonT(30) DEF StageDirectFails, AtStage, AccountsInv, AccountsMatchTip
    <3>2. SoundAbove(block[a], fork[a])
      BY <3>1 DEF AccountsInv, SoundJob, Carries
    <3> QED BY <3>1, <3>2 DEF StageDirectFails, SoundAbove
  <2>2. CASE UNCHANGED chain
    BY <2>2 DEF chain, AccountsInv, AccountsMatchTip, Tip
  <2>3. ASSUME NEW b \in Block, NEW n \in 0..best, Moves(b, n), accounts' = b
        PROVE  AccountsMatchTip'
    <3>1. ChainOK
      BY TypeParts DEF IInv, ChainOK
    <3>2. Tip' = b
      BY <2>3, <3>1, MovesKeepsChain
    <3> QED BY <2>3, <3>2 DEF AccountsMatchTip
  <2> QED BY <2>1, <2>2, <2>3, ChainMoves
<1>2. (DOMAIN candWork \cap BadHeader = {})'
  <2>1. CASE UNCHANGED candWork
    BY <2>1 DEF AccountsInv
  <2>2. ASSUME NEW b \in Block, Files(b)
        PROVE  (DOMAIN candWork \cap BadHeader = {})'
    BY <2>2 DEF Files, PoolWith, AccountsInv
  <2>3. CASE (\E S : candWork' = PoolWithout(S)) \/ candWork' = EmptyPool
    BY <2>3 DEF PoolWithout, EmptyPool, AccountsInv
  <2> QED BY <2>1, <2>2, <2>3, PoolMoves
<1>3. \A a \in Actor : SoundJob(a)'
  BY SoundJobsStep
<1> QED BY <1>1, <1>2, <1>3 DEF AccountsInv

(***************************************************************************)
(* AccountsMatchTip: if every block whose header validates also executes,  *)
(* the account keys are those of the tip after every step of every thread. *)
(* Header validation alone keeps the pool's branches valid, so that        *)
(* commit_direct_candidate_extension never stops half-way.  The hypothesis *)
(* cannot be dropped: a block whose body fails stops it after the blocks   *)
(* below were indexed and before their accounts are written.               *)
(***************************************************************************)
THEOREM AccountsFollowTip == BadBody = {} => (Spec => []AccountsMatchTip)
<1> SUFFICES ASSUME BadBody = {} PROVE Spec => []AccountsMatchTip
  OBVIOUS
<1>1. Init => AccountsInv
  <2> SUFFICES ASSUME Init PROVE AccountsInv
    OBVIOUS
  <2>1. \A a \in Actor : pc[a] = "idle"
    BY DEF Init
  <2>2. \A a \in Actor : SoundJob(a)
    BY <2>1 DEF SoundJob, Carries
  <2>3. AccountsMatchTip /\ DOMAIN candWork = {}
    BY SMTT(30) DEF Init, AccountsMatchTip, Tip, EmptyPool
  <2> QED BY <2>2, <2>3 DEF AccountsInv
<1>2. IInv /\ AccountsInv /\ [Next]_vars => AccountsInv'
  BY AccountsStep
<1>3. AccountsInv => AccountsMatchTip
  BY DEF AccountsInv
<1> QED BY <1>1, <1>2, <1>3, Inductive, PTL DEF Spec

(***************************************************************************)
(* Block import and fork choice implement Ledger.                          *)
(***************************************************************************)

(* On the path to a block, the parent of the block at one height is the    *)
(* block at the height below.                                              *)
LEMMA StepOnPath ==
    ASSUME NEW t \in Block, NEW n \in 1..Number[t]
    PROVE  Parent[Ancestor[t][n]] = Ancestor[t][n - 1]
<1>0. Number[t] \in Nat /\ n \in 0..Number[t] /\ n - 1 \in 0..n
  BY HeaderTypes, SMTT(30)
<1>1. PICK b \in Block : b = Ancestor[t][n] /\ Number[b] = n
  BY <1>0, AncestorIsBlock
<1>2. Ancestor[b][n - 1] = Ancestor[t][n - 1]
  BY <1>0, <1>1, Ancestry
<1>3. b /= Genesis
  <2>1. Number[Genesis] = 0
    BY BlockTreeAssumption
  <2> QED BY <1>1, <2>1, SMTT(30)
<1>4. Number[Parent[b]] = n - 1
  <2>1. Parent[b] \in Block /\ n = Number[Parent[b]] + 1
    BY <1>1, <1>3, TreeTypes
  <2>2. Number[Parent[b]] \in Nat
    BY <2>1, TreeTypes
  <2> QED BY <2>1, <2>2, SMTT(30)
<1>5. Ancestor[b][n - 1] = Parent[b]
  BY <1>3, <1>4, ParentAncestor DEF IsAncestor
<1> QED BY <1>1, <1>2, <1>5

\* A canonical index c of height m that is one sound chain reads as a ledger
\* that ends in its tip.
LEMMA ChainIsLedger ==
    ASSUME NEW m \in Nat, NEW c \in [0..m -> Block], Number[c[m]] = m,
           \A n \in 0..m : c[n] = Ancestor[c[m]][n] /\ Sound(c[n]),
           NEW s, s = [i \in 1..m+1 |-> c[i - 1]]
    PROVE  Promise!IsLedger(s) /\ Len(s) = m + 1 /\ Promise!Top(s) = c[m]
<1>1. s \in Seq(Block) /\ Len(s) = m + 1 /\ \A i \in 1..m+1 : s[i] = c[i - 1]
  BY SMTT(30)
<1>2. c[m] \in Block
  BY SMTT(30)
<1>3. s[1] = Genesis
  <2>1. s[1] = Ancestor[c[m]][0]
    BY <1>1, SMTT(30)
  <2> QED BY <1>2, <2>1, BlockTreeAssumption
<1>4. ASSUME NEW i \in 2..m+1
      PROVE  s[i] \in {b \in Block : Sound(b)} /\ Parent[s[i]] = s[i - 1]
  <2>1. i - 1 \in 0..m /\ i - 2 \in 0..m /\ i - 1 \in 1..m /\ (i - 1) - 1 = i - 2
    BY <1>4, SMTT(30)
  <2>2. s[i] = c[i - 1] /\ s[i - 1] = c[i - 2]
    BY <1>1, <2>1, SMTT(30)
  <2>3. Parent[Ancestor[c[m]][i - 1]] = Ancestor[c[m]][i - 2]
    BY <1>2, <2>1, StepOnPath, SMTT(30)
  <2> QED BY <2>1, <2>2, <2>3
<1>5. s /= <<>> /\ s[Len(s)] = c[m]
  BY <1>1, SMTT(30)
<1> QED
  BY <1>1, <1>3, <1>4, <1>5 DEF Promise!IsLedger, Promise!Top

\* The tip determines the ledger: a chain is the ancestors of its tip.
LEMMA SameTipSameLedger ==
    ASSUME best \in Nat, CanonicalIsOneSoundChain, CanonicalIsOneSoundChain', Tip' = Tip
    PROVE  Canonical' = Canonical
<1>1. best' = best
  BY DEF CanonicalIsOneSoundChain
<1>2. \A n \in 0..best : canon'[n] = canon[n]
  BY <1>1 DEF CanonicalIsOneSoundChain
<1> QED BY <1>1, <1>2, SMTT(30) DEF Canonical

\* A node that starts has the initial ledger.
LEMMA LedgerInit == Init => Promise!Init
BY SMTT(30) DEF Init, Promise!Init, Canonical

\* Every step is a step of the ledger, or leaves it alone.
LEMMA LedgerStep == IInv /\ IInv' /\ [Next]_vars => [Promise!Advance]_Canonical
<1> SUFFICES ASSUME IInv, IInv', [Next]_vars PROVE [Promise!Advance]_Canonical
  OBVIOUS
<1>1. /\ TypeOK /\ CanonicalIsOneSoundChain
      /\ TypeOK' /\ CanonicalIsOneSoundChain'
  BY DEF IInv
<1>2. CASE Tip' = Tip
  BY <1>1, <1>2, SameTipSameLedger DEF TypeOK
<1>3. CASE Tip' /= Tip
  <2>1. /\ Promise!IsLedger(Canonical') /\ Len(Canonical') = best' + 1
        /\ Promise!Top(Canonical') = Tip'
    BY <1>1, ChainIsLedger DEF TypeOK, CanonicalIsOneSoundChain, Tip, Canonical
  <2>2. Len(Canonical) = best + 1 /\ Promise!Top(Canonical) = Tip
    BY <1>1, ChainIsLedger DEF TypeOK, CanonicalIsOneSoundChain, Tip, Canonical
  <2>3. Number[Tip] = best /\ Number[Tip'] = best' /\ best \in Nat /\ best' \in Nat
    BY <1>1 DEF TypeOK, CanonicalIsOneSoundChain
  <2>4. \/ TotalWork[Tip'] > TotalWork[Tip]
        \/ /\ TotalWork[Tip'] = TotalWork[Tip]
           /\ best' = best => HashRank[Tip'] < HashRank[Tip]
    BY <1>3, <2>3, WorkStep
  <2>5. Len(Canonical') = Len(Canonical) => best' = best
    BY <2>1, <2>2, <2>3, SMTT(30)
  <2>6. Promise!Preferred(Canonical', Canonical)
    BY <2>1, <2>2, <2>4, <2>5 DEF Promise!Preferred
  <2> QED BY <2>1, <2>6 DEF Promise!Advance
<1> QED BY <1>2, <1>3

\* Gossip, miners and recovery together implement the ledger: readers see one
\* valid chain from genesis at every moment, and each change is one that fork
\* choice prefers.
THEOREM ForkImplementsLedger == Spec => ImplementsLedger
<1>1. IInv /\ IInv' /\ [Next]_vars => [Promise!Advance]_Canonical
  BY LedgerStep
<1> QED BY <1>1, LedgerInit, Inductive, PTL DEF Spec, ImplementsLedger, Promise!Spec
=============================================================================
