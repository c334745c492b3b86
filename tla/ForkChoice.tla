----------------------------- MODULE ForkChoice -----------------------------
(***************************************************************************)
(* Block import and fork choice of a full node.                            *)
(*                                                                         *)
(* Blocks reach the node by gossip (import_network_block), from a miner    *)
(* (rpc_submit_block), and out of the candidate pool (the worker of        *)
(* start_candidate_recovery).  All three read and change the canonical     *)
(* chain under the storage mutex, but a fork is replayed with that mutex   *)
(* released, so the chain may move between the moment a branch is          *)
(* assembled and the moment it is published.  Every section the code runs  *)
(* under the storage mutex is one action here, and drain_orphan_blocks,    *)
(* which is long, is a sequence of actions that keep the mutex.            *)
(***************************************************************************)
EXTENDS BlockTree, FiniteSets

CONSTANTS
    BadHeader,      \* blocks whose header fails validate_header_for_storage
    BadBody,        \* blocks whose execution does not yield their state root
    MaxOrphans,     \* MAX_ORPHANS
    MaxCandidates,  \* MAX_CANDIDATES
    MaxSuffix,      \* MAX_CANDIDATE_REPLAY_SUFFIX
    DrainPasses,    \* MAX_P2P_HEADERS, the passes of one orphan drain
    BatchSize,      \* blocks per import_direct_recovery_batch
    SnapshotEvery,  \* EXECUTION_SNAPSHOT_INTERVAL
    FinalityDepth,  \* FINALITY_CONFIRMATION_DEPTH
    RpcEnabled,     \* TRUE: miners submit blocks as well
    MayRestart      \* TRUE: the process may stop and start again

ASSUME ForkChoiceAssumption ==
    /\ BadHeader \subseteq Block \ {Genesis}
    /\ BadBody \subseteq Block \ {Genesis}
    /\ MaxOrphans \in Nat \ {0}
    /\ MaxCandidates \in Nat
    /\ MaxSuffix \in Nat
    /\ DrainPasses \in Nat \ {0}
    /\ BatchSize \in Nat \ {0}
    /\ SnapshotEvery \in Nat \ {0}
    /\ FinalityDepth \in Nat
    /\ RpcEnabled \in BOOLEAN /\ MayRestart \in BOOLEAN

Actor == {"p2p", "rpc", "rec"}
Free == "free"

VARIABLES
    \* the sled database
    best,        \* best:number
    canon,       \* header:number:N and block:number:N, by height
    accounts,    \* the block whose post-state the account keys hold
    orphans,     \* orphan:block:H
    candWork,    \* candidate:block:H with candidate:work:H
    quarantined, \* candidate:quarantine:H
    snapshot,    \* compact execution snapshot files, by height
    \* locks and shared flags
    storage,     \* the actor inside a drain, which keeps the storage mutex
    replay,      \* the owner of CANDIDATE_REPLAY_LOCK
    maintain,    \* canonical maintenance is scheduled
    \* the threads
    pc,          \* where each actor is
    block,       \* the block it imports, or the candidate tip it replays
    fork,        \* height of the common ancestor of its branch
    seen,        \* active_tip, the tip when its replay began
    applied,     \* the last block its replay overlay has applied
    \* drain_orphan_blocks
    todo,        \* orphans of this pass that are still to be tried
    progressed,  \* some orphan of this pass was attached
    passes,      \* passes begun
    resume       \* where the draining actor goes on after the drain

chain == <<best, canon, accounts>>
pools == <<orphans, candWork, quarantined>>
job == <<block, fork, seen, applied>>
draining == <<todo, progressed, passes, resume>>
vars == <<best, canon, accounts, orphans, candWork, quarantined, snapshot,
          storage, replay, maintain, pc, block, fork, seen, applied,
          todo, progressed, passes, resume>>

-----------------------------------------------------------------------------
(* Reading the database.                                                   *)

Tip == canon[best]

\* b is the canonical block of its height.
OnChain(b) == Number[b] <= best /\ canon[Number[b]] = b

\* SledStorage::block_by_hash and header_by_hash: canonical, then candidates.
Known(b) == OnChain(b) \/ b \in DOMAIN candWork

\* The check import_network_block and rpc_submit_block make for duplicates.
AlreadyCanonical(b) == Known(b)

ExtendsTip(b) == b /= Genesis /\ Parent[b] = Tip

\* The order of orphan_blocks: by height, then by key, which is the hash.
Before(a, b) ==
    \/ Number[a] < Number[b]
    \/ Number[a] = Number[b] /\ HashRank[a] < HashRank[b]

IsFirst(b, S) == b \in S /\ \A x \in S \ {b} : Before(b, x)

\* store_orphan_block: a full pool gives up its lowest block first.
OrphansWith(b) ==
    IF Cardinality(orphans) >= MaxOrphans
    THEN {x \in orphans : ~ IsFirst(x, orphans)} \cup {b}
    ELSE orphans \cup {b}

\* Mutation: builds on the work of the tip instead of the parent's height.
QueuedWorkOnTip(b) ==
    Work[b] + (IF Parent[b] \in DOMAIN candWork
               THEN candWork[Parent[b]] ELSE TotalWork[Tip])

\* The work queue_competing_block assigns to a block with a known parent.
QueuedWork(b) ==
    Work[b] + (IF Parent[b] \in DOMAIN candWork
               THEN candWork[Parent[b]]
               ELSE TotalWork[canon[Number[Parent[b]]]])

\* store_candidate_block, and the case in which the pool refuses it.
PoolWith(b) ==
    [x \in DOMAIN candWork \cup {b} |-> IF x = b THEN QueuedWork(b) ELSE candWork[x]]

\* Mutation: off by one at the limit of the pool.
PoolOverfull(b) ==
    b \notin DOMAIN candWork /\ Cardinality(DOMAIN candWork) > MaxCandidates

PoolFull(b) ==
    b \notin DOMAIN candWork /\ Cardinality(DOMAIN candWork) >= MaxCandidates

EmptyPool == [x \in {} |-> 0]

\* The queue's test: the candidate does not challenge the current tip.
NotCompetitive(b) ==
    \/ QueuedWork(b) < TotalWork[Tip]
    \/ /\ QueuedWork(b) = TotalWork[Tip]
       /\ Number[b] = best
       /\ HashRank[b] >= HashRank[Tip]

\* The walk of candidate_branch_from_storage from b stops at height n.
ForksAt(b, n) ==
    /\ n <= Number[b] /\ n <= best
    /\ canon[n] = Ancestor[b][n]
    /\ \A m \in n+1..Number[b] : m <= best => canon[m] /= Ancestor[b][m]

\* The suffix of b above height n is stored and within the replay limit.
Assembles(b, n) ==
    /\ Number[b] - n <= MaxSuffix
    /\ \A m \in n+1..Number[b]-1 : Ancestor[b][m] \in DOMAIN candWork

\* "candidate rejected": the walk took MaxSuffix steps and found no ancestor.
TooLong(b, n) ==
    /\ Number[b] - n > MaxSuffix
    /\ \A m \in Number[b]-MaxSuffix..Number[b]-1 : Ancestor[b][m] \in DOMAIN candWork

Sound(b) == b \notin BadHeader \cup BadBody

\* Mutation: the replay loop stops before the last block of the suffix.
SoundBelowTip(b, n) == \A m \in n+1..Number[b]-1 : Sound(Ancestor[b][m])

\* Replaying the suffix of b above height n succeeds.
SoundAbove(b, n) == \A m \in n+1..Number[b] : Sound(Ancestor[b][m])

\* The canonical index after the suffix of b above height n replaced its own.
Switched(b, n) ==
    [m \in 0..Number[b] |-> IF m <= n THEN canon[m] ELSE Ancestor[b][m]]

-----------------------------------------------------------------------------
(* Writing the database.                                                   *)

\* Mutation: best:number moves, the block itself is not indexed.
InsertNumberOnly(b) ==
    /\ best' = Number[b]
    /\ accounts' = b
    /\ UNCHANGED canon

\* NodeStorage::insert_block for a child of the tip.
Insert(b) ==
    /\ best' = Number[b]
    /\ canon' = Switched(b, best)
    /\ accounts' = b

\* Mutation: the blocks are published, the replayed accounts are not.
ReplaceBlocksOnly(b, n) ==
    /\ best' = Number[b]
    /\ canon' = Switched(b, n)
    /\ UNCHANGED accounts

\* publish_canonical_suffix, and the rebuild of promote_candidate_chain.
Replace(b, n) ==
    /\ best' = Number[b]
    /\ canon' = Switched(b, n)
    /\ accounts' = b

SuffixOf(b, n) == {Ancestor[b][m] : m \in n+1..Number[b]}

\* remove_candidate_blocks
PoolWithout(S) == [x \in DOMAIN candWork \ S |-> candWork[x]]

\* write_periodic_snapshot for tip b with account state st: a file at every
\* interval, and none below the interval that precedes the finalized height.
Snapshots(b, st) ==
    IF Number[b] = 0 \/ Number[b] % SnapshotEvery /= 0
    THEN snapshot
    ELSE [n \in {m \in DOMAIN snapshot : m >= Number[b] - FinalityDepth - SnapshotEvery}
                \cup {Number[b]} |->
            IF n = Number[b] THEN [block |-> b, state |-> st] ELSE snapshot[n]]

Goto(a, label) == pc' = [pc EXCEPT ![a] = label]

Set(f, a, v) == [f EXCEPT ![a] = v]

\* A thread returns: its locals are gone and it drops the replay lock.
Return(a) ==
    /\ Goto(a, "idle")
    /\ block' = Set(block, a, Genesis) /\ fork' = Set(fork, a, 0)
    /\ seen' = Set(seen, a, Genesis) /\ applied' = Set(applied, a, Genesis)
    /\ replay' = IF replay = a THEN Free ELSE replay

-----------------------------------------------------------------------------
Init ==
    /\ best = 0
    /\ canon = [n \in 0..0 |-> Genesis]
    /\ accounts = Genesis
    /\ orphans = {} /\ candWork = EmptyPool /\ quarantined = {}
    /\ snapshot = [n \in {} |-> [block |-> Genesis, state |-> Genesis]]
    /\ storage = Free /\ replay = Free /\ maintain = FALSE
    /\ pc = [a \in Actor |-> "idle"]
    /\ block = [a \in Actor |-> Genesis]
    /\ fork = [a \in Actor |-> 0]
    /\ seen = [a \in Actor |-> Genesis]
    /\ applied = [a \in Actor |-> Genesis]
    /\ todo = {} /\ progressed = FALSE /\ passes = 0 /\ resume = "idle"

-----------------------------------------------------------------------------
(* import_network_block and rpc_submit_block, up to the release of the     *)
(* storage mutex.  A known block, an unsound header, a full pool and an    *)
(* invalid child of the tip end the call without an effect.                *)

\* The blocks an importer may be handed, and when it may start on one.
Receives(a, b) ==
    /\ storage = Free /\ pc[a] = "idle"
    /\ a = "rpc" => RpcEnabled
    /\ b /= Genesis /\ ~ AlreadyCanonical(b)

\* "Bodies requested from a header range can arrive out of order."
P2pFuture(b) ==
    /\ Receives("p2p", b)
    /\ Number[b] > best + 1
    /\ orphans' = OrphansWith(b)
    /\ UNCHANGED <<chain, candWork, quarantined, snapshot, storage, replay,
                   maintain, pc, job, draining>>

\* A child of the tip leaves the first critical section as it came.
P2pExtends(b) ==
    /\ Receives("p2p", b)
    /\ ExtendsTip(b)
    /\ Goto("p2p", "second")
    /\ block' = Set(block, "p2p", b)
    /\ UNCHANGED <<chain, pools, snapshot, storage, replay, maintain, fork,
                   seen, applied, draining>>

\* queue_competing_block_pending applies to b.
Competes(a, b) ==
    /\ Receives(a, b)
    /\ ~ ExtendsTip(b)
    /\ a = "p2p" => Number[b] <= best + 1

\* The first pass over the orphans, with the storage mutex held.
StartDrain(a, after, pool) ==
    /\ storage' = a
    /\ todo' = pool
    /\ progressed' = FALSE
    /\ passes' = 1
    /\ resume' = after
    /\ Goto(a, "drain")

\* Where an importer goes when the queue names no branch to replay.
NothingToReplay(a, b, pool) ==
    IF a = "rpc"
    THEN StartDrain("rpc", "idle", pool) /\ UNCHANGED block
    ELSE /\ Goto("p2p", "second")
         /\ block' = Set(block, "p2p", b)
         /\ UNCHANGED <<storage, draining>>

\* ... and when it does: the miner's thread drains the orphans first.
ReplayNext(a) ==
    IF a = "rpc"
    THEN StartDrain("rpc", "stage", orphans)
    ELSE Goto("p2p", "stage") /\ UNCHANGED <<storage, draining>>

\* The parent is unknown: the block waits among the orphans.
QueueOrphan(a, b) ==
    /\ Competes(a, b)
    /\ ~ Known(Parent[b])
    /\ orphans' = OrphansWith(b)
    /\ NothingToReplay(a, b, OrphansWith(b))
    /\ UNCHANGED <<chain, candWork, quarantined, snapshot, replay, maintain,
                   fork, seen, applied>>

\* The block enters the candidate pool.
Queues(a, b) ==
    /\ Competes(a, b)
    /\ Known(Parent[b])
    /\ b \notin BadHeader
    /\ ~ PoolFull(b)
    /\ candWork' = PoolWith(b)
    /\ UNCHANGED <<chain, orphans, quarantined, snapshot, replay, maintain,
                   seen, applied>>

QueueLosing(a, b) ==
    /\ Queues(a, b)
    /\ NotCompetitive(b)
    /\ NothingToReplay(a, b, orphans)
    /\ UNCHANGED fork

QueueBranch(a, b) ==
    /\ Queues(a, b)
    /\ ~ NotCompetitive(b)
    /\ \E n \in 0..best :
          /\ ForksAt(b, n)
          /\ Assembles(b, n)
          /\ fork' = Set(fork, a, n)
    /\ block' = Set(block, a, b)
    /\ ReplayNext(a)

\* candidate_branch_from_storage fails; the candidate stays in the pool.
QueueIncomplete(a, b) ==
    /\ Queues(a, b)
    /\ ~ NotCompetitive(b)
    /\ \E n \in 0..best : ForksAt(b, n) /\ ~ Assembles(b, n)
    /\ UNCHANGED <<storage, pc, block, fork, draining>>

\* A block that validates on the account state found in the database.
Validates(b) == Sound(b) /\ accounts = Parent[b]

\* A miner's child of the tip is inserted at once, without a drain.
RpcExtends(b) ==
    /\ Receives("rpc", b)
    /\ ExtendsTip(b)
    /\ Validates(b)
    /\ Insert(b)
    /\ maintain' = TRUE
    /\ UNCHANGED <<pools, snapshot, storage, replay, pc, job, draining>>

-----------------------------------------------------------------------------
(* The second critical section of import_network_block.                    *)

\* Still not a child of the tip: drain the orphans, then kick recovery.
P2pNotNext ==
    /\ storage = Free /\ pc["p2p"] = "second"
    /\ ~ ExtendsTip(block["p2p"])
    /\ StartDrain("p2p", "kick", orphans)
    /\ block' = Set(block, "p2p", Genesis)
    /\ UNCHANGED <<chain, pools, snapshot, replay, maintain, fork, seen, applied>>

P2pInsert ==
    /\ storage = Free /\ pc["p2p"] = "second"
    /\ ExtendsTip(block["p2p"])
    /\ Validates(block["p2p"])
    /\ Insert(block["p2p"])
    /\ StartDrain("p2p", "maintain", orphans)
    /\ block' = Set(block, "p2p", Genesis)
    /\ UNCHANGED <<pools, snapshot, replay, maintain, fork, seen, applied>>

P2pInvalid ==
    /\ storage = Free /\ pc["p2p"] = "second"
    /\ ExtendsTip(block["p2p"])
    /\ ~ Validates(block["p2p"])
    /\ Return("p2p")
    /\ UNCHANGED <<chain, pools, snapshot, storage, maintain, draining>>

\* schedule_canonical_maintenance, once the drain succeeded.
P2pMaintain ==
    /\ pc["p2p"] = "maintain"
    /\ Goto("p2p", "idle")
    /\ maintain' = TRUE
    /\ UNCHANGED <<chain, pools, snapshot, storage, replay, job, draining>>

-----------------------------------------------------------------------------
(* drain_orphan_blocks by actor a, which holds the storage mutex.          *)

Drains(a, b) == pc[a] = "drain" /\ storage = a /\ IsFirst(b, todo)

\* The orphan is dealt with and leaves the pool.
Attached(b) ==
    /\ orphans' = orphans \ {b}
    /\ todo' = todo \ {b}
    /\ progressed' = TRUE
    /\ UNCHANGED <<passes, resume>>

\* The drain gives up: its error ends the whole call, and the orphan stays.
Aborts(a) ==
    /\ storage' = Free
    /\ Return(a)
    /\ todo' = {} /\ progressed' = FALSE /\ passes' = 0 /\ resume' = "idle"
    /\ UNCHANGED orphans

DrainInsert(a, b) ==
    /\ Drains(a, b)
    /\ ExtendsTip(b)
    /\ Validates(b)
    /\ Insert(b)
    /\ Attached(b)
    /\ UNCHANGED <<candWork, quarantined, snapshot, storage, replay, maintain,
                   pc, job>>

DrainInvalid(a, b) ==
    /\ Drains(a, b)
    /\ \/ ExtendsTip(b) /\ ~ Validates(b)
       \/ ~ ExtendsTip(b) /\ Known(Parent[b]) /\ (b \in BadHeader \/ PoolFull(b))
    /\ Aborts(a)
    /\ UNCHANGED <<chain, candWork, quarantined, snapshot, maintain>>

\* No parent yet: the orphan waits for a later pass.
DrainSkip(a, b) ==
    /\ Drains(a, b)
    /\ ~ ExtendsTip(b) /\ ~ Known(Parent[b])
    /\ todo' = todo \ {b}
    /\ UNCHANGED <<chain, pools, snapshot, storage, replay, maintain, pc, job,
                   progressed, passes, resume>>

\* queue_competing_block stores the orphan as a candidate.
DrainQueues(a, b) ==
    /\ Drains(a, b)
    /\ ~ ExtendsTip(b) /\ Known(Parent[b])
    /\ b \notin BadHeader
    /\ ~ PoolFull(b)
    /\ candWork' = PoolWith(b)
    /\ UNCHANGED <<quarantined, snapshot, maintain>>

DrainLosing(a, b) ==
    /\ DrainQueues(a, b)
    /\ NotCompetitive(b)
    /\ Attached(b)
    /\ UNCHANGED <<chain, storage, replay, pc, job>>

\* promote_candidate_chain: validate in isolation, rebuild in place.
DrainPromote(a, b) ==
    /\ DrainQueues(a, b)
    /\ ~ NotCompetitive(b)
    /\ \E n \in 0..best :
          /\ ForksAt(b, n)
          /\ Assembles(b, n)
          /\ SoundAbove(b, n)
          /\ Replace(b, n)
    /\ Attached(b)
    /\ UNCHANGED <<storage, replay, pc, job>>

DrainPromoteFails(a, b) ==
    /\ DrainQueues(a, b)
    /\ ~ NotCompetitive(b)
    /\ \E n \in 0..best :
          ForksAt(b, n) /\ ~ (Assembles(b, n) /\ SoundAbove(b, n))
    /\ Aborts(a)
    /\ UNCHANGED chain

\* Mutation: progress is never reset and passes are not counted.
DrainPassAgain(a) ==
    /\ pc[a] = "drain" /\ storage = a /\ todo = {}
    /\ progressed /\ passes < DrainPasses
    /\ todo' = orphans
    /\ UNCHANGED <<chain, pools, snapshot, storage, replay, maintain, pc, job,
                   progressed, passes, resume>>

DrainNextPass(a) ==
    /\ pc[a] = "drain" /\ storage = a /\ todo = {}
    /\ progressed /\ passes < DrainPasses
    /\ todo' = orphans
    /\ progressed' = FALSE
    /\ passes' = passes + 1
    /\ UNCHANGED <<chain, pools, snapshot, storage, replay, maintain, pc, job,
                   resume>>

\* Nothing moved, or every pass is used: release the mutex and go on.
DrainDone(a) ==
    /\ pc[a] = "drain" /\ storage = a /\ todo = {}
    /\ ~ progressed \/ passes = DrainPasses
    /\ storage' = Free
    /\ Goto(a, resume)
    /\ progressed' = FALSE /\ passes' = 0 /\ resume' = "idle"
    /\ UNCHANGED <<chain, pools, snapshot, replay, maintain, job, todo>>

-----------------------------------------------------------------------------
(* stage_and_publish_candidate by actor a for the branch of block[a].      *)

\* The branch still starts at the canonical tip: commit_direct_candidate_extension.
StartsAtTip(a) == Number[block[a]] > fork[a] /\ Tip = Ancestor[block[a]][fork[a]]

AtStage(a, label) == storage = Free /\ pc[a] = label

\* Every block of the suffix validates on top of the stored accounts.
StageCommitsDirectly(a) ==
    /\ AtStage(a, "stage")
    /\ StartsAtTip(a)
    /\ accounts = Tip /\ SoundAbove(block[a], fork[a])
    /\ Replace(block[a], fork[a])
    /\ candWork' = PoolWithout(SuffixOf(block[a], fork[a]))
    /\ quarantined' = quarantined \ SuffixOf(block[a], fork[a])
    /\ Return(a)
    /\ UNCHANGED <<orphans, snapshot, storage, maintain, draining>>

\* Mutation: a block is inserted before it is validated.
StageDirectInsertsFirst(a) ==
    /\ AtStage(a, "stage")
    /\ StartsAtTip(a)
    /\ \E k \in fork[a]+1..Number[block[a]] :
          /\ ~ Sound(Ancestor[block[a]][k])
          /\ \A m \in fork[a]+1..k-1 : Sound(Ancestor[block[a]][m])
          /\ best' = k
          /\ canon' = Switched(Ancestor[block[a]][k], fork[a])
    /\ Return(a)
    /\ UNCHANGED <<accounts, pools, snapshot, storage, maintain, draining>>

\* The block at height k fails.  The blocks below it are already inserted,
\* the account state they produce is not.
StageDirectFails(a) ==
    /\ AtStage(a, "stage")
    /\ StartsAtTip(a)
    /\ \E k \in fork[a]+1..Number[block[a]] :
          /\ ~ Sound(Ancestor[block[a]][k]) \/ accounts /= Tip
          /\ \A m \in fork[a]+1..k-1 : Sound(Ancestor[block[a]][m]) /\ accounts = Tip
          /\ best' = k - 1
          /\ canon' = Switched(Ancestor[block[a]][k-1], fork[a])
    /\ Return(a)
    /\ UNCHANGED <<accounts, pools, snapshot, storage, maintain, draining>>

StageIsFork(a) ==
    /\ AtStage(a, "stage")
    /\ ~ StartsAtTip(a)
    /\ Goto(a, "capture")
    /\ UNCHANGED <<chain, pools, snapshot, storage, replay, maintain, job, draining>>

\* latest_execution_snapshot_at_or_before the common ancestor.
LatestSnapshot(n, m) ==
    /\ m \in DOMAIN snapshot /\ m <= n
    /\ \A k \in DOMAIN snapshot : k <= n => k <= m

\* What the capture section demands of the branch and of snapshot height m.
\* A snapshot of other accounts than its block's fails on the first replayed
\* block, which ends the call the same way.
Replayable(a, m) ==
    /\ fork[a] <= best /\ canon[fork[a]] = Ancestor[block[a]][fork[a]]
    /\ LatestSnapshot(fork[a], m)
    /\ canon[m] = snapshot[m].block /\ snapshot[m].state = snapshot[m].block
    /\ Number[block[a]] - m <= MaxSuffix

StageCapture(a) ==
    /\ AtStage(a, "capture")
    /\ replay = Free
    /\ \E m \in DOMAIN snapshot :
          /\ Replayable(a, m)
          /\ applied' = Set(applied, a, snapshot[m].block)
    /\ Goto(a, "replay")
    /\ seen' = Set(seen, a, Tip)
    /\ replay' = a
    /\ UNCHANGED <<chain, pools, snapshot, storage, maintain, block, fork, draining>>

\* "candidate replay deferred" and its siblings.
StageDeferred(a) ==
    /\ AtStage(a, "capture")
    /\ replay = Free
    /\ ~ \E m \in DOMAIN snapshot : Replayable(a, m)
    /\ Return(a)
    /\ UNCHANGED <<chain, pools, snapshot, storage, maintain, draining>>

\* The overlay applies the canonical block above the last one it applied.
StageReplayAncestor(a) ==
    /\ AtStage(a, "replay")
    /\ Number[applied[a]] < fork[a]
    /\ LET n == Number[applied[a]] + 1 IN
         IF n <= best /\ Parent[canon[n]] = applied[a]
         THEN /\ applied' = Set(applied, a, canon[n])
              /\ UNCHANGED <<pc, replay, block, fork, seen>>
         ELSE Return(a)
    /\ UNCHANGED <<chain, pools, snapshot, storage, maintain, draining>>

\* Then the suffix, which needs no lock.
StageReplaySuffix(a) ==
    /\ pc[a] = "replay"
    /\ Number[applied[a]] = fork[a]
    /\ IF /\ applied[a] = Ancestor[block[a]][fork[a]]
          /\ Number[block[a]] > fork[a]
          /\ SoundAbove(block[a], fork[a])
       THEN Goto(a, "publish") /\ UNCHANGED <<replay, job>>
       ELSE Return(a)
    /\ UNCHANGED <<chain, pools, snapshot, storage, maintain, draining>>

\* The work of the branch over the canonical chain it is about to replace.
BranchWork(a) ==
    TotalWork[canon[fork[a]]]
        + (TotalWork[block[a]] - TotalWork[Ancestor[block[a]][fork[a]]])

\* Mutation: only the tie is checked against the current tip.
SupersededOnTie(a) ==
    BranchWork(a) = TotalWork[Tip] /\ HashRank[block[a]] >= HashRank[Tip]

Superseded(a) ==
    \/ BranchWork(a) < TotalWork[Tip]
    \/ BranchWork(a) = TotalWork[Tip] /\ HashRank[block[a]] >= HashRank[Tip]

StagePublish(a) ==
    /\ AtStage(a, "publish")
    /\ Tip = seen[a]
    /\ ~ Superseded(a)
    /\ Replace(block[a], fork[a])
    /\ candWork' = PoolWithout(SuffixOf(block[a], fork[a]))
    /\ quarantined' = quarantined \ SuffixOf(block[a], fork[a])
    /\ Return(a)
    /\ UNCHANGED <<orphans, snapshot, storage, maintain, draining>>

\* "active tip changed during replay", "superseded by current canonical work".
StageOvertaken(a) ==
    /\ AtStage(a, "publish")
    /\ Tip /= seen[a] \/ Superseded(a)
    /\ Return(a)
    /\ UNCHANGED <<chain, pools, snapshot, storage, maintain, draining>>

-----------------------------------------------------------------------------
(* start_candidate_recovery and its worker, without a durable recovery     *)
(* job: the candidates come from the pool.                                 *)

Selectable == DOMAIN candWork \ quarantined

\* latest_candidate_tip: most work, then the lower hash.
IsLatest(c) ==
    /\ c \in Selectable
    /\ \A x \in Selectable :
          \/ candWork[x] < candWork[c]
          \/ candWork[x] = candWork[c] /\ HashRank[c] <= HashRank[x]

\* The caller's program counters are p once start_candidate_recovery returns.
StartCandidateRecovery(p) ==
    \/ /\ pc["rec"] /= "idle"
       /\ pc' = p
       /\ UNCHANGED <<candWork, quarantined, block>>
    \/ /\ pc["rec"] = "idle"
       /\ \E c \in Selectable :
             /\ IsLatest(c)
             /\ candWork[c] > TotalWork[Tip]
             /\ block' = Set(block, "rec", c)
       /\ pc' = Set(p, "rec", "assemble")
       /\ UNCHANGED <<candWork, quarantined>>
    \/ /\ pc["rec"] = "idle"
       /\ \A c \in Selectable : candWork[c] <= TotalWork[Tip]
       /\ candWork' = EmptyPool
       /\ quarantined' = {}
       /\ pc' = p
       /\ UNCHANGED block

P2pKick ==
    /\ storage = Free /\ pc["p2p"] = "kick"
    /\ StartCandidateRecovery(Set(pc, "p2p", "idle"))
    /\ UNCHANGED <<chain, orphans, snapshot, storage, replay, maintain, fork, seen,
                   applied, draining>>

\* Startup and every peer session call it as well.
PeerHello ==
    /\ storage = Free /\ pc["rec"] = "idle"
    /\ StartCandidateRecovery(pc)
    /\ UNCHANGED <<chain, orphans, snapshot, storage, replay, maintain, fork, seen,
                   applied, draining>>

RecAssemble ==
    /\ AtStage("rec", "assemble")
    /\ \E n \in 0..best :
          /\ ForksAt(block["rec"], n)
          /\ Assembles(block["rec"], n)
          /\ fork' = Set(fork, "rec", n)
    /\ Goto("rec", "check")
    /\ UNCHANGED <<chain, pools, snapshot, storage, replay, maintain, block, seen,
                   applied, draining>>

\* Only a rejected branch is quarantined; an incomplete one is tried again.
RecCannotAssemble ==
    /\ AtStage("rec", "assemble")
    /\ \E n \in 0..best :
          /\ ForksAt(block["rec"], n)
          /\ ~ Assembles(block["rec"], n)
          /\ quarantined' = IF TooLong(block["rec"], n)
                            THEN quarantined \cup {block["rec"]}
                            ELSE quarantined
    /\ Return("rec")
    /\ UNCHANGED <<chain, orphans, candWork, snapshot, storage, maintain, draining>>

RecChoosePath ==
    /\ AtStage("rec", "check")
    /\ Goto("rec", IF StartsAtTip("rec") THEN "batch" ELSE "stage")
    /\ UNCHANGED <<chain, pools, snapshot, storage, replay, maintain, job, draining>>

\* import_direct_recovery_batch waits for BLOCK_IMPORT_LOCK, which an active
\* import_network_block holds.
ImportsBatch(last) ==
    /\ AtStage("rec", "batch") /\ pc["p2p"] = "idle"
    /\ fork["rec"] < Number[block["rec"]]
    /\ last = IF fork["rec"] + BatchSize < Number[block["rec"]]
              THEN fork["rec"] + BatchSize ELSE Number[block["rec"]]

RecImportBatch ==
    \E last \in 0..Number[block["rec"]] :
       LET b == Ancestor[block["rec"]][last] IN
       /\ ImportsBatch(last)
       /\ Tip = Ancestor[block["rec"]][fork["rec"]]
       /\ accounts = Tip /\ SoundAbove(b, fork["rec"])
       /\ Insert(b)
       /\ snapshot' = Snapshots(b, b)
       /\ fork' = Set(fork, "rec", last)
       /\ UNCHANGED <<pools, storage, replay, maintain, pc, block, seen, applied,
                      draining>>

\* The batch stops before height k; what it inserted below stays.
RecBatchFails ==
    \E last \in 0..Number[block["rec"]] :
       /\ ImportsBatch(last)
       /\ \E k \in fork["rec"]+1..last :
             LET t == block["rec"]
                 ok == Tip = Ancestor[t][fork["rec"]] /\ accounts = Tip IN
             /\ ~ ok \/ ~ Sound(Ancestor[t][k])
             /\ \A m \in fork["rec"]+1..k-1 : ok /\ Sound(Ancestor[t][m])
             /\ IF k = fork["rec"] + 1
                THEN UNCHANGED chain
                ELSE Insert(Ancestor[t][k-1])
       /\ Return("rec")
       /\ UNCHANGED <<pools, snapshot, storage, maintain, draining>>

\* finalize_published_recovery
RecFinish ==
    /\ pc["rec"] = "batch"
    /\ fork["rec"] = Number[block["rec"]]
    /\ Return("rec")
    /\ UNCHANGED <<chain, pools, snapshot, storage, maintain, draining>>

-----------------------------------------------------------------------------
\* canonical_maintenance_worker
Maintain ==
    /\ storage = Free /\ maintain
    /\ maintain' = FALSE
    /\ snapshot' = Snapshots(Tip, accounts)
    /\ UNCHANGED <<chain, pools, storage, replay, pc, job, draining>>

\* The process stops and starts again: threads and locks are gone.  A store
\* whose accounts do not fit its tip does not open (module GenerationStore).
Restart ==
    /\ MayRestart
    /\ accounts = Tip
    /\ pc' = [a \in Actor |-> "idle"]
    /\ storage' = Free /\ replay' = Free /\ maintain' = FALSE
    /\ todo' = {} /\ progressed' = FALSE /\ passes' = 0 /\ resume' = "idle"
    /\ block' = [a \in Actor |-> Genesis] /\ fork' = [a \in Actor |-> 0]
    /\ seen' = [a \in Actor |-> Genesis] /\ applied' = [a \in Actor |-> Genesis]
    /\ UNCHANGED <<chain, pools, snapshot>>

-----------------------------------------------------------------------------
ImportStep(a, b) ==
    \/ QueueOrphan(a, b) \/ QueueLosing(a, b) \/ QueueBranch(a, b)
    \/ QueueIncomplete(a, b)

P2pSecond == P2pNotNext \/ P2pInsert \/ P2pInvalid \/ P2pMaintain \/ P2pKick

DrainStep(a) ==
    \/ \E b \in todo :
          \/ DrainInsert(a, b) \/ DrainInvalid(a, b) \/ DrainSkip(a, b)
          \/ DrainLosing(a, b) \/ DrainPromote(a, b) \/ DrainPromoteFails(a, b)
    \/ DrainNextPass(a) \/ DrainDone(a)

StageStep(a) ==
    \/ StageCommitsDirectly(a) \/ StageDirectFails(a) \/ StageIsFork(a)
    \/ StageCapture(a) \/ StageDeferred(a)
    \/ StageReplayAncestor(a) \/ StageReplaySuffix(a)
    \/ StagePublish(a) \/ StageOvertaken(a)

RecStep ==
    \/ RecAssemble \/ RecCannotAssemble \/ RecChoosePath
    \/ RecImportBatch \/ RecBatchFails \/ RecFinish

Arrival ==
    \E b \in Block :
       \/ P2pFuture(b) \/ P2pExtends(b) \/ RpcExtends(b)
       \/ \E a \in {"p2p", "rpc"} : ImportStep(a, b)

Next ==
    \/ Arrival
    \/ P2pSecond
    \/ \E a \in {"p2p", "rpc"} : DrainStep(a)
    \/ \E a \in Actor : StageStep(a)
    \/ PeerHello \/ RecStep \/ Maintain \/ Restart

Spec == Init /\ [][Next]_vars

\* Every thread that can run is scheduled, the maintenance worker serves its
\* queue, and peers keep saying hello.  Nothing is assumed of new blocks.
Fairness ==
    /\ WF_vars(P2pSecond)
    /\ \A a \in {"p2p", "rpc"} : WF_vars(DrainStep(a))
    /\ \A a \in Actor : WF_vars(StageStep(a))
    /\ WF_vars(RecStep)
    /\ WF_vars(Maintain)
    /\ WF_vars(PeerHello)

FairSpec == Spec /\ Fairness

-----------------------------------------------------------------------------
Labels == {"idle", "second", "drain", "kick", "maintain", "stage", "capture",
           "replay", "publish", "assemble", "check", "batch"}

\* Every variable has its type: heights index the canonical chain, and the
\* mutex owners are threads that can hold them.
TypeOK ==
    /\ best \in Nat
    /\ canon \in [0..best -> Block]
    /\ accounts \in Block
    /\ orphans \subseteq Block
    /\ DOMAIN candWork \subseteq Block
    /\ \A c \in DOMAIN candWork : candWork[c] \in Nat
    /\ quarantined \subseteq Block
    /\ \A n \in DOMAIN snapshot : snapshot[n] \in [block : Block, state : Block]
    /\ storage \in {Free, "p2p", "rpc"}
    /\ replay \in Actor \cup {Free}
    /\ maintain \in BOOLEAN
    /\ pc \in [Actor -> Labels]
    /\ block \in [Actor -> Block]
    /\ fork \in [Actor -> Nat]
    /\ seen \in [Actor -> Block]
    /\ applied \in [Actor -> Block]
    /\ todo \subseteq Block
    /\ progressed \in BOOLEAN
    /\ passes \in 0..DrainPasses
    /\ resume \in {"idle", "kick", "maintain", "stage"}

\* The canonical index is one chain: every height holds the ancestor of the
\* tip at that height, whichever thread extended or replaced it, and every
\* block above genesis passed validation (insert_block, publish_canonical_suffix
\* and rebuild_canonical_chain are called only after it).
CanonicalIsOneSoundChain ==
    /\ Number[Tip] = best
    /\ \A n \in 0..best : canon[n] = Ancestor[Tip][n] /\ Sound(canon[n])

\* The cumulative work recorded with a candidate is the work of its own
\* chain, although queue_competing_block computes it from whatever canonical
\* chain or candidate it finds at that moment, and reorganizations follow.
CandidateWorkIsExact ==
    \A c \in DOMAIN candWork : candWork[c] = TotalWork[c]

\* The pools keep their limits, whoever fills them: gossip, miners, drains.
PoolsBounded ==
    /\ Cardinality(orphans) <= MaxOrphans
    /\ Cardinality(DOMAIN candWork) <= MaxCandidates

\* Fork choice never gives up work: no step of any thread leaves the node on
\* a lighter chain, and at equal work and height only a lower hash wins.
WorkNeverDecreases ==
    [][ \/ Tip' = Tip
        \/ TotalWork[Tip'] > TotalWork[Tip]
        \/ /\ TotalWork[Tip'] = TotalWork[Tip]
           /\ Number[Tip'] = Number[Tip] => HashRank[Tip'] < HashRank[Tip] ]_vars

\* The account state in the database is the one the tip block commits to, so
\* that validate_state_root judges the next block on the right state.
AccountsMatchTip == accounts = Tip

\* import_network_block drops a block as "already canonical" only if it is.
DuplicateIsCanonical == \A b \in Block : AlreadyCanonical(b) => OnChain(b)

\* A thread that was at one of the labels returns without its block as tip.
GivesUp(a, labels) == pc[a] \in labels /\ pc'[a] = "idle" /\ Tip' /= block[a]

\* The log of a failed stage_and_publish_candidate says "active chain
\* unchanged", and so does the log of a failed import_direct_recovery_batch:
\* whoever called them, the canonical chain stays as it was.
DeferredImportLeavesChain ==
    [][ \A a \in Actor :
          GivesUp(a, {"stage", "capture", "replay", "publish", "batch"})
              => canon' = canon ]_vars

\* write_periodic_snapshot discards old execution snapshots because "A branch
\* cannot reorganize below finality": blocks under the finalized height stay.
FinalizedStays ==
    [][ \A n \in 0..best :
          n + FinalityDepth <= best => n <= best' /\ canon'[n] = canon[n] ]_vars

\* No call waits for ever: import_network_block, rpc_submit_block and the
\* recovery worker return although they wait for the storage mutex, for
\* CANDIDATE_REPLAY_LOCK and for BLOCK_IMPORT_LOCK.  Mutexes need not be
\* fair: the calls return if from some point on no new ones arrive.
EveryCallReturns ==
    <>[][~ Arrival]_vars => \A a \in Actor : pc[a] /= "idle" ~> pc[a] = "idle"

\* "let drain_orphan_blocks attach it once the contiguous prefix arrives": a
\* valid orphan whose parent is the tip is attached or overtaken.
OrphanAttaches ==
    \A b \in Block :
        b \in orphans /\ ExtendsTip(b) /\ Validates(b)
            ~> ~ (b \in orphans /\ ExtendsTip(b))
=============================================================================
