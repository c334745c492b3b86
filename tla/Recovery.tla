------------------------------ MODULE Recovery ------------------------------
(***************************************************************************)
(* Forward recovery: how a node that has fallen behind, or is on a losing  *)
(* fork, fetches another branch from its peers and publishes it.           *)
(*                                                                         *)
(* A branch job is a cursor (BranchSyncCursor), kept in memory and written *)
(* to branch-sync-cursors.json, with a spool of validated bodies in the    *)
(* database.  One session per peer (sync_with_peer) greets the peer, finds *)
(* a common ancestor, streams body ranges into the spool, or serves as a   *)
(* witness that samples headers.  A finished job is handed to the worker   *)
(* of start_candidate_recovery, which publishes it.  A frame is handled in *)
(* one action; frames of different sessions, the worker's three critical   *)
(* sections, canonical blocks from gossip, lost connections and crashes    *)
(* interleave.                                                             *)
(*                                                                         *)
(* A cursor's next_height is always one above its expected parent, and its *)
(* tip_height is the height of its tip, so neither is a field here.  Times *)
(* are left out: a deadline is a choice, and a tie the code breaks by the  *)
(* time of the last progress is broken by the parameter "first".           *)
(***************************************************************************)
EXTENDS BlockTree, Sequences, FiniteSets, Functions, FiniteSetsExt

CONSTANTS
    Peer,            \* the peers the node keeps a sync session with
    NoPeer, NoBlock,
    RangeSize,       \* SYNC_RANGE_SIZE
    CheckpointSize,  \* SYNC_CHECKPOINT_BATCH_SIZE
    StartTip,        \* the canonical tip the node starts with
    RemoteTips,      \* assignments of successive canonical tips to the peers
    PeerHolds,       \* PeerHolds[p]: blocks in peer p's candidate pool
    Gossiped,        \* blocks that may extend the local chain by gossip
    MaxFaults        \* bound on lost connections, crashes, deferred publications
                     \* and failed clean-ups of one behaviour

ASSUME RecoveryAssumption ==
    /\ NoPeer \notin Peer /\ NoBlock \notin Block
    /\ IsFiniteSet(Block)  \* a block is known by a hash of 256 bits
    /\ RangeSize \in Nat \ {0} /\ CheckpointSize \in Nat \ {0}
    /\ StartTip \in Block
    /\ RemoteTips \subseteq [Peer -> Seq(Block) \ {<<>>}]
    /\ \A p \in Peer : PeerHolds[p] \subseteq Block
    /\ Gossiped \subseteq Block /\ MaxFaults \in Nat

VARIABLES
    db,       \* the node: canonical tip, pools, spool and cursors (below)
    sess,     \* sess[p]: the session with peer p
    lease,    \* the session that holds FORWARD_RECOVERY_LEASE_KEY
    remote,   \* remote[p]: the tip of peer p, and the tips it will move to
    faults    \* the faults so far, a sequence of kinds

vars == <<db, sess, lease, remote, faults>>

(***************************************************************************)
(* db.best    canonical tip          db.cand    candidate:block:*          *)
(* db.spool   recovery:<tip>:<n>     db.disk    ... what a flush secured   *)
(* db.cur     BRANCH_SYNC_CURSORS    db.saved   branch-sync-cursors.json   *)
(* db.bind    PEER_RECOVERY_KEYS     db.worker  the recovery thread        *)
(***************************************************************************)
Idle == [pc |-> "idle", tip |-> NoBlock, base |-> NoBlock]

Closed == [on |-> FALSE, asks |-> <<>>, inbox |-> <<>>, count |-> 0]

\* new_branch_sync_cursor
NewCursor(t) ==
    [tip |-> t, ns |-> t, anc |-> NoBlock, root |-> NoBlock,
     parent |-> NoBlock, staged |-> 0, bodies |-> 0,
     state |-> "pending-ancestor", provider |-> NoPeer, primary |-> NoPeer,
     witness |-> NoPeer, mode |-> "single-provider", samples |-> {},
     mine |-> {}, theirs |-> {}, progressed |-> FALSE]

Started(c) == c.anc /= NoBlock

\* next_height, and next_height > tip_height
NextHeight(c) == IF c.parent = NoBlock THEN 0 ELSE Number[c.parent] + 1
Finished(c) == NextHeight(c) > Number[c.tip]

\* block_by_number names this very block.
OnChain(n, b) == b /= NoBlock /\ IsAncestor(b, n.best)

\* recovery_block_by_hash: the spool of any job; block_by_hash: the chain or
\* the candidate pool.
InSpool(n, b) == \E ns \in Block : b \in n.spool[ns]
Known(n, b) == OnChain(n, b) \/ b \in n.cand

\* candidate_branch_from_storage reaches the canonical chain from b.
Assembles(n, b) ==
    \A h \in 0..Number[b]-1 :
        \/ \E m \in h+1..Number[b] : OnChain(n, Ancestor[b][m])
        \/ InSpool(n, Ancestor[b][h])
        \/ Known(n, Ancestor[b][h])

Put(n, c) ==
    [n EXCEPT !.cur = [t \in DOMAIN @ \cup {c.tip} |-> IF t = c.tip THEN c ELSE @[t]]]
Forget(n, keys) == [n EXCEPT !.cur = Restrict(@, DOMAIN @ \ keys)]
Rebind(n, keys, k) ==
    [n EXCEPT !.bind = [p \in Peer |-> IF @[p] \in keys THEN k ELSE @[p]]]
Bind(n, p, k) == [n EXCEPT !.bind[p] = k]

\* persist_branch_sync_cursors
Persist(n) == [n EXCEPT !.saved = n.cur]

\* flush_sync_batch and end_sync_batch
Flush(n) == [n EXCEPT !.disk = n.spool]

\* clear_recovery_blocks_for_tip flushes what it removed.
ClearSpool(n, ns) == [n EXCEPT !.spool[ns] = {}, !.disk[ns] = {}]

\* store_recovery_block_unflushed: one body per height of a namespace.
Spooled(S, b) == {x \in S : Number[x] /= Number[b]} \cup {b}

\* The cursor the route of p is bound to, and the one a failure is charged to.
Bound(n, p) == n.bind[p] \in DOMAIN n.cur
Charged(n, p) ==
    IF Bound(n, p) THEN {n.bind[p]}
    ELSE LET mine == {t \in DOMAIN n.cur : n.cur[t].provider = p}
         IN  {t \in mine : \A u \in mine : HashRank[t] <= HashRank[u]}

\* recovery_cursor_progress_key, without the time of the last progress.
StateRank(s) ==
    CASE s = "replaying" -> 5 [] s = "retrieving" -> 4 [] s = "complete" -> 3
      [] s = "waiting-for-provider" -> 2 [] OTHER -> 1

FurtherThan(c, d) ==
    \/ StateRank(c.state) > StateRank(d.state)
    \/ StateRank(c.state) = StateRank(d.state) /\ c.staged > d.staged

\* max_by_key: of the most advanced cursors in S, "first" if it is one.
MostAdvanced(n, S, first) ==
    LET top == {t \in S : \A u \in S : ~ FurtherThan(n.cur[u], n.cur[t])}
    IN  IF first \in top THEN first
        ELSE CHOOSE t \in top : \A u \in top : HashRank[u] <= HashRank[t]

-----------------------------------------------------------------------------
(* The cursor operations.  Each maps the node to the node after the call.  *)

\* recovery_witness_sample_heights; the two interior samples fall on the
\* ends of a range of at most two bodies.
SampleHeights(from, t) ==
    LET end == Min({from + RangeSize - 1, Number[t]})
    IN  IF from > end THEN {} ELSE {from, end}

\* record_recovery_request
RecordRequest(n, p, from) ==
    IF ~ Bound(n, p) THEN Persist(n)
    ELSE LET c == n.cur[n.bind[p]]
         IN  IF Finished(c) \/ c.state = "complete" THEN n
             ELSE Persist(Put(n, [c EXCEPT
                      !.provider = p, !.state = "retrieving",
                      !.samples = SampleHeights(from, c.tip),
                      !.mine = {}, !.theirs = {},
                      !.mode = IF c.witness = NoPeer THEN @
                               ELSE "waiting-for-witness"]))

\* record_recovery_failure: completion stays terminal for publication.
RecordFailure(n, p) ==
    LET keys == Charged(n, p)
        open == {t \in keys : /\ ~ Finished(n.cur[t])
                              /\ n.cur[t].state \notin {"complete", "replaying", "published"}}
    IN  IF keys /= {} /\ open = {} THEN n
        ELSE Persist([n EXCEPT !.cur = [t \in DOMAIN @ |->
                 IF t \in open
                 THEN [@[t] EXCEPT !.provider = p, !.state = "waiting-for-provider"]
                 ELSE @[t]]])

\* Mutant: rediscovery starts from an empty spool.
ResetDropsSpool(n, p) ==
    LET keys == {t \in Charged(n, p) : Started(n.cur[t])}
        spools == {n.cur[t].ns : t \in keys}
    IN  [n EXCEPT !.cur = [t \in DOMAIN @ |-> IF t \in keys THEN NewCursor(t) ELSE @[t]],
                  !.spool = [k \in Block |-> IF k \in spools THEN {} ELSE @[k]]]

\* reset_recovery_cursor_for_fork: the ancestor is found again, the spool,
\* the branch root and the staged height are kept.
ResetForFork(n, p) ==
    LET keys == {t \in Charged(n, p) : Started(n.cur[t])}
    IN  IF keys = {} THEN n
        ELSE Persist(Rebind([n EXCEPT !.cur = [t \in DOMAIN @ |->
                 IF t \in keys
                 THEN [@[t] EXCEPT !.anc = NoBlock, !.parent = NoBlock,
                                   !.state = "pending-ancestor"]
                 ELSE @[t]]], keys, NoBlock))

\* The bodies of S that continue a without a gap; the spool has one body per
\* height, so they are a chain, and its last block is where the walk ends.
ContinuedTo(S, a) ==
    LET reach == {x \in S : /\ IsAncestor(a, x)
                            /\ \A m \in Number[a]+1..Number[x] : Ancestor[x][m] \in S}
    IN  CHOOSE x \in reach \cup {a} : \A y \in reach : Number[y] <= Number[x]

\* The stale-ancestor branch of reconcile_forward_recovery_spool.
DropStaleAncestor(n, c) ==
    Persist(Put(ClearSpool(n, c.ns),
        [c EXCEPT !.anc = NoBlock, !.root = NoBlock, !.parent = NoBlock,
                  !.staged = 0, !.bodies = 0, !.state = "pending-retrieval"]))

\* Bodies an older build wrote under the moving tip join the job's spool.
Merged(n, c) ==
    IF c.tip = c.ns \/ n.spool[c.tip] = {} THEN n
    ELSE Flush([n EXCEPT !.spool[c.ns] =
             {x \in @ : \A y \in n.spool[c.tip] : Number[x] /= Number[y]}
                 \cup n.spool[c.tip]])

\* The cursor derived from the canonical prefix and the contiguous spool.
Derived(c, last) ==
    LET advanced == Number[last] > Number[c.tip]
        tip == IF advanced THEN last ELSE c.tip
        bodies == Number[last] - Number[c.anc]
        repaired == c.parent /= last \/ c.bodies /= bodies \/ advanced
    IN  [c EXCEPT !.parent = last, !.staged = Number[last], !.bodies = bodies,
                  !.root = IF last = c.anc THEN NoBlock
                           ELSE Ancestor[last][Number[c.anc] + 1],
                  !.tip = tip,
                  !.state = IF ~ repaired THEN @
                            ELSE IF Number[last] >= Number[tip] THEN "complete"
                            ELSE "retrieving"]

\* The canonical block after the ancestor of c, and the last canonical block
\* that c may count as its own.
LocalRoot(n, c) ==
    IF Number[n.best] > Number[c.anc] THEN Ancestor[n.best][Number[c.anc] + 1]
    ELSE NoBlock

Prefix(n, c, top) ==
    IF c.root /= NoBlock /\ c.root = LocalRoot(n, c) /\ top > Number[c.anc]
    THEN Ancestor[n.best][top] ELSE c.anc

\* The spool starts with the local branch rather than the job's.
StalePrefix(n, c, prefix) ==
    /\ prefix = c.anc /\ NextHeight(c) <= Number[c.anc] + 1
    /\ LocalRoot(n, c) \in n.spool[c.ns]

Replace(n, key, c) == Persist(Rebind(Put(Forget(n, {key}), c), {key}, c.tip))

Repair(n, key, c, prefix) ==
    IF StalePrefix(n, c, prefix)
    THEN Replace(ClearSpool(n, c.ns), key, Derived(c, c.anc))
    ELSE Replace(IF n.spool[c.ns] /= {} THEN Flush(n) ELSE n, key,
                 Derived(c, ContinuedTo(n.spool[c.ns], prefix)))

\* reconcile_forward_recovery_spool
ReconcileJob(n, key, c) ==
    IF ~ Started(c) THEN n
    ELSE IF ~ OnChain(n, c.anc) THEN DropStaleAncestor(n, c)
    ELSE Repair(Merged(n, c), key, c, Prefix(n, c, Min({Number[n.best], Number[c.tip]})))

Reconcile(n, p) ==
    IF Bound(n, p) THEN ReconcileJob(n, n.bind[p], n.cur[n.bind[p]]) ELSE n

\* The jobs a newer tip t of p is an extension of.
SameJob(n, p, t, anc, root) ==
    {k \in DOMAIN n.cur \ {n.bind[p]} :
        LET c == n.cur[k] IN
        /\ c.anc = anc
        /\ c.primary = p \/ (root /= NoBlock /\ c.root = root)
        /\ c.staged >= Number[anc]
        /\ Number[c.tip] <= Number[t]
        /\ c.state \notin {"published", "rejected", "conflicting"}}

\* The job "old" takes the newer tip t, and every route on it or on the job of
\* p follows.
Joined(n, p, t, old, gone) ==
    Bind(Rebind(Put(Forget(n, gone),
                    [n.cur[old] EXCEPT
                        !.tip = t, !.provider = p, !.primary = p, !.samples = {},
                        !.mine = {}, !.theirs = {},
                        !.state = IF Number[n.cur[old].parent] < Number[t]
                                  THEN "retrieving" ELSE @]),
                gone, t), p, t)

\* Of the jobs with the most bodies, "first" if it is one.
Furthest(n, jobs, first) ==
    LET top == {k \in jobs : \A j \in jobs : n.cur[j].staged <= n.cur[k].staged}
    IN  IF first \in top THEN first
        ELSE CHOOSE k \in top : \A j \in top : HashRank[j] <= HashRank[k]

JoinOneOf(n, p, t, jobs, first) ==
    IF jobs = {} THEN n
    ELSE LET old == Furthest(n, jobs, first)
         IN  Joined(n, p, t, old, {old, n.bind[p]} \ {NoBlock})

\* coalesce_advancing_recovery_job; the route of p ends up on the job.
Coalesce(n, p, t, anc, root, first) ==
    JoinOneOf(n, p, t, SameJob(n, p, t, anc, root), first)

\* coalesce_recovery_job_after_branch_root
CoalesceByRoot(n, p, first) ==
    IF ~ Bound(n, p) THEN n
    ELSE LET c == n.cur[n.bind[p]]
         IN  IF c.anc = NoBlock \/ c.root = NoBlock THEN n
             ELSE Coalesce(n, p, c.tip, c.anc, c.root, first)

-----------------------------------------------------------------------------
(* Witnesses.                                                              *)

NoAudit(c) == [c EXCEPT !.witness = NoPeer, !.samples = {}, !.mine = {},
                        !.theirs = {}, !.mode = "single-provider"]

\* register_recovery_peer_role(.., primary = true)
RegisterPrimary(n, p, t) ==
    IF t \notin DOMAIN n.cur THEN n
    ELSE LET c == [n.cur[t] EXCEPT !.primary = p, !.provider = p]
         IN  Persist(Put(n, CASE c.witness = p -> NoAudit(c)
                              [] c.witness = NoPeer -> [c EXCEPT !.mode = "single-provider"]
                              [] OTHER -> c))

\* register_recovery_peer_role(.., primary = false); the sample it asks for.
RegisterWitness(n, p, t) ==
    LET c == n.cur[t]
        d == IF p \in {c.primary, c.witness} THEN c
             ELSE [c EXCEPT !.witness = p, !.mode = "waiting-for-witness"]
    IN  Persist(Put(n, IF d.witness = p /\ d.samples = {}
                       THEN [d EXCEPT !.samples = SampleHeights(NextHeight(d), d.tip)]
                       ELSE d))

\* remove_stale_recovery_witness
RemoveStaleWitness(n, p, t) ==
    IF t \notin DOMAIN n.cur \/ n.cur[t].witness /= p THEN n
    ELSE Persist(Put(n, [NoAudit(n.cur[t]) EXCEPT
                            !.state = IF Finished(n.cur[t]) THEN "complete" ELSE @]))

\* Every sampled height has the same header from both peers.
SamplesMatch(c) ==
    \A h \in c.samples : \E b \in c.mine \cap c.theirs : Number[b] = h

Publishable(c) == c.mode \in {"single-provider", "cross-checked"}

Conflict(c) == [c EXCEPT !.mode = "conflicting", !.state = "conflicting"]

\* The sets of sampled headers disagree at the height of b.
Disagrees(S, b) == \E x \in S : Number[x] = Number[b] /\ x /= b

\* record_primary_witness_sample on the cursor c
PrimarySample(c, b) ==
    LET d == [c EXCEPT !.mine = Spooled(@, b)]
        e == IF SamplesMatch(d) /\ d.witness /= NoPeer
             THEN [d EXCEPT !.mode = "cross-checked"] ELSE d
    IN  IF Number[b] \notin c.samples THEN c
        ELSE IF Disagrees(c.theirs, b) THEN Conflict(d)
        ELSE IF Finished(e) /\ Publishable(e) THEN [e EXCEPT !.state = "complete"]
        ELSE e

\* record_witness_headers on the cursor c: the headers are taken in order up
\* to one that was not asked for or that contradicts the primary.
Offending(c, heads) ==
    {b \in heads : Number[b] \notin c.samples \/ Disagrees(c.mine, b)}

WitnessSample(c, heads) ==
    LET bad == Offending(c, heads)
        taken == {b \in heads : \A x \in bad : Number[b] < Number[x]}
        d == [c EXCEPT !.theirs = {x \in @ : \A b \in taken : Number[x] /= Number[b]}
                                      \cup taken]
    IN  IF bad /= {} THEN IF \E b \in heads : /\ Disagrees(c.mine, b)
                                              /\ Number[b] \in c.samples
                                              /\ \A x \in bad : Number[b] <= Number[x]
                          THEN Conflict(d) ELSE d
        ELSE IF ~ SamplesMatch(d) THEN d
        ELSE [d EXCEPT !.mode = "cross-checked",
                       !.state = IF Finished(d) THEN "complete" ELSE @]

-----------------------------------------------------------------------------
(* start_candidate_recovery, up to the spawn of its worker.                *)

\* completed_recovery_tip
CompletedTips(n) ==
    {t \in DOMAIN n.cur : LET c == n.cur[t] IN
        /\ c.state = "complete" /\ Started(c)
        /\ c.staged <= Number[t] /\ Finished(c)}

\* The repair of a witness that can no longer answer; "late" is the deadline
\* of 30 seconds since the last body.
RepairedWitness(c, late) ==
    IF \/ c.primary /= NoPeer /\ c.primary = c.witness
       \/ c.witness /= NoPeer /\ c.samples = {}
       \/ c.witness /= NoPeer /\ Finished(c) /\ c.progressed /\ late
    THEN NoAudit(c) ELSE c

\* set_recovery_state_for_tip
SetState(n, t, s) ==
    Persist(IF t \in DOMAIN n.cur THEN Put(n, [n.cur[t] EXCEPT !.state = s]) ELSE n)

\* prune_finalized_recovery_cursors, which drops terminal cursors only.
PruneTerminal(n) ==
    LET gone == {t \in DOMAIN n.cur : n.cur[t].state \in {"published", "rejected"}}
        kept == Forget(n, gone)
    IN  IF gone = {} THEN n
        ELSE Persist([kept EXCEPT !.bind = [p \in Peer |->
                 IF @[p] \in DOMAIN kept.cur THEN @[p] ELSE NoBlock]])

\* reject_completed_recovery
Reject(n, t) == PruneTerminal(SetState(n, t, "rejected"))

\* restore_completed_candidate: the tip body, from the spool or the pool.
RestoredTip(n, t) ==
    CASE InSpool(n, t) -> t
      [] ~ InSpool(n, t) /\ InSpool(n, n.cur[t].ns) -> n.cur[t].ns
      [] ~ InSpool(n, t) /\ ~ InSpool(n, n.cur[t].ns) /\ Known(n, t) -> t
      [] OTHER -> NoBlock

\* latest_candidate_tip
Heaviest(S) ==
    IF S = {} THEN NoBlock
    ELSE CHOOSE b \in S : \A x \in S \ {b} : Outranks(b, x)

\* The candidate b competes with the canonical chain; "asked" is the tip of
\* the completed job that was preferred.
Launch(n, b, asked) ==
    IF b = NoBlock
    THEN IF \E t \in DOMAIN n.cur : Started(n.cur[t]) THEN n
         ELSE [n EXCEPT !.cand = {}]
    ELSE IF TotalWork[b] <= TotalWork[n.best]
    THEN [(IF b = asked THEN Reject(n, b) ELSE n) EXCEPT !.cand = {}]
    ELSE [SetState(n, b, "replaying") EXCEPT
             !.worker = [pc |-> "assemble", tip |-> b, base |-> NoBlock]]

LaunchHeaviest(n, asked) == Launch(n, Heaviest(n.cand), asked)

\* The tip body b of the completed job t was restored, or is missing.
Restored(n, t, b) ==
    IF b = NoBlock \/ ~ Assembles(n, b)
    THEN LaunchHeaviest(Persist(Rebind(Forget(n, {t}), {t}, NoBlock)), t)
    ELSE Launch([n EXCEPT !.cand = @ \cup {b}], b, t)

Evaluate(n, t) ==
    IF Publishable(n.cur[t]) THEN Restored(n, t, RestoredTip(n, t))
    ELSE SetState(n, t, "waiting-for-witness")

Repaired(n, t, fixed) == IF fixed = n.cur[t] THEN n ELSE Persist(Put(n, fixed))

Prefer(n, t, late) == Evaluate(Repaired(n, t, RepairedWitness(n.cur[t], late)), t)

StartRecovery(n, late, first) ==
    IF n.worker.pc /= "idle" \/ \E k \in DOMAIN n.cur : n.cur[k].state = "replaying"
    THEN n
    ELSE IF CompletedTips(n) = {} THEN LaunchHeaviest(n, NoBlock)
    ELSE Prefer(n, MostAdvanced(n, CompletedTips(n), first), late)

-----------------------------------------------------------------------------
(* A signed hello.                                                         *)

\* durable_forward_cursor_key, or the key the route is bound to.
DurableKey(n, p, first) ==
    LET started == {t \in DOMAIN n.cur : Started(n.cur[t])}
        own == {t \in started : p \in {n.cur[t].provider, n.cur[t].primary}}
        open == {t \in started : n.cur[t].state \in
                    {"retrieving", "waiting-for-provider", "complete", "replaying"}}
    IN  IF n.bind[p] \in started THEN n.bind[p]
        ELSE IF own /= {} THEN MostAdvanced(n, own, first)
        ELSE IF open /= {} THEN MostAdvanced(n, open, first)
        ELSE n.bind[p]

\* recovery_cursor_requires_provider
RequiresProvider(c) ==
    /\ Started(c) /\ ~ Finished(c)
    /\ c.state \in {"retrieving", "waiting-for-provider", "pending-retrieval"}

\* clear_canonical_recovery_cursor
ClearCanonical(n) ==
    LET done == {t \in DOMAIN n.cur : OnChain(n, t)}
        unstarted == {t \in DOMAIN n.cur \ done : LET c == n.cur[t] IN
                        /\ Number[t] < Number[n.best] /\ ~ Started(c)
                        /\ c.staged = 0 /\ c.bodies = 0}
        spools == {n.cur[t].ns : t \in done}
        m == [n EXCEPT !.spool = [k \in Block |-> IF k \in spools THEN {} ELSE @[k]],
                       !.disk = [k \in Block |-> IF k \in spools THEN {} ELSE @[k]]]
    IN  IF done \cup unstarted = {} THEN n
        ELSE Persist(Rebind(Forget(m, done \cup unstarted), done \cup unstarted, NoBlock))

Nothing == [kind |-> "none"]
AskRange(from) == [kind |-> "range", from |-> from]
AskAncestor(n) == [kind |-> "ancestor", tip |-> n.best]
AskWitness(c) == [kind |-> "witness", tip |-> c.tip, heights |-> c.samples]

\* primary_retarget: the tip of the job's own primary has moved on.
Retargets(n, p, k, t) ==
    /\ k \in DOMAIN n.cur
    /\ LET c == n.cur[k] IN
       Started(c) /\ Number[t] > Number[c.tip] /\ c.primary = p

\* The retained job continues, after the local chain if that is longer.
Resumed(c, p, local) ==
    [c EXCEPT !.parent = IF NextHeight(c) <= Number[local] THEN local ELSE @,
              !.provider = p, !.state = "retrieving"]

\* request_peer_branch_cursor for a peer at tip t: the node and what it asks,
\* from the last step to the first.
Requested(n, p, c) ==
    IF Started(c)
    THEN [db |-> RecordRequest(n, p, NextHeight(c)), ask |-> AskRange(NextHeight(c))]
    ELSE [db |-> RecordRequest(n, p, 0), ask |-> AskAncestor(n)]

RequestFor(n, p) == Requested(n, p, n.cur[n.bind[p]])

Opened(n, p, t, k) ==
    RequestFor(Persist(
        IF k \in DOMAIN n.cur /\ Started(n.cur[k])
        THEN Bind(Put(n, Resumed(n.cur[k], p, n.best)), p, k)
        ELSE Bind(IF t \in DOMAIN n.cur THEN n ELSE Put(n, NewCursor(t)), p, t)), p)

OpenedJoined(n, p, t) == Opened(n, p, t, n.bind[p])

Retargeted(n, p, t, k, first) ==
    IF Retargets(n, p, k, t)
    THEN OpenedJoined(Coalesce(n, p, t, n.cur[k].anc, n.cur[k].root, first), p, t)
    ELSE Opened(n, p, t, k)

Chosen(n, p, t, first) == Retargeted(n, p, t, DurableKey(n, p, first), first)

Reconciled(n, p, t, late, first) ==
    IF Number[t] <= Number[n.best] /\ CompletedTips(n) /= {}
    THEN [db |-> StartRecovery(n, late, first), ask |-> Nothing]
    ELSE Chosen(PruneTerminal(n), p, t, first)

RequestBranch(n, p, t, late, first) ==
    IF Number[t] < Number[n.best] \/ t = n.best
    THEN [db |-> ClearCanonical(n), ask |-> Nothing]
    ELSE Reconciled(Reconcile(n, p), p, t, late, first)

\* A session goes on, perhaps with a request, or ends and flushes its batch.
Continue(p, n, ask, count) ==
    /\ db' = n
    /\ sess' = [sess EXCEPT ![p] =
           [on |-> TRUE, count |-> count,
            asks |-> IF ask = Nothing THEN @.asks ELSE Append(@.asks, ask),
            inbox |-> IF @.inbox = <<>> THEN <<>> ELSE Tail(@.inbox)]]

\* Mutant: the lease is not released with the session.
CloseKeepsLease(p) == sess' = [sess EXCEPT ![p] = Closed] /\ UNCHANGED lease

Close(p) ==
    /\ sess' = [sess EXCEPT ![p] = Closed]
    /\ lease' = IF lease = p THEN NoPeer ELSE lease

End(p, n) == db' = Flush(n) /\ Close(p)

\* anyhow::bail! and ? leave the session without end_sync_batch.
Bail(p, n) == db' = n /\ Close(p)

\* The Hello branch of sync_with_peer: as the job's only provider ...
AsProvider(p, r, active) ==
    IF Head(remote[p]) = db.best /\ ~ active
    THEN End(p, r.db)
    ELSE /\ Continue(p, r.db, r.ask, 0)
         /\ lease' = IF active THEN p ELSE lease

\* ... or, while another session has the lease, as a witness.
AsWitness(p, n, c) ==
    IF c.witness = p /\ c.samples /= {}
    THEN Continue(p, n, AskWitness(c), 0) /\ UNCHANGED lease
    ELSE End(p, n)

Witnessing(p, k, n) == AsWitness(p, n, n.cur[k])

\* A witness that has left the tip of a completed job unblocks it.
Unblocked(n, p, k, t, late, first) ==
    IF k \in DOMAIN n.cur /\ Finished(n.cur[k]) /\ n.cur[k].witness = p /\ t /= k
    THEN StartRecovery(RemoveStaleWitness(n, p, k), late, first)
    ELSE n

HelloFor(p, t, k, active, late, first) ==
    \/ /\ ~ active
       /\ AsProvider(p, RequestBranch(Unblocked(db, p, k, t, late, first),
                                      p, t, late, first), FALSE)
    \/ /\ active /\ lease = NoPeer
       /\ AsProvider(p, RequestBranch(RegisterPrimary(db, p, k), p, t, late, first), TRUE)
    \/ /\ active /\ lease /= NoPeer
       /\ IF t /= k THEN End(p, RemoveStaleWitness(db, p, k))
          ELSE Witnessing(p, k, RegisterWitness(db, p, k))

HelloOn(p, k, late, first) ==
    HelloFor(p, Head(remote[p]), k, k \in DOMAIN db.cur /\ RequiresProvider(db.cur[k]),
             late, first)

Hello(p, late, first) ==
    /\ ~ sess[p].on
    /\ HelloOn(p, DurableKey(db, p, first), late, first)
    /\ UNCHANGED <<remote, faults>>

-----------------------------------------------------------------------------
(* What a peer answers (handle_p2p_message_from on its side).              *)

PeerChain(p) == LET t == Head(remote[p]) IN [h \in 0..Number[t] |-> Ancestor[t][h]]

\* FindCommonAncestor answers with the first locator hash it has a header of,
\* which may be the header of a candidate.
CommonAncestor(p, tip) ==
    LET known == {h \in 0..Number[tip] :
                     Ancestor[tip][h] \in Range(PeerChain(p)) \cup PeerHolds[p]}
    IN  Ancestor[tip][CHOOSE h \in known : \A m \in known : m <= h]

\* GetBlockRange stops at the first height the peer does not have.
Bodies(p, from) ==
    LET end == Min({from + RangeSize - 1, Number[Head(remote[p])]})
    IN  [i \in 1..(IF end < from THEN 0 ELSE end - from + 1) |->
            [kind |-> "body", block |-> PeerChain(p)[from + i - 1]]]

Answer(p, ask) ==
    CASE ask.kind = "ancestor" ->
            <<[kind |-> "ancestor", block |-> CommonAncestor(p, ask.tip)]>>
      [] ask.kind = "range" -> Bodies(p, ask.from)
      [] ask.kind = "witness" ->
            IF ask.tip = Head(remote[p])
            THEN <<[kind |-> "headers", tip |-> ask.tip,
                    heads |-> {PeerChain(p)[h] : h \in ask.heights}]>>
            ELSE <<[kind |-> "eof"]>>

PeerServes(p) ==
    /\ sess[p].asks /= <<>>
    /\ sess' = [sess EXCEPT ![p].asks = Tail(@),
                            ![p].inbox = @ \o Answer(p, Head(sess[p].asks))]
    /\ UNCHANGED <<db, lease, remote, faults>>

-----------------------------------------------------------------------------
(* The frames a session receives.                                          *)

Receives(p, kind) ==
    /\ sess[p].inbox /= <<>> /\ Head(sess[p].inbox).kind = kind
    /\ UNCHANGED <<remote, faults>>

Frame(p) == Head(sess[p].inbox)

\* CommonAncestor: the job starts or joins an older one, and its bodies are
\* requested unless another session has the lease.
AskFrom(p, n, next, count) ==
    Continue(p, RecordRequest(n, p, next), AskRange(next), count)

AskNext(p, n) == AskFrom(p, n, NextHeight(n.cur[n.bind[p]]), sess[p].count)

BeginRange(p, n) ==
    IF lease \notin {p, NoPeer} THEN End(p, n)
    ELSE AskNext(p, RegisterPrimary(n, p, n.bind[p])) /\ lease' = p

JobAt(c, b) ==
    [c EXCEPT !.anc = b, !.parent = b, !.staged = Number[b], !.state = "retrieving"]

FoundAncestor(p, first) ==
    LET b == Frame(p).block
        k == db.bind[p]
    IN  /\ Receives(p, "ancestor")
        /\ IF ~ OnChain(db, b) \/ ~ Bound(db, p) THEN Bail(p, db)
           ELSE BeginRange(p, Persist(Coalesce(Put(db, JobAt(db.cur[k], b)),
                                               p, k, b, NoBlock, first)))

\* is_expected_recovery_body
IsExpected(n, p, b) ==
    \E t \in Charged(n, p) : LET c == n.cur[t] IN
        /\ Started(c) /\ c.state \in {"retrieving", "waiting-for-provider"}
        /\ Number[b] = NextHeight(c) /\ Parent[b] = c.parent

HasJob(n, p) == \E t \in Charged(n, p) : Started(n.cur[t])

IsCanonicalNext(n, b) == b /= Genesis /\ Parent[b] = n.best

\* downloaded_bodies is compared with heights and taken modulo the checkpoint
\* size, so a count beyond every height is kept up to that modulus.
Counted(n) ==
    LET deepest == Max({Number[b] : b \in Block})
    IN  IF n < deepest + CheckpointSize THEN n + 1 ELSE n + 1 - CheckpointSize

\* record_forward_recovery_progress: a checkpoint every few bodies.
Checkpoint(n, c) ==
    IF c.state = "complete" \/ c.bodies % CheckpointSize = 0
    THEN Persist(Put(n, c)) ELSE Put(n, c)

Progress(n, c, b) ==
    Checkpoint(n, [c EXCEPT
        !.root = IF @ = NoBlock /\ Number[b] = Number[c.anc] + 1 THEN b ELSE @,
        !.bodies = Counted(@), !.staged = Number[b], !.parent = b,
        !.progressed = TRUE,
        !.state = IF Number[b] >= Number[c.tip] THEN "complete" ELSE "retrieving"])

\* The session after a body of the range: it ends on a conflict with the
\* witness or on the last body, and asks again after a full range.
AfterBody(p, n, c, b, last, count, late, first) ==
    IF c.state = "conflicting" THEN Bail(p, n)
    ELSE IF last \/ (Number[b] \in c.samples /\ Finished(c) /\ Publishable(c))
    THEN End(p, StartRecovery(Flush(n), late, first))
    ELSE /\ UNCHANGED lease
         /\ IF count >= RangeSize
            THEN AskFrom(p, IF count % CheckpointSize = 0 THEN Flush(n) ELSE n,
                         Number[b] + 1, 0)
            ELSE Continue(p, IF count % CheckpointSize = 0 THEN Flush(n) ELSE n,
                          Nothing, count)

Sampled(n, c, b) ==
    IF Number[b] \in c.samples THEN Persist(Put(n, PrimarySample(c, b))) ELSE n

SampledBody(n, p, b) == Sampled(n, n.cur[n.bind[p]], b)

Handled(p, n, b, last, late, first) ==
    AfterBody(p, n, n.cur[n.bind[p]], b, last, sess[p].count + 1, late, first)

Stored(n, ns, b) == [n EXCEPT !.spool[ns] = Spooled(@, b)]

BodyOf(p, c, b, late, first) ==
    Handled(p, SampledBody(CoalesceByRoot(Progress(Stored(db, c.ns, b), c, b), p, first), p, b),
            b, Number[b] >= Number[c.tip], late, first)

\* A body of the range: import_recovery_block, then the cursor moves.
RangeBody(p, late, first) ==
    LET b == Frame(p).block IN
    /\ Receives(p, "body")
    /\ IsExpected(db, p, b)
    /\ IF ~ Bound(db, p) THEN Bail(p, db)
       ELSE IF ~ Known(db, Parent[b]) /\ ~ InSpool(db, Parent[b]) THEN End(p, Persist(db))
       ELSE BodyOf(p, db.cur[db.bind[p]], b, late, first)

\* A body that is not the next one of the job and not canonical either.
UnrequestedBody(p) ==
    LET b == Frame(p).block IN
    /\ Receives(p, "body")
    /\ ~ IsExpected(db, p, b)
    /\ IF Bound(db, p) /\ ~ Started(db.cur[db.bind[p]]) /\ b /= db.bind[p]
       THEN Bail(p, db)
       ELSE /\ HasJob(db, p)
            /\ ~ IsCanonicalNext(db, b) /\ ~ OnChain(db, b)
            /\ End(p, RecordFailure(ResetForFork(db, p), p))

\* Any other body goes through import_network_block.  A parent that is not
\* known would start the older reverse walk; the model ends the session there.
Imported(n, b) ==
    CASE IsCanonicalNext(n, b) -> [n EXCEPT !.best = b, !.cand = @ \ {b}]
      [] OnChain(n, b) -> n
      [] OTHER -> [n EXCEPT !.cand = @ \cup {b}]

\* record_canonical_recovery_root, when b is the first body of the job of p.
RootProved(n, p, b) ==
    /\ Bound(n, p) /\ Started(n.cur[n.bind[p]])
    /\ OnChain(n, b) /\ Parent[b] = n.cur[n.bind[p]].anc

ProveRoot(n, p, b) ==
    IF RootProved(n, p, b)
    THEN Reconcile(Persist([n EXCEPT !.cur[n.bind[p]].root = b]), p) ELSE n

AfterOrdinary(p, n, b, proved, count) ==
    /\ UNCHANGED lease
    /\ IF Bound(n, p) /\ Started(n.cur[n.bind[p]]) /\ (proved \/ count >= RangeSize)
       THEN AskFrom(p, n, Number[b] + 1, 0)
       ELSE Continue(p, n, Nothing, count)

OrdinaryBody(p) ==
    LET b == Frame(p).block IN
    /\ Receives(p, "body")
    /\ ~ IsExpected(db, p, b)
    /\ ~ (Bound(db, p) /\ ~ Started(db.cur[db.bind[p]]) /\ b /= db.bind[p])
    /\ HasJob(db, p) => IsCanonicalNext(db, b) \/ OnChain(db, b)
    /\ IF ~ Known(db, Parent[b]) THEN End(p, db)
       ELSE AfterOrdinary(p, ProveRoot(Imported(db, b), p, b), b,
                          RootProved(Imported(db, b), p, b), sess[p].count + 1)

\* WitnessHeadersResponse, after which the session always ends.
Witnessed(p, n, c, late, first) ==
    IF Finished(c) /\ SamplesMatch(c)
    THEN End(p, StartRecovery(Persist(n), late, first))
    ELSE End(p, Persist(n))

Compared(p, c, heads, late, first) ==
    IF Offending(c, heads) = {}
    THEN Witnessed(p, Put(db, WitnessSample(c, heads)), WitnessSample(c, heads), late, first)
    ELSE IF WitnessSample(c, heads).state = "conflicting"
    THEN Bail(p, Persist(Put(db, WitnessSample(c, heads))))
    ELSE Bail(p, Put(db, WitnessSample(c, heads)))

WitnessAnswers(p, late, first) ==
    LET t == Frame(p).tip IN
    /\ Receives(p, "headers")
    /\ IF t \notin DOMAIN db.cur \/ db.cur[t].witness /= p THEN Bail(p, db)
       ELSE Compared(p, db.cur[t], Frame(p).heads, late, first)

\* The peer closed the connection.
PeerCloses(p) == Receives(p, "eof") /\ End(p, db)

Fault(kind) == Len(faults) < MaxFaults /\ faults' = Append(faults, kind)

\* A read deadline ends a session in which nothing is under way ...
ReadTimeout(p) ==
    /\ sess[p].on /\ sess[p].asks = <<>> /\ sess[p].inbox = <<>>
    /\ End(p, RecordFailure(db, p))
    /\ UNCHANGED <<remote, faults>>

\* ... and a broken connection or the watchdog ends any session.
SessionLost(p) ==
    /\ sess[p].on /\ Fault("lost")
    /\ sess[p].asks /= <<>> \/ sess[p].inbox /= <<>>
    /\ End(p, RecordFailure(db, p))
    /\ UNCHANGED remote

-----------------------------------------------------------------------------
(* The worker of start_candidate_recovery.                                 *)

WorkerIs(pc) ==
    /\ db.worker.pc = pc
    /\ UNCHANGED <<sess, lease, remote>>

\* The fork point of b and the canonical chain.
ForkPoint(n, b) ==
    LET shared == {h \in 0..Number[b] : OnChain(n, Ancestor[b][h])}
    IN  Ancestor[b][CHOOSE h \in shared : \A m \in shared : m <= h]

\* The job of the thread gets state s, and the thread ends.
WorkerStops(s) == db' = [SetState(db, db.worker.tip, s) EXCEPT !.worker = Idle]

\* candidate_branch_from_storage; base is the tip at that time.
WorkerAssembles ==
    /\ WorkerIs("assemble")
    /\ IF Assembles(db, db.worker.tip)
       THEN db' = [db EXCEPT !.worker.base = db.best,
                             !.worker.pc = IF ForkPoint(db, db.worker.tip) = db.best
                                           THEN "direct" ELSE "replay"]
       ELSE WorkerStops("waiting-for-provider")
    /\ UNCHANGED faults

\* The branch is canonical, and no block of it is a candidate any more.
Published(b) ==
    db' = [db EXCEPT !.best = b, !.worker.pc = "finalize",
                     !.cand = {x \in @ : ~ IsAncestor(x, b)}]

\* import_direct_recovery_batch bails when its parent is no longer the tip; a
\* tip that moved before direct_extension was read leads to the staged replay.
WorkerExtends ==
    /\ WorkerIs("direct")
    /\ \/ db.worker.base = db.best /\ Published(db.worker.tip)
       \/ db.worker.base /= db.best /\ WorkerStops("complete")
       \/ db.worker.base /= db.best /\ db' = [db EXCEPT !.worker.pc = "replay"]
    /\ UNCHANGED faults

\* stage_and_publish_candidate reads the active tip and replays the branch.
WorkerReplays ==
    /\ WorkerIs("replay")
    /\ db' = [db EXCEPT !.worker.base = db.best, !.worker.pc = "publish"]
    /\ UNCHANGED faults

\* Mutant: the work is not compared again under the storage lock.
PublishesUnchecked ==
    /\ WorkerIs("publish")
    /\ IF db.worker.base = db.best THEN Published(db.worker.tip) ELSE WorkerStops("complete")
    /\ UNCHANGED faults

\* The end of stage_and_publish_candidate: "active tip changed during replay"
\* leaves the job complete, "superseded by current canonical work" rejects it.
WorkerPublishes ==
    LET b == db.worker.tip IN
    /\ WorkerIs("publish")
    /\ IF db.worker.base /= db.best THEN WorkerStops("complete")
       ELSE IF Outranks(b, db.best) THEN Published(b)
       ELSE db' = [Reject(db, b) EXCEPT !.worker = Idle]
    /\ UNCHANGED faults

\* A resource limit or a missing snapshot: the job is complete again.
WorkerDefers ==
    /\ \E pc \in {"direct", "replay", "publish"} : WorkerIs(pc)
    /\ WorkerStops("complete")
    /\ Fault("deferred")

\* finalize_published_recovery
WorkerFinalizes ==
    LET t == db.worker.tip
        n == IF t \notin DOMAIN db.cur THEN db
             ELSE Persist(Rebind(Forget(ClearSpool(db, db.cur[t].ns), {t}), {t}, NoBlock))
    IN  /\ WorkerIs("finalize")
        /\ db' = [n EXCEPT !.worker = Idle]
        /\ UNCHANGED faults

\* clear_recovery_spool_for_tip fails, perhaps after it removed bodies up to
\* height h: the cursor stays as it is.
WorkerLeavesSpool(h) ==
    LET t == db.worker.tip IN
    /\ WorkerIs("finalize")
    /\ t \in DOMAIN db.cur
    /\ db' = [db EXCEPT !.worker = Idle,
                        !.spool[db.cur[t].ns] = {x \in @ : Number[x] > h}]
    /\ Fault("uncleared")

-----------------------------------------------------------------------------
(* The rest of the world.                                                  *)

\* A block of another path extends the canonical chain.
Gossip(b) ==
    /\ b \in Gossiped /\ IsCanonicalNext(db, b)
    /\ db' = [db EXCEPT !.best = b, !.cand = @ \ {b}]
    /\ UNCHANGED <<sess, lease, remote, faults>>

\* A peer adopts its next canonical tip.
PeerMoves(p) ==
    /\ Len(remote[p]) > 1
    /\ remote' = [remote EXCEPT ![p] = Tail(@)]
    /\ UNCHANGED <<db, sess, lease, faults>>

\* prune_duplicate_recovery_cursors: of the cursors for one spool, ancestor
\* and root, the most advanced stays.
Duplicate(c, d) ==
    /\ c.ns = d.ns /\ c.anc = d.anc /\ c.root = d.root
    /\ c.anc /= NoBlock /\ c.root /= NoBlock
    /\ \/ d.staged > c.staged
       \/ d.staged = c.staged /\ Number[d.tip] > Number[c.tip]

\* Mutant: the saved states are taken as they are.
TakenAsSaved(cur) == cur

\* normalize_branch_sync_cursors: completion is derived, not remembered.
Normalized(cur) ==
    LET done == [t \in DOMAIN cur |->
                    IF Started(cur[t]) /\ Finished(cur[t])
                    THEN [cur[t] EXCEPT !.state = "complete"] ELSE cur[t]]
    IN  Restrict(done, {t \in DOMAIN cur :
            \A u \in DOMAIN cur : ~ Duplicate(done[t], done[u])})

\* The first body of a spool, and the last that continues it without a gap.
Lowest(S) == CHOOSE b \in S : \A x \in S : Number[b] <= Number[x]
SpoolEnd(S) == ContinuedTo(S, Parent[Lowest(S)])

\* The spools no cursor names that join the chain and reach above it.
Orphaned(n) ==
    {ns \in Block :
        /\ n.spool[ns] /= {}
        /\ \A t \in DOMAIN n.cur : n.cur[t].ns /= ns
        /\ Lowest(n.spool[ns]) /= Genesis /\ OnChain(n, Parent[Lowest(n.spool[ns])])
        /\ Number[SpoolEnd(n.spool[ns])] > Number[n.best]}

SpoolJob(ns, low, last) ==
    [NewCursor(last) EXCEPT
        !.ns = ns, !.anc = Parent[low], !.root = low,
        !.bodies = Number[last] - Number[low] + 1,
        !.staged = Number[last], !.parent = last, !.state = "complete"]

\* restore_orphaned_recovery_spools: a job for each of them; of two spools that
\* end in the same block the later one in the key order is kept.
RestoredSpools(n) ==
    LET ends == {SpoolEnd(n.spool[ns]) : ns \in Orphaned(n)}
        owner(t) == CHOOSE ns \in Orphaned(n) :
                        /\ SpoolEnd(n.spool[ns]) = t
                        /\ \A x \in Orphaned(n) :
                              SpoolEnd(n.spool[x]) = t => HashRank[x] <= HashRank[ns]
        job(t) == SpoolJob(owner(t), Lowest(n.spool[owner(t)]), t)
    IN  IF ends = {} THEN n
        ELSE Persist([n EXCEPT !.cur =
                 [t \in DOMAIN @ \cup ends |-> IF t \in ends THEN job(t) ELSE @[t]]])

\* The process stops and starts again.  Bodies stored since the last flush
\* survive up to some height; routes, leases and the worker are gone.
Torn(n, h) ==
    [ns \in Block |->
        LET kept == {b \in n.spool[ns] : b \in n.disk[ns] \/ Number[b] <= h}
        IN  kept \cup {b \in n.disk[ns] : \A x \in kept : Number[x] /= Number[b]}]

Restarted(spool, cur) ==
    [db EXCEPT !.spool = spool, !.disk = spool, !.cur = cur, !.saved = cur,
               !.bind = [p \in Peer |-> NoBlock], !.worker = Idle]

Crash(h, late, first) ==
    /\ Fault("crash")
    /\ db' = StartRecovery(RestoredSpools(Restarted(Torn(db, h), Normalized(db.saved))),
                           late, first)
    /\ sess' = [p \in Peer |-> Closed]
    /\ lease' = NoPeer
    /\ UNCHANGED remote

-----------------------------------------------------------------------------
Init ==
    /\ db = [best |-> StartTip, cand |-> {},
             spool |-> [b \in Block |-> {}], disk |-> [b \in Block |-> {}],
             cur |-> [t \in {} |-> NewCursor(StartTip)],
             saved |-> [t \in {} |-> NewCursor(StartTip)],
             bind |-> [p \in Peer |-> NoBlock], worker |-> Idle]
    /\ sess = [p \in Peer |-> Closed]
    /\ lease = NoPeer
    /\ remote \in RemoteTips
    /\ faults = <<>>

\* A tie in progress may be broken in favour of any job.
Firsts == DOMAIN db.cur \cup {NoBlock}

SessionStep(p) ==
    \/ \E late \in BOOLEAN, first \in Firsts :
          \/ Hello(p, late, first)
          \/ RangeBody(p, late, first)
          \/ WitnessAnswers(p, late, first)
    \/ \E first \in Firsts : FoundAncestor(p, first)
    \/ UnrequestedBody(p)
    \/ OrdinaryBody(p)
    \/ PeerCloses(p)
    \/ ReadTimeout(p)

WorkerStep ==
    \/ WorkerAssembles \/ WorkerExtends \/ WorkerReplays \/ WorkerPublishes \/ WorkerFinalizes

Next ==
    \/ \E p \in Peer : SessionStep(p) \/ PeerServes(p) \/ PeerMoves(p) \/ SessionLost(p)
    \/ WorkerStep
    \/ WorkerDefers
    \/ \E h \in 0..Number[db.best] : WorkerLeavesSpool(h)
    \/ \E b \in Gossiped : Gossip(b)
    \/ \E h \in 0..Number[db.best] + 4, late \in BOOLEAN, first \in Firsts :
          Crash(h, late, first)

Spec == Init /\ [][Next]_vars

\* The next hello of p would end at once: another session holds the lease of
\* the job, or both sides are at the same tip.
TurnedAway(p) ==
    /\ ~ sess[p].on
    /\ \E first \in Firsts : LET k == DurableKey(db, p, first) IN
          IF k \in DOMAIN db.cur /\ RequiresProvider(db.cur[k])
          THEN lease /= NoPeer ELSE Head(remote[p]) = db.best

\* The sync worker of p, the peer and the timeouts go on: a session greets again,
\* is answered, handles a frame or times out, each of which changes sess[p].
\* (Weak fairness of those steps, in a form that needs no ENABLED.)
StaysInTouch(p) == []<>TurnedAway(p) \/ []<><<sess'[p] /= sess[p]>>_vars

\* The recovery thread goes on; peers may leave for good ...
ThreadSpec == Spec /\ WF_vars(WorkerStep)

\* ... or none of them does.
FairSpec == ThreadSpec /\ \A p \in Peer : StaysInTouch(p)

-----------------------------------------------------------------------------
(* Properties.                                                             *)

JobType(c) ==
    /\ c.tip \in Block /\ c.ns \in Block
    /\ {c.anc, c.root, c.parent} \subseteq Block \cup {NoBlock}
    /\ {c.provider, c.primary, c.witness} \subseteq Peer \cup {NoPeer}
    /\ c.staged \in Nat /\ c.bodies \in Nat /\ c.samples \subseteq Nat
    /\ c.mine \cup c.theirs \subseteq Block

\* The variables have their types; a job, in memory and on disk, is filed
\* under its own tip, and a route names a job that exists.
TypeOK ==
    /\ db.best \in Block /\ db.cand \subseteq Block
    /\ db.spool \in [Block -> SUBSET Block] /\ db.disk \in [Block -> SUBSET Block]
    /\ \A t \in DOMAIN db.cur : JobType(db.cur[t]) /\ db.cur[t].tip = t
    /\ \A t \in DOMAIN db.saved : JobType(db.saved[t]) /\ db.saved[t].tip = t
    /\ \A p \in Peer : db.bind[p] \in DOMAIN db.cur \cup {NoBlock}
    /\ db.worker.pc \in {"idle", "assemble", "direct", "replay", "publish", "finalize"}
    /\ lease \in Peer \cup {NoPeer}
    /\ Len(faults) <= MaxFaults

\* Whatever peers, restarts, gossip and the worker do in between, the node
\* never gives up canonical work for a recovered branch: the work decided on
\* when the branch was assembled is compared again when it is published.
WorkNeverDecreases ==
    [][TotalWork[db'.best] >= TotalWork[db.best]]_vars

\* The recovery thread leaves no mark on an unpublished branch: when it has
\* stopped, at an error, with the tip published or in a crash, the job it worked
\* on is not still marked as replaying with all its bodies there, unless its tip
\* is canonical and its spool could not be cleared.  The mark stops every further
\* recovery (any_recovery_replay_is_active), so that branch would stay unpublished.
ThreadClearsMark ==
    [][ db.worker.pc /= "idle" /\ db'.worker.pc = "idle" =>
          \A t \in DOMAIN db'.cur \cap {db.worker.tip} :
              LET c == db'.cur[t] IN
              Started(c) /\ Finished(c) /\ c.state = "replaying" =>
                  OnChain(db', t) /\ faults' = Append(faults, "uncleared")]_vars

\* Downloaded bodies are kept while they are needed: short of a crash, a spool
\* is emptied only for a job of its own, when the chain has reached the tip or a
\* body of that job, or has left the ancestor the job starts from.
SpoolSurvives ==
    [][ faults' /= Append(faults, "crash") =>
          \A ns \in Block : db.spool[ns] /= {} /\ db'.spool[ns] = {} =>
              \E t \in DOMAIN db.cur : LET c == db.cur[t] IN
                  /\ c.ns = ns
                  /\ \/ \E b \in {t} \cup db.spool[ns] \cup db.spool[t] : OnChain(db', b)
                     \/ Started(c) /\ ~ OnChain(db', c.anc)]_vars

\* A job with all its bodies that a hello has marked as retrieving again: nothing
\* is left to ask for, and start_candidate_recovery looks for complete jobs only.
Reopened(t) == LET c == db.cur[t] IN Started(c) /\ Finished(c) /\ c.state = "retrieving"

\* A node left with one peer on a heavier branch gets to that branch, whatever
\* witnesses and providers it had before and through crashes, lost connections,
\* deferred publications and blocks gossiped onto its own branch, unless it ends
\* with a complete job that request_peer_branch_cursor has reopened.
CatchesUpAlone ==
    \A p \in Peer :
        StaysInTouch(p) /\ <>[](Len(remote[p]) = 1 /\ \A q \in Peer \ {p} : ~ sess[q].on)
        => \/ []<>(TotalWork[db.best] >= TotalWork[Head(remote[p])])
           \/ <>[](\E t \in DOMAIN db.cur : Reopened(t))

\* What the comment in request_peer_branch_cursor wants to rule out: a complete
\* job is not reopened and left waiting, so again and again every job that has
\* all its bodies is published.
CompletedJobsSettle ==
    []<>(\A t \in DOMAIN db.cur : Finished(db.cur[t]) => OnChain(db, t))

\* What the comments in start_candidate_recovery and before
\* coalesce_recovery_job_after_branch_root want: the mark is not sticky, so a job
\* marked as replaying, whatever it has fetched, is the one the thread works on.
MarkHasThread ==
    \A t \in DOMAIN db.cur :
        db.cur[t].state = "replaying" => db.worker.pc /= "idle" /\ db.worker.tip = t

\* The ancestor a peer answers with is on the chain whose bodies it serves.
AncestorIsProved ==
    \A p \in Peer : \A i \in DOMAIN sess[p].inbox :
        LET f == sess[p].inbox[i] IN
        f.kind = "ancestor" => IsAncestor(f.block, Head(remote[p]))
=============================================================================
