----------------------------- MODULE Retention -----------------------------
(***************************************************************************)
(* The generations of a full node on disk: which one a start serves, what  *)
(* a failed one is replaced by, and what retention removes.                *)
(*                                                                         *)
(* data_dir/generations holds directories generation-N, unfinished ones    *)
(* named generation-N.staging, and active-generation.json, which names one *)
(* of them.  A node that never had a generation serves the database in     *)
(* data_dir itself, the root.  NodeStorage::open tries the active          *)
(* generation, then the others, then the full snapshots kept in them, then *)
(* the root; an over-quota pruned generation is rewritten from a snapshot  *)
(* of its tip.  Every write another start can see is a step here, and the  *)
(* process may end between two of them.  A block and everything written    *)
(* with it is one step: GenerationStore is about the writes inside it, and *)
(* a generation torn there is one that a crash damages here.               *)
(*                                                                         *)
(* Every chain starts at the configured genesis block and every snapshot   *)
(* has the configured profile.                                             *)
(***************************************************************************)
EXTENDS BlockTree, FiniteSets, FiniteSetsExt

CONSTANTS
    None,           \* an absent directory, file or value
    Damaged,        \* a database that cannot be opened or does not verify
    Root,           \* the database in data_dir itself
    MaxId,          \* bound: generation ids
    Pruning,        \* pruning_enabled()
    Depth,          \* FINALITY_CONFIRMATION_DEPTH
    Interval,       \* EXECUTION_SNAPSHOT_INTERVAL
    Window,         \* the 64 blocks of ensure_storage_cap
    Layouts,        \* what earlier runs and releases left: [active, root, gens]
    Heights,        \* the heights the operator asks snapshot-recovery for
    MaxEvent        \* bound: crashes, failed writes and offline commands

Id == 1..MaxId

ASSUME RetentionAssumption ==
    /\ {None, Damaged, Root} \cap (Block \cup Id) = {}
    /\ None /= Damaged /\ None /= Root /\ Damaged /= Root
    /\ MaxId \in Nat \ {0} /\ Interval \in Nat \ {0}
    /\ {Depth, Window, MaxEvent} \subseteq Nat
    /\ Pruning \in BOOLEAN
    /\ Heights \subseteq Nat

VARIABLES
    gens,       \* gens[i]: directory generation-i, or None
    staging,    \* staging[i]: directory generation-i.staging, or None
    active,     \* active-generation.json: an id, or None
    root,       \* the root: its tip, None if it is empty, and has it a manifest
    serving,    \* the open store [id, tip, linked], or None; linked: its
                \* directory has not been removed under it
    over,       \* the store in use takes at least max_storage_bytes
    pending,    \* CANONICAL_MAINTENANCE_PENDING and the queued job
    cmd,        \* the height snapshot-recovery is run for, None for the node
    pc,         \* the next step of the process, "down" if there is none
    left,       \* what the step has yet to look at: ids, or snapshots
    best,       \* restore_failed_publication_generations: its choice so far
    job,        \* the generation being built: [id, block, for], or None
    held,       \* history: the tip served last, None once its store is lost or
                \* if the root was served although the pointer names a generation
    events      \* history: the number of [crashes, writes that failed, commands]

disk == <<gens, staging, active, root>>
vars == <<gens, staging, active, root, serving, over, pending, cmd, pc, left,
          best, job, held, events>>

-----------------------------------------------------------------------------
(***************************************************************************)
(* Directories.  names is the tip in the manifest, or None without one;    *)
(* db the tip of the database; whole says that every key was written;      *)
(* check that the replay checkpoint is there, as the manifest asks; record *)
(* that there is a publication record.                                     *)
(***************************************************************************)
Directory ==
    [status : {"Staging", "Verified", "Active", "Failed"},
     names  : Block \cup {None},
     db     : Block \cup {None, Damaged},
     whole  : BOOLEAN,
     check  : BOOLEAN,
     record : BOOLEAN,
     snaps  : SUBSET Block,
     execs  : SUBSET Block]

Store == [id : Id \cup {Root}, tip : Block \cup {None}, linked : BOOLEAN]
RootStore == [tip : Block \cup {None, Damaged}, manifest : BOOLEAN]
Job == [id : Id, block : Block \cup {None}, for : {"judge", "restore", "compact", "recover"}]

\* A directory with nothing in it but an empty database: sled creates one
\* when a missing generation is opened.
Created ==
    [status |-> "Staging", names |-> None, db |-> None, whole |-> FALSE,
     check |-> FALSE, record |-> FALSE, snaps |-> {}, execs |-> {}]

\* What publish_staging_generation renames: a generation with tip b.
Complete(b) ==
    [status |-> "Verified", names |-> b, db |-> b, whole |-> TRUE,
     check |-> TRUE, record |-> TRUE, snaps |-> {b}, execs |-> {}]

\* finalized_height
Final(b) == IF Number[b] > Depth THEN Number[b] - Depth ELSE 0

Published == {i \in Id : gens[i] /= None}
Snapshots == UNION {gens[i].snaps : i \in Published}

(***************************************************************************)
(* validate_generation_storage_for_config on an open store: it has the     *)
(* configured genesis, its headers lead to its tip, and its manifest is    *)
(* publishable, names that tip and has its checkpoint.  A pruned node does *)
(* without a manifest, and ensure_generation_manifest writes one.          *)
(***************************************************************************)
Verifies(d) ==
    /\ d.db \in Block
    /\ IF d.names = None THEN Pruning
       ELSE d.status \in {"Verified", "Active"} /\ d.names = d.db /\ d.check

(***************************************************************************)
(* A layout is what a node that served its active generation, or the root, *)
(* may leave behind.  None is neither a directory nor a store nor a job.   *)
(***************************************************************************)
ASSUME LayoutAssumption ==
    /\ None \notin Directory \cup Store \cup Job
    /\ \A l \in Layouts :
          /\ l.gens \in [Id -> Directory \cup {None}]
          /\ l.active \in Id \cup {None}
          /\ l.root \in RootStore /\ l.root.tip /= Damaged
          /\ \A i \in Id : l.gens[i] /= None /\ l.gens[i].db \in Block => l.gens[i].whole
          /\ l.active /= None => l.gens[l.active] /= None /\ Verifies(l.gens[l.active])

WithManifest(d) ==
    IF d.names /= None THEN d
    ELSE [d EXCEPT !.names = d.db, !.status = "Active", !.check = TRUE]

\* The first free id from i on.
FreeFrom(i) == {j \in Id : j >= i /\ gens[j] = None /\ staging[j] = None}

Opened(i) == IF gens[i] = None THEN Created ELSE gens[i]

Init ==
    /\ \E l \in Layouts :
          /\ gens = l.gens /\ active = l.active /\ root = l.root
          /\ held = IF l.active = None THEN l.root.tip ELSE l.gens[l.active].db
    /\ staging = [i \in Id |-> None]
    /\ serving = None
    /\ over = FALSE /\ pending = FALSE
    /\ cmd = None /\ pc = "down" /\ left = {} /\ best = None /\ job = None
    /\ events = [crash |-> 0, write |-> 0, command |-> 0]

\* The process stops: an error that main reports, or the end of a command.
Stop ==
    /\ pc' = "down" /\ serving' = None /\ cmd' = None
    /\ left' = {} /\ best' = None /\ job' = None /\ pending' = FALSE

\* The pointer names the store that is served, which is still there.
InUse == serving.linked /\ (serving.id = Root => active = None)

Event(kind) ==
    /\ events.crash + events.write + events.command < MaxEvent
    /\ events' = [events EXCEPT ![kind] = @ + 1]

-----------------------------------------------------------------------------
(***************************************************************************)
(* NodeStorage::open, first part: restore_failed_publication_generations.  *)
(* Every failed generation with a publication record is marked Verified    *)
(* and validated; one that does not validate is marked Failed again.  The  *)
(* heaviest of those and the active one becomes active.                    *)
(***************************************************************************)
Begin(c) ==
    /\ pc = "down"
    /\ cmd' = c
    /\ gens' = IF active = None THEN gens ELSE [gens EXCEPT ![active] = Opened(active)]
    /\ best' = IF active /= None /\ Verifies(Opened(active)) THEN active ELSE None
    /\ left' = {i \in Published : gens[i].status = "Failed" /\ gens[i].record}
    /\ pc' = "retry"
    /\ UNCHANGED <<staging, active, root, serving, over, pending, job, held>>

StartNode == Begin(None) /\ UNCHANGED events

Retry(i) ==
    /\ pc = "retry" /\ i \in left
    /\ gens' = [gens EXCEPT ![i].status = "Verified"]
    /\ left' = left \ {i}
    /\ job' = [id |-> i, block |-> None, for |-> "judge"]
    /\ pc' = "judge"
    /\ UNCHANGED <<staging, active, root, serving, over, pending, cmd, best, held, events>>

\* Mutation: the last generation that validates wins, whatever its work.
JudgeLast ==
    /\ pc = "judge"
    /\ IF Verifies(gens[job.id])
       THEN best' = job.id /\ UNCHANGED gens
       ELSE gens' = [gens EXCEPT ![job.id].status = "Failed"] /\ UNCHANGED best
    /\ job' = None
    /\ pc' = "retry"
    /\ UNCHANGED <<staging, active, root, serving, over, pending, cmd, left, held, events>>

Judge ==
    /\ pc = "judge"
    /\ IF Verifies(gens[job.id])
       THEN /\ best' = IF best = None \/ Outranks(gens[job.id].db, gens[best].db)
                        THEN job.id ELSE best
            /\ UNCHANGED gens
       ELSE gens' = [gens EXCEPT ![job.id].status = "Failed"] /\ UNCHANGED best
    /\ job' = None
    /\ pc' = "retry"
    /\ UNCHANGED <<staging, active, root, serving, over, pending, cmd, left, held, events>>

Judged ==
    /\ pc = "retry" /\ left = {}
    /\ active' = IF best = None THEN active ELSE best
    /\ left' = Published \cup ({active'} \ {None})
    /\ best' = None
    /\ pc' = "select"
    /\ UNCHANGED <<gens, staging, root, serving, over, pending, cmd, job, held, events>>

-----------------------------------------------------------------------------
(***************************************************************************)
(* NodeStorage::open, second part: the active generation, then the others  *)
(* from the highest id down; the first that validates is made active.      *)
(***************************************************************************)
Candidate == IF active \in left THEN active ELSE Max(left)

Select ==
    /\ pc = "select" /\ left /= {}
    /\ Verifies(Opened(Candidate))
    /\ active' = Candidate
    /\ serving' = [id |-> Candidate, tip |-> gens[Candidate].db, linked |-> TRUE]
    /\ over' \in IF Candidate = active THEN {over} ELSE BOOLEAN
    /\ left' = {}
    /\ IF Pruning /\ over'
       THEN pc' = "compact" /\ UNCHANGED gens
       ELSE /\ pc' = "opened"
            /\ gens' = [gens EXCEPT ![Candidate] = WithManifest(@)]
    /\ UNCHANGED <<staging, root, pending, cmd, best, job, held, events>>

\* Mutation: a generation that does not validate is an error of open.
RejectFails ==
    /\ pc = "select" /\ left /= {}
    /\ ~Verifies(Opened(Candidate))
    /\ gens' = [gens EXCEPT ![Candidate] =
                   IF Opened(Candidate).names = None THEN Opened(Candidate)
                   ELSE [@ EXCEPT !.status = "Failed"]]
    /\ Stop
    /\ UNCHANGED <<staging, active, root, over, held, events>>

\* fail_generation, which needs a manifest to mark.
Reject ==
    /\ pc = "select" /\ left /= {}
    /\ ~Verifies(Opened(Candidate))
    /\ gens' = [gens EXCEPT ![Candidate] =
                   IF Opened(Candidate).names = None THEN Opened(Candidate)
                   ELSE [@ EXCEPT !.status = "Failed"]]
    /\ left' = left \ {Candidate}
    /\ UNCHANGED <<staging, active, root, serving, over, pending, cmd, pc, best, job, held, events>>

\* Mutation: only the newest generation is searched for snapshots.
SelectNoneOfNewest ==
    /\ pc = "select" /\ left = {}
    /\ left' = UNION {gens[i].snaps : i \in {j \in Published : \A k \in Published : k <= j}}
    /\ pc' = "restore"
    /\ UNCHANGED <<disk, serving, over, pending, cmd, best, job, held, events>>

SelectNone ==
    /\ pc = "select" /\ left = {}
    /\ left' = Snapshots
    /\ pc' = "restore"
    /\ UNCHANGED <<disk, serving, over, pending, cmd, best, job, held, events>>

(***************************************************************************)
(* restore_latest_generation_snapshot: the highest full snapshot first.    *)
(***************************************************************************)
Restore(s) ==
    /\ pc = "restore" /\ s \in left
    /\ \A r \in left : Number[r] <= Number[s]
    /\ FreeFrom(Max(Published) + 1) /= {}
    /\ job' = [id |-> Min(FreeFrom(Max(Published) + 1)), block |-> s, for |-> "restore"]
    /\ left' = left \ {s}
    /\ pc' = "stage"
    /\ UNCHANGED <<disk, serving, over, pending, cmd, best, held, events>>

(***************************************************************************)
(* The root database: recover_generation_state removes what is staged, and *)
(* nothing else in it can apply, as no generation verifies here.  An empty *)
(* root is served as it is.  Any other is validated, and what does not     *)
(* open or validate ends the start: a root that a crash left damaged or    *)
(* behind its manifest, and an archive root without a manifest, which only *)
(* ensure_generation_manifest writes, after validation.                    *)
(***************************************************************************)
RootVerifies ==
    root.tip = None \/ (root.tip \in Block /\ (root.manifest \/ Pruning))

NothingStaged == [i \in Id |-> None]

OpenRoot ==
    /\ pc = "restore" /\ left = {}
    /\ RootVerifies
    /\ staging' = NothingStaged
    /\ serving' = [id |-> Root, tip |-> root.tip, linked |-> TRUE]
    /\ root' = [root EXCEPT !.manifest = @ \/ root.tip /= None]
    /\ over' \in BOOLEAN
    /\ pc' = "opened"
    /\ UNCHANGED <<gens, active, pending, cmd, left, best, job, held, events>>

\* A damaged root may not even open; one that verifies fails with a write.
OpenRootFails ==
    /\ pc = "restore" /\ left = {}
    /\ IF RootVerifies THEN Event("write") ELSE UNCHANGED events
    /\ staging' \in {NothingStaged} \cup (IF root.tip \in Block THEN {} ELSE {staging})
    /\ Stop
    /\ UNCHANGED <<gens, active, root, over, held>>

(***************************************************************************)
(* compact_active_generation_if_over_quota: the generation is rewritten    *)
(* from the snapshot of its tip.  Without that snapshot, or without the    *)
(* disk space, the start fails.                                            *)
(***************************************************************************)
\* Bound: the last MaxEvent ids are left to what crashes and commands need.
CompactId == {i \in FreeFrom(active + 1) : i <= MaxId - MaxEvent}

Compact ==
    /\ pc = "compact"
    /\ gens[serving.id].names \in gens[serving.id].snaps
    /\ CompactId /= {}
    /\ job' = [id |-> Min(CompactId), block |-> gens[serving.id].names,
               for |-> "compact"]
    /\ pc' = "stage"
    /\ UNCHANGED <<disk, serving, over, pending, cmd, left, best, held, events>>

CompactRefused ==
    /\ pc = "compact"
    /\ IF gens[serving.id].names \in gens[serving.id].snaps /\ CompactId /= {}
       THEN Event("write") ELSE UNCHANGED events
    /\ Stop
    /\ UNCHANGED <<disk, over, held>>

(***************************************************************************)
(* open_staging_from_snapshot, the checkpoint and the manifest, and        *)
(* publish_staging_generation: verified, renamed, then made active.        *)
(***************************************************************************)
\* Mutation: the manifest is marked before the entries are in.
StageUnfilled ==
    /\ pc = "stage"
    /\ staging' = [staging EXCEPT ![job.id] = [Complete(job.block) EXCEPT !.whole = FALSE]]
    /\ pc' = "publish"
    /\ UNCHANGED <<gens, active, root, serving, over, pending, cmd, left, best, job, held, events>>

\* create_staging_generation and a part of the entries.
Stage ==
    /\ pc = "stage"
    /\ staging' = [staging EXCEPT ![job.id] =
                      [Created EXCEPT !.names = job.block, !.db = job.block]]
    /\ pc' = "fill"
    /\ UNCHANGED <<gens, active, root, serving, over, pending, cmd, left, best, job, held, events>>

Fill ==
    /\ pc = "fill"
    /\ staging' = [staging EXCEPT ![job.id] = Complete(job.block)]
    /\ pc' = "publish"
    /\ UNCHANGED <<gens, active, root, serving, over, pending, cmd, left, best, job, held, events>>

\* A write fails.  Until the entries are in, the directory stays behind.
BuildFails ==
    /\ pc \in {"fill", "publish"}
    /\ Event("write")
    /\ staging' = IF pc = "fill" THEN staging ELSE [staging EXCEPT ![job.id] = None]
    /\ IF job.for = "restore"
       THEN pc' = "restore" /\ job' = None /\ UNCHANGED <<serving, cmd, left, best, pending>>
       ELSE Stop
    /\ UNCHANGED <<gens, active, root, over, held>>

Publish ==
    /\ pc = "publish"
    /\ Verifies(staging[job.id])
    /\ gens' = [gens EXCEPT ![job.id] = staging[job.id]]
    /\ staging' = [staging EXCEPT ![job.id] = None]
    /\ pc' = "point"
    /\ UNCHANGED <<active, root, serving, over, pending, cmd, left, best, job, held, events>>

Point ==
    /\ pc = "point"
    /\ active' = job.id
    /\ serving' = [id |-> job.id, tip |-> job.block, linked |-> TRUE]
    /\ over' \in {FALSE, over}
    /\ job' = None
    /\ left' = {}
    /\ pc' = "opened"
    /\ UNCHANGED <<gens, staging, root, pending, cmd, best, held, events>>

-----------------------------------------------------------------------------
(***************************************************************************)
(* run_node after open: genesis in an empty store, then                    *)
(* ensure_storage_cap.  A pruned node keeps the generations with the two   *)
(* highest ids and the full snapshots near or above finality, and removes  *)
(* block bodies; still over the quota, it does not start.                  *)
(***************************************************************************)
StartStore ==
    /\ pc = "opened" /\ cmd = None
    /\ IF serving.tip = None
       THEN /\ root' = [root EXCEPT !.tip = Genesis]
            /\ serving' = [serving EXCEPT !.tip = Genesis]
       ELSE UNCHANGED <<root, serving>>
    /\ pc' = "cap"
    /\ UNCHANGED <<gens, staging, active, over, pending, cmd, left, best, job, held, events>>

\* prune_old_generations
Outdated == {i \in Published : Cardinality({j \in Published : j > i}) >= 2}

RemoveOutdated(i) ==
    /\ pc = "cap" /\ Pruning
    /\ i \in Outdated
    /\ gens' = [gens EXCEPT ![i] = None]
    /\ serving' = [serving EXCEPT !.linked = @ /\ i /= serving.id]
    /\ held' = IF i = serving.id THEN None ELSE held
    /\ UNCHANGED <<staging, active, root, over, pending, cmd, pc, left, best, job, events>>

\* prune_floor: the finalized height of the active manifest, zero without one.
Floor(g) ==
    IF active = None THEN 0
    ELSE IF g[active] = None THEN 0
    ELSE IF g[active].names = None THEN 0 ELSE Final(g[active].names)

\* prune_old_snapshots
WithoutOldSnapshots(g, floor) ==
    [i \in Id |-> IF g[i] = None THEN None
                  ELSE [g[i] EXCEPT !.snaps = {b \in @ : Number[b] >= floor - Window}]]

Capped(g) == IF Pruning THEN WithoutOldSnapshots(g, Floor(g)) ELSE g

Cap ==
    /\ pc = "cap"
    /\ Pruning => Outdated = {}
    /\ gens' = Capped(gens)
    /\ over' \in IF Pruning THEN {FALSE, over} ELSE {over}
    /\ IF over'
       THEN Stop /\ UNCHANGED held
       ELSE /\ pc' = "up"
            /\ held' = IF InUse THEN serving.tip ELSE None
            /\ UNCHANGED <<serving, cmd, left, best, job, pending>>
    /\ UNCHANGED <<staging, active, root, events>>

(***************************************************************************)
(* snapshot-recovery, offline: the canonical prefix is replayed into a new *)
(* generation, under its final name, and snapshotted there; a crash leaves *)
(* a part of it, without a manifest.  The manifest written at the end asks *)
(* for a replay checkpoint, which nothing writes.                          *)
(***************************************************************************)
StartRecovery(h) == Begin(h) /\ Event("command")

Recover ==
    /\ pc = "opened" /\ cmd /= None
    /\ serving.tip /= None /\ Number[serving.tip] >= cmd
    /\ LET from == IF active = None THEN 1 ELSE active + 1 IN
       /\ FreeFrom(from) /= {}
       /\ job' = [id |-> Min(FreeFrom(from)), block |-> Ancestor[serving.tip][cmd],
                  for |-> "recover"]
    /\ \E b \in Block :
          /\ IsAncestor(b, job'.block)
          /\ gens' = [gens EXCEPT ![job'.id] = [Created EXCEPT !.db = b, !.whole = TRUE]]
    /\ pc' = "recover"
    /\ UNCHANGED <<staging, active, root, serving, over, pending, cmd, left, best, held, events>>

RecoverRefused ==
    /\ pc = "opened" /\ cmd /= None
    /\ serving.tip /= None => Number[serving.tip] < cmd
    /\ Stop
    /\ UNCHANGED <<disk, over, held, events>>

Recovered ==
    /\ pc = "recover"
    /\ gens' = [gens EXCEPT ![job.id] =
                   [Complete(job.block) EXCEPT !.check = FALSE, !.record = FALSE]]
    /\ Stop
    /\ UNCHANGED <<staging, active, root, over, held, events>>

RecoverFails ==
    /\ pc = "recover"
    /\ Event("write")
    /\ gens' = [gens EXCEPT ![job.id] = None]
    /\ Stop
    /\ UNCHANGED <<staging, active, root, over, held>>

-----------------------------------------------------------------------------
(***************************************************************************)
(* The running node.                                                       *)
(***************************************************************************)

\* The store in use gets tip b, its manifest and its publication record.
Stored(g, b) ==
    IF serving.id = Root \/ ~serving.linked THEN g
    ELSE [g EXCEPT ![serving.id].db = b, ![serving.id].names = b,
                   ![serving.id].status = "Active", ![serving.id].record = TRUE]

SetTip(b) ==
    /\ root' = IF serving.id = Root THEN [root EXCEPT !.tip = b] ELSE root
    /\ serving' = [serving EXCEPT !.tip = b]
    /\ held' = IF InUse THEN b ELSE None

\* ensure_storage_cap, insert_block and schedule_canonical_maintenance.
Import(b) ==
    /\ pc = "up"
    /\ b /= Genesis /\ Parent[b] = serving.tip
    /\ Pruning \/ ~over
    /\ gens' = Stored(Capped(gens), b)
    /\ SetTip(b)
    /\ over' \in BOOLEAN
    /\ pending' = TRUE
    /\ UNCHANGED <<staging, active, cmd, pc, left, best, job, events>>

\* The highest block two chains share.
Fork(a, b) ==
    CHOOSE c \in Block :
        /\ IsAncestor(c, a) /\ IsAncestor(c, b)
        /\ \A d \in Block : IsAncestor(d, a) /\ IsAncestor(d, b) => Number[d] <= Number[c]

\* latest_execution_snapshot_at_or_before: compact checkpoints, newest first,
\* then full snapshots.
Low(S, n) == {c \in S : Number[c] <= n}
ReplayBase(d, n) ==
    LET pool == IF Low(d.execs, n) /= {} THEN Low(d.execs, n) ELSE Low(d.snaps, n)
    IN  {c \in pool : \A e \in pool : Number[e] <= Number[c]}

\* stage_and_publish_candidate: a fork is replayed from a checkpoint of the
\* canonical chain, which has to be in the directory of the store in use.
Reorganize(b) ==
    /\ pc = "up"
    /\ Outranks(b, serving.tip) /\ Fork(b, serving.tip) /= serving.tip
    /\ serving.id /= Root /\ serving.linked
    /\ \E c \in ReplayBase(gens[serving.id], Number[Fork(b, serving.tip)]) :
          IsAncestor(c, serving.tip)
    /\ gens' = Stored(gens, b)
    /\ SetTip(b)
    /\ over' \in BOOLEAN
    /\ UNCHANGED <<staging, active, pending, cmd, pc, left, best, job, events>>

\* prune_old_execution_snapshots
WithoutOldExecs(g, floor) ==
    [i \in Id |-> IF g[i] = None THEN None
                  ELSE [g[i] EXCEPT !.execs = {b \in @ : Number[b] >= floor}]]

\* write_periodic_snapshot: one file for each height, in the directory the
\* pointer names.
Checkpointed(g, b) ==
    IF active = None \/ Number[b] = 0 \/ Number[b] % Interval /= 0 THEN g
    ELSE WithoutOldExecs(
           [g EXCEPT ![active] =
              [Opened(active) EXCEPT
                 !.execs = {c \in @ : Number[c] /= Number[b]} \cup {b}]],
           Final(b) - Interval)

\* canonical_maintenance_worker: it works on the tip it finds.
Maintain ==
    /\ pc = "up" /\ pending
    /\ pending' = FALSE
    /\ gens' = Checkpointed(gens, serving.tip)
    /\ over' \in IF Pruning THEN {FALSE, over} ELSE {over}
    /\ UNCHANGED <<staging, active, root, serving, cmd, pc, left, best, job, held, events>>

\* remove_abandoned_staging_generations, before a candidate is replayed.
CleanStaging ==
    /\ pc = "up" /\ active /= None
    /\ \E i \in Id \ {active} : staging[i] /= None
    /\ staging' = [i \in Id |-> IF i = active THEN staging[i] ELSE None]
    /\ UNCHANGED <<gens, active, root, serving, over, pending, cmd, pc, left, best, job, held,
                   events>>

\* The operator stops the node while no write is in progress.
ShutDown ==
    /\ pc = "up"
    /\ Stop
    /\ UNCHANGED <<disk, over, held, events>>

\* The process ends anywhere, and may leave a database that does not verify.
Crash(i) ==
    /\ pc /= "down"
    /\ Event("crash")
    /\ i \in Published \cup {Root, None}
    /\ gens' = IF i \in Id THEN [gens EXCEPT ![i].db = Damaged] ELSE gens
    /\ root' = IF i = Root THEN [root EXCEPT !.tip = Damaged] ELSE root
    /\ held' = IF i /= None /\ i = (IF active = None THEN Root ELSE active) THEN None ELSE held
    /\ Stop
    /\ UNCHANGED <<staging, active, over>>

OpenStep ==
    \/ \E i \in Id : Retry(i)
    \/ Judge \/ Judged \/ Select \/ Reject \/ SelectNone
    \/ \E b \in Block : Restore(b)
    \/ OpenRoot \/ OpenRootFails \/ Compact \/ CompactRefused
    \/ Stage \/ Fill \/ Publish \/ Point
    \/ StartStore \/ Cap
    \/ \E i \in Id : RemoveOutdated(i)
    \/ Recover \/ RecoverRefused \/ Recovered

Next ==
    \/ StartNode
    \/ OpenStep
    \/ BuildFails \/ RecoverFails
    \/ \E h \in Heights : StartRecovery(h)
    \/ \E b \in Block : Import(b) \/ Reorganize(b)
    \/ Maintain \/ CleanStaging \/ ShutDown
    \/ \E i \in Id \cup {Root, None} : Crash(i)

Spec == Init /\ [][Next]_vars

\* The service manager starts the node again (Restart=on-failure), and a
\* start goes on until it serves or fails.
FairSpec == Spec /\ WF_vars(StartNode) /\ WF_vars(OpenStep)

-----------------------------------------------------------------------------
\* Types, and nothing staged where a generation is published.
TypeOK ==
    /\ gens \in [Id -> Directory \cup {None}]
    /\ staging \in [Id -> Directory \cup {None}]
    /\ \A i \in Id : gens[i] /= None => staging[i] = None
    /\ active \in Id \cup {None}
    /\ root \in RootStore
    /\ serving \in Store \cup {None}
    /\ {over, pending} \subseteq BOOLEAN
    /\ cmd \in Heights \cup {None}
    /\ left \subseteq Id \/ left \subseteq Block
    /\ best \in Id \cup {None}
    /\ job \in Job \cup {None}
    /\ held \in Block \cup {None}

\* NodeStorage::open: whatever point of an open, a compaction, a restore or a
\* removal a crash interrupts, the next start that succeeds serves a chain at
\* least as heavy as the one served last, unless its store was lost or was the
\* root although the pointer named a generation.
NoRollback ==
    [][pc' = "up" /\ pc /= "up" /\ held /= None
          => TotalWork[serving'.tip] >= TotalWork[held]]_vars

\* publish_staging_generation: no start serves a generation whose database was
\* written in part, although validation looks only at its tip and manifest; and
\* the types hold.
ServedIsWhole ==
    /\ TypeOK
    /\ serving /= None /\ serving.id \in Id /\ serving.linked
          => gens[serving.id] /= None /\ gens[serving.id].whole

\* NodeStorage::open: "recover into a new verified generation before ever
\* falling back to the legacy root DB": as long as a full snapshot is left in
\* some generation and writes succeed, no start serves the root.
RootIsLastResort ==
    [][serving = None /\ serving' /= None /\ events.write = 0
          => serving'.id /= Root \/ Snapshots = {}]_vars

\* Something a start can serve: a generation that validates, once a quarantine
\* it has a publication record for is lifted, a full snapshot, or the root.
Servable ==
    \/ \E i \in Published :
          \/ Verifies(gens[i])
          \/ gens[i].record /\ Verifies([gens[i] EXCEPT !.status = "Verified"])
    \/ Snapshots /= {}
    \/ RootVerifies

\* NodeStorage::open: one generation or snapshot that is left, or the root, is
\* enough, whatever else is damaged: as long as there is one, a node that is
\* not over its quota serves again after every crash.
RestartSucceeds == <>[](~over) /\ []<>Servable => []<>(pc = "up")

\* storage_mode = "archive": a node that serves the root serves it again after
\* a restart, unless a crash damaged it.
RootServesAgain == <>[](~over) /\ [](root.tip /= Damaged) => []<>(pc = "up")

\* recover_snapshot and prune_old_generations, "publication_retains_active_and_
\* previous_verified_generations_only": the directory in use is not removed.
ActiveIsRetained == serving /= None => serving.linked

\* NodeStorage::open, "Periodic BLQ snapshots contain the complete validated
\* keyspace": with a periodic snapshot on disk no start falls back to the root.
PeriodicSnapshotRestores ==
    [][serving = None /\ serving' /= None /\ serving'.id = Root
          => \A i \in Published : gens[i].execs = {}]_vars
=============================================================================
