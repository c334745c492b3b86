-------------------------- MODULE GenerationStore --------------------------
(***************************************************************************)
(* One storage generation of a full node and what a crash can leave of it. *)
(*                                                                         *)
(* A generation is a sled database (canonical blocks, best:number, account *)
(* keys) and four small files beside it: the manifest, the publication     *)
(* record, the replay checkpoint and the suffix journal.  A direct child   *)
(* of the tip is added by NodeStorage::insert_block, one flushed write     *)
(* after another.  A fork suffix is swapped in by publish_canonical_suffix *)
(* with one atomic sled batch bracketed by the journal.  A suffix on top   *)
(* of the tip is committed in place (commit_direct_candidate_extension),   *)
(* and an orphan drain that promotes a fork clears and rebuilds the chain  *)
(* in place (rebuild_canonical_chain).  Every write is a step of its own   *)
(* here, and the process may die between any two of them.                  *)
(* Opening the generation again replays the journal and then verifies the  *)
(* manifest; a start opens it up to three times, and each time may fail.   *)
(***************************************************************************)
EXTENDS BlockTree

CONSTANTS
    None,       \* an absent file
    Torn        \* account keys of which only a part was written

ASSUME GenerationStoreAssumption ==
    /\ None \notin Block
    /\ Torn \notin Block

VARIABLES
    tip,          \* best:number and the header stored under it, or None
    accounts,     \* the block whose post-state the account keys hold, or Torn
    manifest,     \* the generation manifest
    publication,  \* the manifest whose checksum the publication record holds
    checkpoint,   \* the block the replay checkpoint names, or None
    journal,      \* the suffix publication record, or None
    node,         \* "up", "down", "opening" or "rejected"
    batch,        \* defer_flush: the database is written without flushing
    pc,           \* the next write of the operation in progress, or "idle"
    target,       \* the block that operation makes the tip
    trial,        \* why start-up opens the generation: to "weigh" the active
                  \* one, to "retry" a failed one or to "serve" it
    failed,       \* the manifest that a retry puts back when it fails
    past          \* what the generation has been through besides crashes:
                  \* "clean", "error" (an operation stopped half-way) or
                  \* "rebuild" (the chain was replaced in place)

store == <<tip, accounts, manifest, publication, checkpoint, journal>>
start == <<trial, failed>>
vars == <<tip, accounts, manifest, publication, checkpoint, journal,
          batch, node, pc, target, trial, failed, past>>

-----------------------------------------------------------------------------
(* Manifests.  canonical_height, canonical_hash and state_root all follow  *)
(* from the block; replay is replay_checkpoint, with -1 for Option::None.  *)

NoReplay == -1

Manifest ==
    [status : {"Verified", "Active", "Failed"},
     tip    : Block,
     replay : Nat \cup {NoReplay}]

Journal == [previous : Manifest, target : Manifest]

ASSUME NoJournalAssumption == None \notin Journal

\* Mutation: replay_checkpoint is the finalized height, not saturated at zero.
TargetManifestUnsaturated(b) ==
    [status |-> "Active", tip |-> b, replay |-> Number[b] - 6]

\* stage_and_publish_candidate: the manifest of a published suffix.
TargetManifest(b) == [status |-> "Active", tip |-> b, replay |-> Number[b]]

\* refresh_generation_manifest: everything but replay_checkpoint follows the tip.
RefreshedManifest == [manifest EXCEPT !.status = "Active", !.tip = tip]

\* The manifest and the checkpoint file agree with each other and with the
\* canonical header at that height.
CheckpointAgrees ==
    IF manifest.replay = NoReplay
    THEN checkpoint = None
    ELSE /\ checkpoint /= None
         /\ Number[checkpoint] = manifest.replay
         /\ IsAncestor(checkpoint, tip)

\* verify_generation_manifest: the status is publishable, and the manifest
\* names the stored tip and agrees with the checkpoint.
ManifestVerifies ==
    /\ manifest.status \in {"Verified", "Active"}
    /\ manifest.tip = tip
    /\ CheckpointAgrees

-----------------------------------------------------------------------------

\* The generation as publish_staging_generation leaves it.
Init ==
    /\ tip \in Block
    /\ accounts = tip
    /\ manifest = [status |-> "Verified", tip |-> tip, replay |-> Number[tip]]
    /\ publication = manifest
    /\ checkpoint = tip
    /\ journal = None
    /\ batch = FALSE
    /\ node = "up"
    /\ pc = "idle"
    /\ target = tip
    /\ trial = "serve"
    /\ failed = manifest
    /\ past = "clean"

(***************************************************************************)
(* NodeStorage::insert_block.  The caller has validated the block: it is a *)
(* child of the tip and executing it on the stored accounts yields its     *)
(* state root, so the accounts are those of the tip.                       *)
(***************************************************************************)
BeginInsert(b) ==
    /\ node = "up" /\ pc = "idle"
    /\ tip /= None /\ b /= Genesis /\ Parent[b] = tip
    /\ accounts = tip
    /\ pc' = "ins_block"
    /\ target' = b
    /\ UNCHANGED <<store, batch, node, start, past>>

\* The block above the stored tip on the way to the target.
NextBlock == IF tip = None THEN Genesis ELSE Ancestor[target][Number[tip] + 1]

\* Mutation: the manifest is refreshed before the accounts are written.
InsertBlockManifestFirst ==
    /\ pc = "ins_block"
    /\ tip' = NextBlock
    /\ pc' = "ins_manifest"
    /\ UNCHANGED <<accounts, manifest, publication, checkpoint, journal,
                   batch, node, target, start, past>>

\* SledStorage::insert_block, up to the flush that makes best:number durable.
InsertBlock ==
    /\ pc = "ins_block"
    /\ tip' = NextBlock
    /\ pc' = "ins_accounts"
    /\ UNCHANGED <<accounts, manifest, publication, checkpoint, journal,
                   batch, node, target, start, past>>

\* put_account, flushed for each account: some are new and some are old.
InsertSomeAccounts ==
    /\ pc = "ins_accounts"
    /\ accounts' = Torn
    /\ pc' = "ins_last_account"
    /\ UNCHANGED <<tip, manifest, publication, checkpoint, journal, batch, node, target, start, past>>

\* The last put_account and set_reward_indexed_to.
InsertLastAccount ==
    /\ pc = "ins_last_account"
    /\ accounts' = tip
    /\ pc' = "ins_manifest"
    /\ UNCHANGED <<tip, manifest, publication, checkpoint, journal, batch, node, target, start, past>>

\* refresh_generation_manifest, its first write.
InsertManifest ==
    /\ pc = "ins_manifest"
    /\ manifest' = RefreshedManifest
    /\ pc' = "ins_publication"
    /\ UNCHANGED <<tip, accounts, publication, checkpoint, journal, batch, node, target, start, past>>

\* refresh_generation_manifest, its second write.  A rebuild goes on with
\* the next block.
InsertPublication ==
    /\ pc = "ins_publication"
    /\ publication' = manifest
    /\ pc' = IF tip = target THEN "idle" ELSE "ins_block"
    /\ batch' = (batch /\ tip /= target)
    /\ UNCHANGED <<tip, accounts, manifest, checkpoint, journal, node, target, start, past>>

-----------------------------------------------------------------------------
(***************************************************************************)
(* commit_direct_candidate_extension: a suffix on top of the tip.  All of  *)
(* its blocks are written first, then the accounts of the last one, then   *)
(* the manifest; the last two are the writes of insert_block again.  The   *)
(* flush of the blocks is deferred, which can only lose the last of them:  *)
(* a crash at an earlier step of this model.  put_evm_account flushes the  *)
(* accounts whether or not flushing is deferred.                           *)
(***************************************************************************)
BeginExtend(b) ==
    /\ node = "up" /\ pc = "idle"
    /\ tip /= None /\ b /= tip /\ IsAncestor(tip, b)
    /\ accounts = tip
    /\ pc' = "ext_block"
    /\ target' = b
    /\ UNCHANGED <<store, batch, node, start, past>>

ExtendBlock ==
    /\ pc = "ext_block"
    /\ tip' = NextBlock
    /\ pc' = IF NextBlock = target THEN "ins_accounts" ELSE "ext_block"
    /\ UNCHANGED <<accounts, manifest, publication, checkpoint, journal,
                   batch, node, target, start, past>>

(***************************************************************************)
(* promote_candidate_chain, for a branch that was validated in isolation:  *)
(* clear_canonical_state, then insert_block from genesis to the new tip,   *)
(* flushed once at the end.  The replay checkpoint stays as it is.         *)
(***************************************************************************)
BeginRebuild(b) ==
    /\ past /= "error"
    /\ node = "up" /\ pc = "idle"
    /\ tip /= None /\ b /= tip /\ Parent[b] /= tip
    /\ \/ Outranks(b, tip)
       \/ TotalWork[b] = TotalWork[tip] /\ Number[b] /= Number[tip]
    /\ pc' = "reb_clear"
    /\ target' = b
    /\ past' = "rebuild"
    /\ UNCHANGED <<store, batch, node, start>>

RebuildClear ==
    /\ pc = "reb_clear"
    /\ tip' = None
    /\ accounts' = Torn
    /\ batch' = TRUE
    /\ pc' = "ins_block"
    /\ UNCHANGED <<manifest, publication, checkpoint, journal, node, target, start, past>>

-----------------------------------------------------------------------------
(***************************************************************************)
(* publish_canonical_suffix.  stage_and_publish_candidate calls it for a   *)
(* tip that outranks the current one and does not extend it.               *)
(***************************************************************************)
BeginPublish(b) ==
    /\ node = "up" /\ pc = "idle"
    /\ tip /= None
    /\ Outranks(b, tip)
    /\ ~ IsAncestor(tip, b)
    /\ pc' = "pub_journal"
    /\ target' = b
    /\ UNCHANGED <<store, batch, node, start, past>>

\* Mutation: the suffix is swapped in without a journal.
PublishNoJournal ==
    /\ pc = "pub_journal"
    /\ pc' = "pub_batch"
    /\ UNCHANGED <<store, batch, node, target, start, past>>

PublishJournal ==
    /\ pc = "pub_journal"
    /\ journal' = [previous |-> manifest, target |-> TargetManifest(target)]
    /\ pc' = "pub_batch"
    /\ UNCHANGED <<tip, accounts, manifest, publication, checkpoint, batch, node, target, start, past>>

\* The sled batch: old suffix out, new suffix, accounts and best:number in.
PublishBatch ==
    /\ pc = "pub_batch"
    /\ tip' = target
    /\ accounts' = target
    /\ pc' = "pub_checkpoint"
    /\ UNCHANGED <<manifest, publication, checkpoint, journal, batch, node, target, start, past>>

PublishCheckpoint ==
    /\ pc = "pub_checkpoint"
    /\ checkpoint' = target
    /\ pc' = "pub_manifest"
    /\ UNCHANGED <<tip, accounts, manifest, publication, journal, batch, node, target, start, past>>

PublishManifest ==
    /\ pc = "pub_manifest"
    /\ manifest' = TargetManifest(target)
    /\ pc' = "pub_publication"
    /\ UNCHANGED <<tip, accounts, publication, checkpoint, journal, batch, node, target, start, past>>

PublishPublication ==
    /\ pc = "pub_publication"
    /\ publication' = TargetManifest(target)
    /\ pc' = "pub_clear"
    /\ UNCHANGED <<tip, accounts, manifest, checkpoint, journal, batch, node, target, start, past>>

PublishClear ==
    /\ pc = "pub_clear"
    /\ journal' = None
    /\ pc' = "idle"
    /\ UNCHANGED <<tip, accounts, manifest, publication, checkpoint, batch, node, target, start, past>>

-----------------------------------------------------------------------------
(***************************************************************************)
(* An error instead of a write, or a block within a suffix that does not   *)
(* validate.  Every operation hands it to its caller, which logs it, and   *)
(* the node goes on: nothing is rolled back.  Errors are not combined with *)
(* rebuilds in one behaviour.                                              *)
(***************************************************************************)
WriteFails ==
    /\ past /= "rebuild"
    /\ node = "up" /\ pc /= "idle"
    /\ pc' = "idle"
    /\ past' = "error"
    /\ UNCHANGED <<store, batch, node, target, start>>

\* The batch was applied and the flush after it failed.
FlushFails ==
    /\ past /= "rebuild"
    /\ pc = "pub_batch"
    /\ tip' = target
    /\ accounts' = target
    /\ pc' = "idle"
    /\ past' = "error"
    /\ UNCHANGED <<manifest, publication, checkpoint, journal, batch, node, target, start>>

\* The database after a crash in a batch: some prefix of its writes is kept.
LosesTail ==
    /\ tip' \in {None} \cup (IF tip = None THEN {}
                             ELSE {Ancestor[tip][n] : n \in 0..Number[tip]})
    /\ accounts' \in {Torn} \cup ({tip'} \ {None})

\* The process dies, in whatever operation it is, start-up included.
Crash ==
    /\ node \in {"up", "opening", "rejected"}
    /\ \/ batch /\ LosesTail
       \/ ~batch /\ UNCHANGED <<tip, accounts>>
    /\ batch' = FALSE
    /\ node' = "down"
    /\ pc' = "idle"
    /\ UNCHANGED <<manifest, publication, checkpoint, journal, target, start, past>>

-----------------------------------------------------------------------------
(***************************************************************************)
(* NodeStorage::open opens a generation up to three times: first, when it  *)
(* is the active one, for its work; then, when an earlier start marked it  *)
(* Failed, to see whether it validates after all (both in                  *)
(* restore_failed_publication_generations); last, to serve it.             *)
(***************************************************************************)
BeginOpen ==
    /\ node = "down"
    /\ node' = "opening"
    /\ \/ trial' = "weigh" /\ pc' = "rec_journal"
       \/ trial' = "retry" /\ pc' = "reconsider"
    /\ UNCHANGED <<store, batch, target, failed, past>>

\* Mutation: a failed generation is tried again with a new checkpoint.
ReconsiderNewCheckpoint ==
    /\ pc = "reconsider"
    /\ IF manifest.status = "Failed" /\ tip /= None
       THEN /\ trial' = "retry"
            /\ failed' = [manifest EXCEPT !.replay = Number[tip]]
            /\ manifest' = [failed' EXCEPT !.status = "Verified"]
            /\ checkpoint' = tip
       ELSE trial' = "serve" /\ UNCHANGED <<failed, manifest, checkpoint>>
    /\ pc' = "rec_journal"
    /\ UNCHANGED <<tip, accounts, publication, journal, batch, node, target, past>>

\* A failed generation is opened as Verified; any other is opened to be served.
Reconsider ==
    /\ pc = "reconsider"
    /\ \/ /\ manifest.status = "Failed"
          /\ trial' = "retry"
          /\ failed' = manifest
          /\ manifest' = [manifest EXCEPT !.status = "Verified"]
       \/ /\ manifest.status /= "Failed"
          /\ trial' = "serve"
          /\ UNCHANGED <<failed, manifest>>
    /\ pc' = "rec_journal"
    /\ UNCHANGED <<tip, accounts, publication, checkpoint, journal, batch, node, target, past>>

(***************************************************************************)
(* The generation does not open.  When it was weighed, nothing follows;    *)
(* after a retry the failed manifest is put back as it was; otherwise      *)
(* fail_generation sets the generation aside and another one is tried.     *)
(***************************************************************************)
Reject ==
    /\ \/ /\ trial = "weigh"
          /\ pc' = "reconsider"
          /\ UNCHANGED <<manifest, node, trial>>
       \/ /\ trial = "retry"
          /\ manifest' = failed
          /\ trial' = "serve"
          /\ pc' = "rec_journal"
          /\ UNCHANGED node
       \/ /\ trial = "serve"
          /\ manifest' = [manifest EXCEPT !.status = "Failed"]
          /\ node' = "rejected"
          /\ pc' = "idle"
          /\ UNCHANGED trial
    /\ UNCHANGED <<tip, accounts, publication, checkpoint, journal, batch, target, failed>>

NoJournal ==
    /\ pc = "rec_journal" /\ journal = None
    /\ pc' = "verify"
    /\ UNCHANGED <<store, batch, node, target, start, past>>

\* Mutation: the journal is cleared before the files are finished.
JournalCommittedClearsFirst ==
    /\ pc = "rec_journal" /\ journal /= None
    /\ tip = journal.target.tip
    /\ journal' = None
    /\ pc' = "verify"
    /\ UNCHANGED <<tip, accounts, manifest, publication, checkpoint, batch, node, target, start, past>>

\* recover_suffix_publication: the batch was committed, finish the files.
JournalCommitted ==
    /\ pc = "rec_journal" /\ journal /= None
    /\ tip = journal.target.tip
    /\ pc' = "rec_checkpoint"
    /\ UNCHANGED <<store, batch, node, target, start, past>>

\* recover_suffix_publication: the batch was not committed, drop the intent.
JournalAbandoned ==
    /\ pc = "rec_journal" /\ journal /= None
    /\ tip /= journal.target.tip /\ tip = journal.previous.tip
    /\ journal' = None
    /\ pc' = "verify"
    /\ UNCHANGED <<tip, accounts, manifest, publication, checkpoint, batch, node, target, start, past>>

\* recover_suffix_publication: neither; SledStorage::open returns an error.
JournalUnresolved ==
    /\ pc = "rec_journal" /\ journal /= None
    /\ tip \notin {journal.target.tip, journal.previous.tip}
    /\ Reject
    /\ UNCHANGED past

RecoverCheckpoint ==
    /\ pc = "rec_checkpoint"
    /\ checkpoint' = journal.target.tip
    /\ pc' = "rec_manifest"
    /\ UNCHANGED <<tip, accounts, manifest, publication, journal, batch, node, target, start, past>>

RecoverManifest ==
    /\ pc = "rec_manifest"
    /\ manifest' = journal.target
    /\ pc' = "rec_publication"
    /\ UNCHANGED <<tip, accounts, publication, checkpoint, journal, batch, node, target, start, past>>

RecoverPublication ==
    /\ pc = "rec_publication"
    /\ publication' = journal.target
    /\ pc' = "rec_clear"
    /\ UNCHANGED <<tip, accounts, manifest, checkpoint, journal, batch, node, target, start, past>>

RecoverClear ==
    /\ pc = "rec_clear"
    /\ journal' = None
    /\ pc' = "verify"
    /\ UNCHANGED <<tip, accounts, manifest, publication, checkpoint, batch, node, target, start, past>>

\* The generation validates: start-up goes on to its next trial or serves it.
Proceed ==
    \/ trial = "weigh" /\ pc' = "reconsider" /\ UNCHANGED <<node, trial>>
    \/ trial = "retry" /\ pc' = "rec_journal" /\ trial' = "serve" /\ UNCHANGED node
    \/ trial = "serve" /\ pc' = "idle" /\ node' = "up" /\ UNCHANGED trial

\* Mutation: a stale publication record is left as it is.
AcceptNoRepair ==
    /\ pc = "verify" /\ ManifestVerifies
    /\ Proceed
    /\ UNCHANGED <<store, batch, target, failed, past>>

\* verify_generation_manifest succeeds and repairs a stale publication record.
Accept ==
    /\ pc = "verify" /\ ManifestVerifies
    /\ publication' = manifest
    /\ Proceed
    /\ UNCHANGED <<tip, accounts, manifest, checkpoint, journal, batch, target, failed, past>>

VerifyFails ==
    /\ pc = "verify" /\ ~ ManifestVerifies
    /\ Reject
    /\ UNCHANGED past

\* The node remembers an error unless the chain was also rebuilt in place.
AfterError == past' = IF past = "rebuild" THEN "rebuild" ELSE "error"

(***************************************************************************)
(* An error while the generation is opened: a read, or one of the writes   *)
(* of recover_suffix_publication and verify_generation_manifest.           *)
(***************************************************************************)
OpenFails ==
    /\ node = "opening" /\ pc /= "reconsider"
    /\ Reject
    /\ AfterError

\* fail_generation fails as well: the generation is passed over unmarked.
MarkFails ==
    /\ node = "opening" /\ pc /= "reconsider" /\ trial = "serve"
    /\ node' = "rejected"
    /\ pc' = "idle"
    /\ AfterError
    /\ UNCHANGED <<store, batch, target, start>>

-----------------------------------------------------------------------------

InsertStep ==
    \/ InsertBlock
    \/ InsertSomeAccounts
    \/ InsertLastAccount
    \/ InsertManifest
    \/ InsertPublication
    \/ ExtendBlock
    \/ RebuildClear

PublishStep ==
    \/ PublishJournal
    \/ PublishBatch
    \/ PublishCheckpoint
    \/ PublishManifest
    \/ PublishPublication
    \/ PublishClear

OpenStep ==
    \/ Reconsider
    \/ NoJournal
    \/ JournalCommitted
    \/ JournalAbandoned
    \/ JournalUnresolved
    \/ RecoverCheckpoint
    \/ RecoverManifest
    \/ RecoverPublication
    \/ RecoverClear
    \/ Accept
    \/ VerifyFails
    \/ OpenFails
    \/ MarkFails

Next ==
    \/ \E b \in Block :
          BeginInsert(b) \/ BeginPublish(b) \/ BeginExtend(b) \/ BeginRebuild(b)
    \/ InsertStep
    \/ PublishStep
    \/ WriteFails
    \/ FlushFails
    \/ Crash
    \/ BeginOpen
    \/ OpenStep

Spec == Init /\ [][Next]_vars
-----------------------------------------------------------------------------
(* Correctness.                                                            *)

Steps == {"idle", "ins_block", "ins_accounts", "ins_last_account",
          "ins_manifest", "ins_publication", "ext_block", "reb_clear",
          "pub_journal", "pub_batch",
          "pub_checkpoint", "pub_manifest", "pub_publication", "pub_clear",
          "reconsider", "rec_journal", "rec_checkpoint", "rec_manifest",
          "rec_publication", "rec_clear", "verify"}

\* The type invariant: every file holds a value its writer can have produced.
TypeOK ==
    /\ tip \in Block \cup {None}
    /\ accounts \in Block \cup {Torn}
    /\ manifest \in Manifest
    /\ publication \in Manifest
    /\ checkpoint \in Block \cup {None}
    /\ journal \in Journal \cup {None}
    /\ batch \in BOOLEAN
    /\ node \in {"up", "down", "opening", "rejected"}
    /\ pc \in Steps
    /\ target \in Block
    /\ trial \in {"weigh", "retry", "serve"}
    /\ failed \in Manifest
    /\ past \in {"clean", "error", "rebuild"}

(***************************************************************************)
(* As long as no operation has stopped with an error and no chain was     *)
(* rebuilt in place, whenever the node serves and no write is in progress, *)
(* the generation would pass its own start-up check, its accounts are      *)
(* those of its tip, its publication record is that of its manifest and no *)
(* journal is left over, whatever crashes and restarts lie behind:         *)
(* publish_canonical_suffix and recover_suffix_publication together are    *)
(* atomic.                                                                 *)
(***************************************************************************)
SettledStore ==
    past = "clean" /\ node = "up" /\ pc = "idle" =>
        /\ ManifestVerifies
        /\ accounts = tip
        /\ publication = manifest
        /\ journal = None

(***************************************************************************)
(* Without such errors and rebuilds, NodeStorage::open sets a              *)
(* generation aside only after a crash inside insert_block or              *)
(* commit_direct_candidate_extension, between the flush of best:number and *)
(* the manifest refresh: its tip is then a proper descendant of the block  *)
(* its manifest names.  A crash inside a suffix publication never costs    *)
(* the generation.                                                         *)
(***************************************************************************)
RejectedOnlyAfterTornInsert ==
    past = "clean" /\ node = "rejected" =>
        /\ journal = None
        /\ manifest.tip /= tip /\ IsAncestor(manifest.tip, tip)

(***************************************************************************)
(* What verify_generation_manifest demands at start-up, "that the          *)
(* manifest, durable replay checkpoint, and stored canonical tip all       *)
(* describe the same generation", holds of every generation that serves    *)
(* and has no write in progress, if no operation stopped with an error.    *)
(***************************************************************************)
ServedStoreVerifies ==
    past /= "error" /\ node = "up" /\ pc = "idle" => ManifestVerifies

(***************************************************************************)
(* Even with errors, a manifest that names the stored tip vouches for the  *)
(* accounts: a generation whose account keys are torn or belong to         *)
(* another block is never served as the state of its tip.  A rebuild       *)
(* writes manifests over a database it has not flushed, and is left out;   *)
(* so is an error of the flush in end_batch, which leaves defer_flush set. *)
(***************************************************************************)
ManifestVouchesForState ==
    past /= "rebuild" /\ node \in {"up", "down"} /\ pc = "idle" /\ manifest.tip = tip =>
        accounts = tip

\* What is stored would pass an open that meets no error: the journal's batch
\* was committed, or the manifest and the checkpoint describe the tip.
Openable ==
    \/ journal /= None /\ tip = journal.target.tip
    \/ /\ journal = None \/ tip = journal.previous.tip
       /\ manifest.tip = tip
       /\ CheckpointAgrees

(***************************************************************************)
(* What restore_failed_publication_generations says of the generations it  *)
(* tries again, "Reconsider only those failed generations that fully       *)
(* validate again" and "Corrupt [...] generations remain quarantined": one *)
(* that was set aside for what it holds, and not only because of an error  *)
(* while it was opened, is never served again, however often it is tried   *)
(* and wherever those trials stop.                                         *)
(***************************************************************************)
RejectionIsFinal == [](node = "rejected" /\ ~Openable => [](node /= "up"))

(***************************************************************************)
(* An error or a crash while a generation is opened does not cost it: what *)
(* would have opened at the beginning of a start would open after every    *)
(* step of it, however often recover_suffix_publication is cut off.  The   *)
(* exception is a retry that has finished the publication and then fails:  *)
(* restore_failed_publication_generations puts back the manifest of the    *)
(* previous tip.                                                           *)
(***************************************************************************)
OpeningCostsNothing ==
    [][/\ node /= "up" /\ Openable
       /\ ~(node = "opening" /\ trial = "retry" /\ journal = None /\ failed.tip /= tip)
       => Openable']_vars

(***************************************************************************)
(* What SuffixPublicationRecord says of the journal, "this file only       *)
(* bridges the small interval between that batch and the derived           *)
(* generation-manifest refresh", and publish_canonical_suffix of a failed  *)
(* batch, "Startup can safely clear the journal after confirming that the  *)
(* previous tip is intact": a journal found at start-up names the stored   *)
(* tip.                                                                    *)
(***************************************************************************)
JournalMatchesTip ==
    node = "down" /\ journal /= None =>
        tip \in {journal.previous.tip, journal.target.tip}
=============================================================================
