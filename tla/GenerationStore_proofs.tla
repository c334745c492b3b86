----------------------- MODULE GenerationStore_proofs -----------------------
(***************************************************************************)
(* What a crash, an error or a restart can do to a generation, for every   *)
(* block tree: SettledStore, RejectedOnlyAfterTornInsert and               *)
(* ManifestVouchesForState hold in every reachable state, and a generation *)
(* that was set aside for what it holds stays aside.                       *)
(***************************************************************************)
EXTENDS GenerationStore, BlockTree_proofs

\* Zenon proves the steps that name no other prover.
USE Zenon

\* The replay checkpoint agrees with the manifest and lies on the chain.
CheckpointFits ==
    /\ manifest.replay /= NoReplay
    /\ checkpoint \in Block
    /\ Number[checkpoint] = manifest.replay
    /\ IsAncestor(checkpoint, tip)

\* Everything describes the tip.
InSync == manifest.tip = tip /\ accounts = tip /\ CheckpointFits

\* Blocks on top of the manifest's tip have been flushed, and the manifest
\* has not yet been refreshed.
Ahead == manifest.tip /= tip /\ IsAncestor(manifest.tip, tip) /\ CheckpointFits

\* A journal is there and its batch has been committed.
Committed ==
    /\ journal /= None
    /\ journal.target = TargetManifest(tip)
    /\ accounts = tip

\* A journal is there and its batch has not been committed.
Intended ==
    /\ journal /= None
    /\ journal.previous.tip = tip
    /\ journal.target = TargetManifest(journal.target.tip)
    /\ InSync

(***************************************************************************)
(* What a crash at any moment leaves on disk.                              *)
(***************************************************************************)
Durable ==
    \/ journal = None /\ (InSync \/ Ahead)
    \/ Committed
    \/ Intended

Publishable == manifest.status \in {"Verified", "Active"}

\* The steps of recover_suffix_publication with a journal that was committed.
RecSteps == {"rec_checkpoint", "rec_manifest", "rec_publication", "rec_clear"}

\* The steps of a trial: the generation is being opened.
TrialSteps == RecSteps \cup {"rec_journal", "verify"}

\* The manifest that a retry puts back says what the manifest says.
FailedAgrees == failed.tip = manifest.tip /\ failed.replay = manifest.replay

(***************************************************************************)
(* What holds before each write of each operation.                         *)
(***************************************************************************)
AtStep ==
    /\ tip \in Block /\ ~batch /\ pc /= "reb_clear"
    /\ node = "up" => Publishable /\ pc \in Steps \ (TrialSteps \cup {"reconsider"})
    /\ node = "opening" => pc \in TrialSteps \cup {"reconsider"}
    /\ Publishable \/ (journal = None /\ Ahead)
    /\ trial = "retry" /\ pc \in TrialSteps => journal = None /\ Ahead /\ FailedAgrees
    /\ node \in {"down", "rejected"} => pc = "idle"
    /\ node = "rejected" => journal = None /\ Ahead
    /\ node = "up" /\ pc \in {"idle", "ins_block", "pub_journal"} =>
        journal = None /\ InSync /\ publication = manifest
    /\ pc = "ext_block" => journal = None /\ (InSync \/ Ahead)
    /\ pc \in {"ins_accounts", "ins_last_account", "ins_manifest"} =>
        journal = None /\ Ahead
    /\ pc = "ins_manifest" => accounts = tip
    /\ pc = "ins_publication" => journal = None /\ InSync
    /\ pc = "pub_batch" =>
        Intended /\ journal.target = TargetManifest(target)
    /\ pc \in {"pub_checkpoint", "pub_manifest", "pub_publication", "pub_clear"} =>
        Committed /\ tip = target
    /\ pc \in RecSteps => Committed
    /\ pc \in {"pub_manifest", "pub_publication", "pub_clear",
               "rec_manifest", "rec_publication", "rec_clear"} =>
        checkpoint = tip
    /\ pc \in {"pub_publication", "pub_clear", "rec_publication", "rec_clear"} =>
        manifest = TargetManifest(tip)
    /\ pc \in {"pub_clear", "rec_clear"} => publication = manifest
    /\ pc = "verify" => journal = None

-----------------------------------------------------------------------------
(* The type invariant.  Start-up reads the journal only while there is one, *)
(* and an operation that adds blocks is on its way to its target.           *)

TypeInv ==
    /\ TypeOK
    /\ pc = "ins_block" => tip = None \/ (IsAncestor(tip, target) /\ tip /= target)
    /\ pc = "ext_block" => tip \in Block /\ IsAncestor(tip, target) /\ tip /= target
    /\ pc \in {"ins_accounts", "ins_last_account", "ins_manifest", "ins_publication"} =>
        tip \in Block /\ IsAncestor(tip, target)
    /\ pc \in {"rec_checkpoint", "rec_manifest", "rec_publication"} => journal /= None

\* The block that the next step adds is on the way to the target.
LEMMA NextBlockFits ==
    ASSUME TypeInv, pc \in {"ins_block", "ext_block"}
    PROVE  NextBlock \in Block /\ IsAncestor(NextBlock, target)
<1>1. CASE tip = None
  BY <1>1, GenesisAncestor DEF NextBlock, TypeInv, TypeOK
<1>2. CASE tip /= None
  BY <1>2, NextOnPath DEF NextBlock, TypeInv, TypeOK
<1> QED BY <1>1, <1>2

\* Every write stores a value of the right kind.
LEMMA TypeStep == TypeInv /\ [Next]_vars => TypeInv'
<1> SUFFICES ASSUME TypeInv, [Next]_vars PROVE TypeInv'
  OBVIOUS
<1> USE DEF TypeInv, TypeOK, Steps
<1>0. Number \in [Block -> Nat]
  BY BlockTreeAssumption
<1>1. \A b \in Block : TargetManifest(b) \in Manifest
  BY <1>0 DEF TargetManifest, Manifest
<1>a. tip \in Block => RefreshedManifest \in Manifest
  BY DEF RefreshedManifest, Manifest
<1>b. \A s \in {"Verified", "Failed"} : [manifest EXCEPT !.status = s] \in Manifest
  BY DEF Manifest
<1>c. journal /= None => journal.target \in Manifest /\ journal.target.tip \in Block
  BY DEF Journal, Manifest
<1>2. CASE UNCHANGED vars
  BY <1>2, SMTT(30) DEF vars
<1>3. ASSUME NEW b \in Block,
             BeginInsert(b) \/ BeginPublish(b) \/ BeginExtend(b) \/ BeginRebuild(b)
      PROVE  TypeInv'
  <2>1. CASE BeginInsert(b)
    <3>1. IsAncestor(tip, b) /\ tip /= b
      BY <2>1, ParentAncestor DEF BeginInsert
    <3> QED BY <2>1, <3>1 DEF BeginInsert, store, start, IsAncestor
  <2>2. CASE BeginPublish(b) \/ BeginExtend(b) \/ BeginRebuild(b)
    BY <2>2 DEF BeginPublish, BeginExtend, BeginRebuild, store, start, IsAncestor
  <2> QED BY <1>3, <2>1, <2>2
<1>4. CASE InsertStep
  <2>1. CASE InsertBlock
    BY <2>1, NextBlockFits, SMTT(30) DEF InsertBlock, start, IsAncestor
  <2>2. CASE InsertSomeAccounts \/ InsertLastAccount \/ InsertManifest
    BY <2>2, <1>a, SMTT(30) DEF InsertSomeAccounts, InsertLastAccount, InsertManifest, start, IsAncestor
  <2>3. CASE InsertPublication
    BY <2>3, SMTT(30) DEF InsertPublication, start, IsAncestor
  <2>4. CASE ExtendBlock
    BY <2>4, NextBlockFits, SMTT(30) DEF ExtendBlock, start, IsAncestor
  <2>5. CASE RebuildClear
    BY <2>5 DEF RebuildClear, start
  <2> QED BY <1>4, <2>1, <2>2, <2>3, <2>4, <2>5 DEF InsertStep
<1>5. CASE PublishStep
  <2>1. CASE PublishJournal
    <3>1. [previous |-> manifest, target |-> TargetManifest(target)] \in Journal
      BY <1>1 DEF Journal
    <3> QED BY <2>1, <3>1 DEF PublishJournal, start
  <2>2. CASE PublishBatch \/ PublishCheckpoint \/ PublishClear
    BY <2>2, SMTT(30) DEF PublishBatch, PublishCheckpoint, PublishClear, start
  <2>3. CASE PublishManifest \/ PublishPublication
    BY <2>3, <1>1, SMTT(30) DEF PublishManifest, PublishPublication, start
  <2> QED BY <1>5, <2>1, <2>2, <2>3 DEF PublishStep
<1>6. CASE WriteFails \/ FlushFails \/ BeginOpen
  BY <1>6 DEF WriteFails, FlushFails, BeginOpen, store, start
<1>8. CASE Crash
  <2>1. tip \in Block => \A n \in 0..Number[tip] : Ancestor[tip][n] \in Block
    BY AncestorIsBlock
  <2>2. batch /\ LosesTail => tip' \in Block \cup {None} /\ accounts' \in Block \cup {Torn}
    BY <2>1 DEF LosesTail
  <2> QED BY <1>8, <2>2 DEF Crash, start
<1>7. CASE OpenStep
  <2>1. CASE NoJournal \/ JournalCommitted \/ JournalAbandoned \/ RecoverClear
    BY <2>1, SMTT(30) DEF NoJournal, JournalCommitted, JournalAbandoned, RecoverClear, store, start
  <2>2. CASE JournalUnresolved \/ VerifyFails \/ OpenFails
    <3>1. Reject /\ past' \in {"clean", "error", "rebuild"}
      BY <2>2 DEF JournalUnresolved, VerifyFails, OpenFails, AfterError
    <3> QED BY <1>b, <3>1 DEF Reject
  <2>3. CASE RecoverCheckpoint \/ RecoverManifest \/ RecoverPublication
    BY <2>3, <1>c, SMTT(30) DEF RecoverCheckpoint, RecoverManifest, RecoverPublication, start
  <2>4. CASE Reconsider
    BY <2>4, <1>b DEF Reconsider
  <2>5. CASE Accept
    BY <2>5 DEF Accept, Proceed
  <2>6. CASE MarkFails
    BY <2>6 DEF MarkFails, AfterError, store, start
  <2> QED BY <1>7, <2>1, <2>2, <2>3, <2>4, <2>5, <2>6 DEF OpenStep
<1> QED BY <1>2, <1>3, <1>4, <1>5, <1>6, <1>7, <1>8 DEF Next

\* A generation as published is well typed.
LEMMA TypeInit == Init => TypeInv
<1> SUFFICES ASSUME Init PROVE TypeInv
  OBVIOUS
<1>1. tip \in Block /\ Number[tip] \in Nat
  BY BlockTreeAssumption DEF Init
<1>2. TypeOK
  BY <1>1 DEF Init, TypeOK, Manifest, Steps
<1> QED BY <1>2 DEF Init, TypeInv

\* TypeOK: each file and each key holds a value its writer can have produced.
THEOREM TypeCorrect == Spec => []TypeOK
<1>1. TypeInv => TypeOK
  BY DEF TypeInv
<1> QED BY <1>1, TypeInit, TypeStep, PTL DEF Spec

\* A generation that is not served is being opened or at rest.
Resting ==
    /\ node /= "up" => ~batch
    /\ node = "up" => pc \notin TrialSteps \cup {"reconsider"}
    /\ node = "opening" => pc \in TrialSteps \cup {"reconsider"}
    /\ node \in {"down", "rejected"} => pc = "idle"

DInv == TypeInv /\ Resting

\* Every step keeps it.
LEMMA RestingStep == DInv /\ [Next]_vars => DInv'
<1> SUFFICES ASSUME TypeInv, Resting, [Next]_vars
             PROVE  Resting'
  BY TypeStep DEF DInv
<1>t. TypeOK
  BY DEF TypeInv
<1> USE DEF Resting, RecSteps, TrialSteps
<1>1. CASE UNCHANGED vars
  BY <1>1 DEF vars
<1>2. ASSUME NEW b \in Block,
             BeginInsert(b) \/ BeginPublish(b) \/ BeginExtend(b) \/ BeginRebuild(b)
      PROVE  Resting'
  BY <1>2 DEF BeginInsert, BeginPublish, BeginExtend, BeginRebuild
<1>3. CASE InsertStep \/ PublishStep
  <2>1. /\ node = "up" /\ node' = "up"
        /\ pc' \notin TrialSteps \cup {"reconsider"}
    BY <1>t, <1>3
       DEF InsertStep, InsertBlock, InsertSomeAccounts, InsertLastAccount, InsertManifest,
           InsertPublication, ExtendBlock, RebuildClear, PublishStep, PublishJournal,
           PublishBatch, PublishCheckpoint, PublishManifest, PublishPublication,
           PublishClear, TypeOK
  <2> QED BY <2>1
<1>4. CASE WriteFails \/ FlushFails \/ Crash \/ BeginOpen
  <2>1. CASE WriteFails \/ FlushFails
    BY <1>t, <2>1 DEF WriteFails, FlushFails, TypeOK
  <2>2. CASE Crash \/ BeginOpen
    BY <2>2, SMTT(30) DEF Crash, BeginOpen
  <2> QED BY <1>4, <2>1, <2>2
<1>5. CASE OpenStep
  <2>0. node = "opening" /\ ~batch
    BY <1>t, <1>5
       DEF OpenStep, NoJournal, JournalCommitted, JournalAbandoned, JournalUnresolved,
           RecoverCheckpoint, RecoverManifest, RecoverPublication, RecoverClear, Accept,
           VerifyFails, Reconsider, OpenFails, MarkFails, TypeOK
  <2>1. CASE JournalUnresolved \/ VerifyFails \/ OpenFails
    <3>1. Reject
      BY <2>1 DEF JournalUnresolved, VerifyFails, OpenFails
    <3> QED BY <2>0, <3>1, SMTT(30) DEF Reject
  <2>2. CASE Accept
    BY <2>0, <2>2, SMTT(30) DEF Accept, Proceed
  <2>3. CASE MarkFails
    BY <2>0, <2>3 DEF MarkFails
  <2>4. CASE Reconsider \/ NoJournal \/ JournalCommitted \/ JournalAbandoned
             \/ RecoverCheckpoint \/ RecoverManifest \/ RecoverPublication \/ RecoverClear
    BY <2>0, <2>4, SMTT(30)
       DEF Reconsider, NoJournal, JournalCommitted, JournalAbandoned, store, start,
           RecoverCheckpoint, RecoverManifest, RecoverPublication, RecoverClear
  <2> QED BY <1>5, <2>1, <2>2, <2>3, <2>4 DEF OpenStep
<1> QED BY <1>1, <1>2, <1>3, <1>4, <1>5 DEF Next

\* The node starts with the generation served and no operation in progress.
LEMMA RestingInit == Init => Resting
BY DEF Init, Resting, RecSteps, TrialSteps

-----------------------------------------------------------------------------
(* Crash atomicity.                                                        *)

\* The inductive invariant.
IInv == TypeInv /\ (past = "clean" => Durable /\ AtStep)

\* An error or a rebuild is never forgotten.
LEMMA PastStays ==
    [Next]_vars => /\ past' = "clean" => past = "clean"
                   /\ past' /= "rebuild" => past /= "rebuild"
<1> SUFFICES ASSUME [Next]_vars
             PROVE  /\ past' = "clean" => past = "clean"
                    /\ past' /= "rebuild" => past /= "rebuild"
  OBVIOUS
<1>1. CASE InsertStep
  BY <1>1 DEF InsertStep, InsertBlock, InsertSomeAccounts, InsertLastAccount,
              InsertManifest, InsertPublication, ExtendBlock, RebuildClear
<1>2. CASE PublishStep
  BY <1>2 DEF PublishStep, PublishJournal, PublishBatch, PublishCheckpoint,
              PublishManifest, PublishPublication, PublishClear
<1>3. CASE OpenStep
  BY <1>3 DEF OpenStep, NoJournal, JournalCommitted, JournalAbandoned,
              JournalUnresolved, RecoverCheckpoint, RecoverManifest,
              RecoverPublication, RecoverClear, Accept, VerifyFails, Reconsider,
              OpenFails, MarkFails, AfterError
<1> QED
  BY <1>1, <1>2, <1>3
     DEF Next, vars, BeginInsert, BeginPublish, BeginExtend, BeginRebuild,
         WriteFails, FlushFails, Crash, BeginOpen

\* Every step, a crash included, keeps the inductive invariant.
LEMMA IInvStep == IInv /\ [Next]_vars => IInv'
<1> SUFFICES ASSUME TypeInv, Durable, AtStep, past' = "clean", [Next]_vars
             PROVE  Durable' /\ AtStep'
  BY TypeStep, PastStays DEF IInv
<1>t. TypeOK /\ TypeOK'
  BY TypeStep DEF TypeInv
<1> USE <1>t
<1> USE DEF Durable, AtStep, Committed, Intended, InSync, Ahead,
            CheckpointFits, Publishable, RecSteps, TrialSteps
<1>0. /\ pc \in {"ins_block", "ins_accounts", "ins_last_account", "ins_manifest",
                 "ins_publication", "ext_block", "pub_journal", "pub_batch", "pub_checkpoint",
                 "pub_manifest", "pub_publication", "pub_clear"} => node = "up"
      /\ pc \in TrialSteps \cup {"reconsider"} => node = "opening"
  BY DEF TypeOK, Steps
<1>a. \A b \in Block : /\ TargetManifest(b).tip = b
                       /\ TargetManifest(b).replay = Number[b]
                       /\ Number[b] /= NoReplay
  BY HeaderTypes, SMTT(30) DEF TargetManifest, NoReplay
<1> USE <1>0
<1>1. CASE UNCHANGED vars
  BY <1>1 DEF vars, FailedAgrees
<1>2. ASSUME NEW b \in Block,
             BeginInsert(b) \/ BeginPublish(b) \/ BeginExtend(b) \/ BeginRebuild(b)
      PROVE  Durable' /\ AtStep'
  <2>1. /\ UNCHANGED store /\ node = "up" /\ node' = "up" /\ pc = "idle"
        /\ pc' \in {"ins_block", "pub_journal", "ext_block"} /\ ~batch'
    BY <1>2, SMTT(30) DEF BeginInsert, BeginPublish, BeginExtend, BeginRebuild
  <2> QED BY <2>1 DEF store, Steps
<1>3. CASE InsertStep
  <2>1. CASE InsertBlock \/ ExtendBlock
    <3>1. IsAncestor(tip, target) /\ tip /= target /\ tip /= None /\ target \in Block
      BY <2>1, GenerationStoreAssumption DEF InsertBlock, ExtendBlock, TypeInv, TypeOK
    <3>2. tip' = Ancestor[target][Number[tip] + 1] /\ tip' \in Block
      BY <2>1, <3>1, NextOnPath, SMTT(30) DEF InsertBlock, ExtendBlock, NextBlock
    <3>3. \A a \in Block : IsAncestor(a, tip) => a /= tip' /\ IsAncestor(a, tip')
      BY <3>1, <3>2, NextOnPath
    <3>4. manifest.tip \in Block /\ IsAncestor(manifest.tip, tip)
      BY <2>1, SelfAncestor DEF InsertBlock, ExtendBlock, TypeOK, Manifest
    <3>5. Ahead'
      BY <2>1, <3>3, <3>4 DEF InsertBlock, ExtendBlock
    <3>6. /\ pc' \in {"ins_accounts", "ext_block"} /\ node' = "up" /\ journal' = None
          /\ Publishable' /\ ~batch'
      BY <2>1, SMTT(30) DEF InsertBlock, ExtendBlock
    <3>7. pc' \in Steps \ (TrialSteps \cup {"reconsider"})
      BY <3>6 DEF Steps
    <3> HIDE DEF Ahead, InSync, Committed, Intended, CheckpointFits, Publishable
    <3> QED BY <3>2, <3>5, <3>6, <3>7
  <2>2. CASE InsertSomeAccounts \/ InsertLastAccount
    BY <2>2, SMTT(30) DEF InsertSomeAccounts, InsertLastAccount, Steps
  <2>3. CASE InsertManifest
    BY <2>3 DEF InsertManifest, RefreshedManifest, TypeOK, Manifest, Steps
  <2>4. CASE InsertPublication
    BY <2>4 DEF InsertPublication, Steps
  <2>5. ~ RebuildClear
    BY DEF RebuildClear
  <2> HIDE <1>0, <1>t DEF Durable, AtStep
  <2> QED BY <1>3, <2>1, <2>2, <2>3, <2>4, <2>5 DEF InsertStep
<1>4. CASE PublishStep
  <2>1. CASE PublishJournal
    <3>1. journal' \in Journal /\ journal' /= None
      BY <2>1, NoJournalAssumption, HeaderTypes, SMTT(30)
         DEF PublishJournal, TypeOK, Journal, Manifest, TargetManifest
    <3>2. journal'.previous = manifest /\ journal'.target = TargetManifest(target)
      BY <2>1 DEF PublishJournal
    <3> QED BY <2>1, <3>1, <3>2, <1>a DEF PublishJournal, TypeOK, Steps
  <2>2. CASE PublishBatch
    BY <2>2, <1>a DEF PublishBatch, TypeOK, Steps
  <2>3. CASE PublishCheckpoint
    BY <2>3 DEF PublishCheckpoint, Steps
  <2>4. CASE PublishManifest \/ PublishPublication
    BY <2>4, SMTT(30) DEF PublishManifest, PublishPublication, TargetManifest, Steps
  <2>5. CASE PublishClear
    BY <2>5, <1>a, SelfAncestor, SMTT(30) DEF PublishClear, TypeOK, Steps
  <2> HIDE <1>0, <1>t DEF Durable, AtStep
  <2> QED BY <1>4, <2>1, <2>2, <2>3, <2>4, <2>5 DEF PublishStep
<1>5. CASE Crash \/ BeginOpen
  BY <1>5, SMTT(30) DEF Crash, BeginOpen, store, TypeOK, Manifest, Steps, FailedAgrees
<1>6. CASE OpenStep
  <2>1. CASE NoJournal \/ JournalCommitted \/ JournalAbandoned
    BY <2>1, <1>a DEF NoJournal, JournalCommitted, JournalAbandoned, store, start, TypeOK,
                      FailedAgrees
  <2>2. ~ JournalUnresolved
    BY <1>a DEF JournalUnresolved, TypeOK
  <2>3. CASE RecoverCheckpoint \/ RecoverManifest \/ RecoverPublication
    BY <2>3, <1>a, SMTT(30)
       DEF RecoverCheckpoint, RecoverManifest, RecoverPublication, TargetManifest, start, TypeOK
  <2>4. CASE RecoverClear
    BY <2>4, <1>a, SelfAncestor DEF RecoverClear, start, TypeOK
  <2>5. CASE Accept
    <3>1. /\ journal = None /\ InSync /\ Publishable /\ trial /= "retry"
          /\ UNCHANGED <<tip, accounts, manifest, checkpoint, journal, batch>>
          /\ publication' = manifest
      BY <2>5 DEF Accept, ManifestVerifies
    <3>2. \/ pc' = "reconsider" /\ node' = "opening"
          \/ pc' = "idle" /\ node' = "up"
      BY <2>5, <3>1 DEF Accept, Proceed
    <3> QED BY <3>1, <3>2 DEF Steps
  <2>6. CASE VerifyFails
    <3>1. journal = None /\ Ahead
      BY <2>6, GenerationStoreAssumption DEF VerifyFails, ManifestVerifies, CheckpointAgrees
    <3>2. /\ manifest'.tip = manifest.tip /\ manifest'.replay = manifest.replay
          /\ UNCHANGED <<tip, checkpoint, journal, batch>>
      BY <2>6 DEF VerifyFails, Reject, TypeOK, Manifest, FailedAgrees
    <3>3. Ahead' /\ journal' = None
      BY <3>1, <3>2
    <3>4. \/ pc' = "reconsider" /\ node' = "opening"
          \/ pc' = "rec_journal" /\ node' = "opening" /\ trial' = "serve"
          \/ pc' = "idle" /\ node' = "rejected"
      BY <2>6 DEF VerifyFails, Reject
    <3> HIDE DEF Ahead, InSync, Committed, Intended, CheckpointFits, Publishable
    <3> QED BY <3>2, <3>3, <3>4
  <2>7. CASE Reconsider
    <3>1. /\ manifest'.tip = manifest.tip /\ manifest'.replay = manifest.replay
          /\ UNCHANGED <<tip, accounts, checkpoint, journal, batch, node>>
          /\ pc' = "rec_journal" /\ Publishable'
      BY <2>7 DEF Reconsider, TypeOK, Manifest
    <3>2. trial' = "retry" => journal = None /\ Ahead /\ FailedAgrees'
      BY <2>7, <3>1 DEF Reconsider, FailedAgrees
    <3>3. /\ InSync' = InSync /\ Ahead' = Ahead
          /\ Committed' = Committed /\ Intended' = Intended
      BY <3>1 DEF TargetManifest, IsAncestor
    <3>4. pc = "reconsider"
      BY <2>7 DEF Reconsider
    <3> HIDE DEF Ahead, InSync, Committed, Intended, CheckpointFits, Publishable
    <3> QED BY <3>1, <3>2, <3>3, <3>4
  <2>8. ~ OpenFails /\ ~ MarkFails
    BY DEF OpenFails, MarkFails, AfterError
  <2> HIDE <1>0, <1>t DEF Durable, AtStep
  <2> QED BY <1>6, <2>1, <2>2, <2>3, <2>4, <2>5, <2>6, <2>7, <2>8 DEF OpenStep
<1>7. ~ WriteFails /\ ~ FlushFails
  BY DEF WriteFails, FlushFails
<1> HIDE <1>0, <1>t DEF Durable, AtStep
<1> QED BY <1>1, <1>2, <1>3, <1>4, <1>5, <1>6, <1>7 DEF Next

\* A generation as published satisfies the inductive invariant.
LEMMA IInvInit == Init => IInv
<1> SUFFICES ASSUME Init PROVE IInv
  OBVIOUS
<1>1. tip \in Block /\ Number[tip] \in Nat
  BY BlockTreeAssumption DEF Init
<1>2. InSync
  BY <1>1, SelfAncestor, SMTT(30) DEF Init, InSync, CheckpointFits, NoReplay
<1> QED BY <1>1, <1>2, TypeInit
       DEF IInv, Init, Durable, AtStep, Publishable, Steps, RecSteps, TrialSteps

\* The inductive invariant holds throughout.
LEMMA Inductive == Spec => []IInv
BY IInvInit, IInvStep, PTL DEF Spec

(***************************************************************************)
(* SettledStore: as long as no operation stopped with an error and no      *)
(* chain was rebuilt in place, a serving                                   *)
(* generation with no write in progress passes its own start-up check,     *)
(* holds the accounts of its tip and has no journal left, after any number *)
(* of crashes at any point of insert_block,                                *)
(* commit_direct_candidate_extension, publish_canonical_suffix and         *)
(* start-up.                                                               *)
(***************************************************************************)
THEOREM CrashAtomicity == Spec => []SettledStore
<1>1. IInv => SettledStore
  BY GenerationStoreAssumption
     DEF IInv, AtStep, InSync, CheckpointFits, Publishable, SettledStore,
         ManifestVerifies, CheckpointAgrees
<1> QED BY <1>1, Inductive, PTL

(***************************************************************************)
(* RejectedOnlyAfterTornInsert: under the same condition,                  *)
(* start-up sets a generation aside only if insert_block or                *)
(* commit_direct_candidate_extension was cut off after a block and before  *)
(* the manifest; a crash inside publish_canonical_suffix never does it.    *)
(***************************************************************************)
THEOREM RejectionCause == Spec => []RejectedOnlyAfterTornInsert
<1>1. IInv => RejectedOnlyAfterTornInsert
  BY DEF IInv, AtStep, Ahead, RejectedOnlyAfterTornInsert
<1> QED BY <1>1, Inductive, PTL

-----------------------------------------------------------------------------
(* The manifest as a witness of the accounts, errors included.             *)

(***************************************************************************)
(* What ManifestVouchesForState needs of every step.  The manifest never   *)
(* names a block that outranks the tip, so a tip that has moved past its   *)
(* manifest stays past it until the next refresh.  A journal whose target  *)
(* is the tip was committed with the accounts of the tip; any other target *)
(* lies off the chain above the tip, and no insert ever reaches it.  What  *)
(* holds of the manifest holds of the one that a retry puts back.          *)
(***************************************************************************)
Vouched ==
    /\ tip \in Block /\ ~batch /\ pc /= "reb_clear"
    /\ manifest.tip /= tip => Outranks(tip, manifest.tip)
    /\ manifest.tip = tip => accounts = tip
    /\ journal /= None =>
        IF tip = journal.target.tip THEN accounts = tip
        ELSE ~ IsAncestor(tip, journal.target.tip)
    /\ pc \in {"ins_accounts", "ins_last_account"} =>
        manifest.tip /= tip /\ (journal /= None => tip /= journal.target.tip)
    /\ pc = "ins_manifest" => accounts = tip
    /\ pc \in {"pub_journal", "pub_batch"} =>
        Outranks(target, tip) /\ ~ IsAncestor(tip, target)
    /\ pc \in {"pub_batch", "pub_checkpoint", "pub_manifest", "pub_publication", "pub_clear"} =>
        journal /= None /\ journal.target.tip = target
    /\ pc \in {"pub_checkpoint", "pub_manifest", "pub_publication", "pub_clear"} =>
        tip = target /\ accounts = tip
    /\ pc \in RecSteps => journal /= None /\ tip = journal.target.tip /\ accounts = tip
    /\ trial = "retry" /\ pc \in TrialSteps =>
        IF failed.tip = tip THEN accounts = tip ELSE Outranks(tip, failed.tip)

VInv == DInv /\ (past /= "rebuild" => Vouched)

\* Every step keeps it, an error or a crash included.
LEMMA VouchedStep == VInv /\ [Next]_vars => VInv'
<1> SUFFICES ASSUME TypeInv, Resting, Vouched, past /= "rebuild", past' /= "rebuild",
                    [Next]_vars
             PROVE  Vouched'
  BY RestingStep, PastStays DEF VInv, DInv
<1>t. TypeOK /\ TypeOK'
  BY TypeStep DEF TypeInv
<1>0. /\ manifest.tip \in Block /\ target \in Block
      /\ journal /= None => journal.target.tip \in Block
  BY <1>t DEF TypeOK, Manifest, Journal
<1>a. \A b \in Block : TargetManifest(b).tip = b
  BY DEF TargetManifest
<1> USE DEF Vouched, RecSteps, TrialSteps
<1>1. CASE UNCHANGED vars
  BY <1>1 DEF vars, Outranks, IsAncestor
<1>2. ASSUME NEW b \in Block,
             BeginInsert(b) \/ BeginPublish(b) \/ BeginExtend(b) \/ BeginRebuild(b)
      PROVE  Vouched'
  <2>1. ~ BeginRebuild(b)
    BY DEF BeginRebuild
  <2>2. CASE BeginInsert(b) \/ BeginExtend(b)
    BY <2>2, SMTT(30) DEF BeginInsert, BeginExtend, store, Outranks, IsAncestor
  <2>3. CASE BeginPublish(b)
    BY <2>3 DEF BeginPublish, store, Outranks, IsAncestor
  <2> QED BY <1>2, <2>1, <2>2, <2>3
<1>3. CASE InsertStep
  <2>1. CASE InsertBlock \/ ExtendBlock
    <3>1. IsAncestor(tip, target) /\ tip /= target /\ tip /= None
      BY <2>1, GenerationStoreAssumption DEF InsertBlock, ExtendBlock, TypeInv, TypeOK
    <3>2. tip' = Ancestor[target][Number[tip] + 1] /\ tip' \in Block
      BY <1>0, <2>1, <3>1, NextOnPath, SMTT(30) DEF InsertBlock, ExtendBlock, NextBlock
    <3>3. IsAncestor(tip, tip') /\ tip /= tip'
      BY <1>0, <3>1, <3>2, NextOnPath, SelfAncestor
    <3>4. Outranks(tip', tip)
      BY <3>2, <3>3, OutranksOrder
    <3>5. Outranks(tip', manifest.tip) /\ manifest.tip /= tip'
      BY <1>0, <3>2, <3>4, OutranksOrder
    <3>6. journal /= None =>
            ~ IsAncestor(tip', journal.target.tip) /\ tip' /= journal.target.tip
      BY <1>0, <3>2, <3>3, AncestorOrder, SelfAncestor, SMTT(30)
    <3>7. UNCHANGED <<manifest, journal, batch, target>> /\ pc' \in {"ins_accounts", "ext_block"}
      BY <2>1 DEF InsertBlock, ExtendBlock
    <3> QED BY <3>2, <3>5, <3>6, <3>7 DEF Outranks, IsAncestor
  <2>2. CASE InsertSomeAccounts \/ InsertLastAccount
    BY <2>2, SMTT(30) DEF InsertSomeAccounts, InsertLastAccount, Outranks, IsAncestor
  <2>3. CASE InsertManifest
    <3>1. manifest'.tip = tip
      BY <1>t, <2>3 DEF InsertManifest, RefreshedManifest, TypeOK, Manifest
    <3> QED BY <2>3, <3>1 DEF InsertManifest, IsAncestor
  <2>4. CASE InsertPublication
    BY <2>4 DEF InsertPublication, Outranks, IsAncestor
  <2>5. ~ RebuildClear
    BY DEF RebuildClear
  <2> HIDE DEF Vouched
  <2> QED BY <1>3, <2>1, <2>2, <2>3, <2>4, <2>5 DEF InsertStep
<1>4. CASE PublishStep
  <2>1. CASE PublishJournal
    <3>1. journal' \in Journal /\ journal' /= None
      BY <1>t, <2>1, NoJournalAssumption, HeaderTypes, SMTT(30)
         DEF PublishJournal, TypeOK, Journal, Manifest, TargetManifest
    <3>2. journal'.target.tip = target
      <4>1. journal'.target = TargetManifest(target)
        BY <2>1 DEF PublishJournal
      <4> QED BY <1>0, <1>a, <4>1
    <3>3. tip /= target
      BY <2>1, SelfAncestor DEF PublishJournal
    <3> QED BY <2>1, <3>1, <3>2, <3>3 DEF PublishJournal, Outranks, IsAncestor
  <2>2. CASE PublishBatch
    <3>1. Outranks(target, manifest.tip) /\ manifest.tip /= target
      BY <1>0, <2>2, OutranksOrder DEF PublishBatch
    <3> QED BY <1>0, <2>2, <3>1 DEF PublishBatch, Outranks
  <2>3. CASE PublishCheckpoint \/ PublishPublication \/ PublishClear
    BY <2>3, SMTT(30) DEF PublishCheckpoint, PublishPublication, PublishClear, Outranks, IsAncestor
  <2>4. CASE PublishManifest
    BY <1>0, <1>a, <2>4 DEF PublishManifest
  <2> HIDE DEF Vouched
  <2> QED BY <1>4, <2>1, <2>2, <2>3, <2>4 DEF PublishStep
<1>5. CASE WriteFails
  BY <1>5 DEF WriteFails, store, Outranks, IsAncestor
<1>6. CASE FlushFails
  <2>1. Outranks(target, manifest.tip) /\ manifest.tip /= target
    BY <1>0, <1>6, OutranksOrder DEF FlushFails
  <2> QED BY <1>0, <1>6, <2>1 DEF FlushFails, Outranks
<1>7. CASE Crash
  BY <1>7 DEF Crash, Outranks, IsAncestor
<1>8. CASE BeginOpen
  BY <1>8 DEF BeginOpen, store, Outranks, IsAncestor
<1>9. CASE OpenStep
  <2>1. CASE NoJournal \/ JournalCommitted \/ JournalAbandoned
    BY <2>1, SMTT(30) DEF NoJournal, JournalCommitted, JournalAbandoned, store, start, Outranks,
                          IsAncestor
  <2>2. CASE JournalUnresolved \/ VerifyFails \/ OpenFails
    <3>1. Reject /\ pc \in TrialSteps
      BY <2>2 DEF JournalUnresolved, VerifyFails, OpenFails, Resting
    <3>2. /\ UNCHANGED <<tip, accounts, journal, batch>>
          /\ pc' \in {"reconsider", "idle"} \/ (pc' = "rec_journal" /\ trial' = "serve")
          /\ manifest'.tip = manifest.tip \/ (trial = "retry" /\ manifest' = failed)
      BY <1>t, <3>1 DEF Reject, TypeOK, Manifest
    <3>3. IF manifest'.tip = tip THEN accounts = tip ELSE Outranks(tip, manifest'.tip)
      BY <3>1, <3>2
    <3> QED BY <3>2, <3>3, SMTT(30) DEF Outranks, IsAncestor
  <2>3. CASE RecoverCheckpoint \/ RecoverPublication \/ RecoverClear
    BY <2>3, SMTT(30) DEF RecoverCheckpoint, RecoverPublication, RecoverClear, start, Outranks,
                          IsAncestor
  <2>4. CASE RecoverManifest
    BY <2>4 DEF RecoverManifest, start, Outranks, IsAncestor
  <2>5. CASE Accept
    <3>1. /\ UNCHANGED <<tip, accounts, manifest, journal, batch>>
          /\ pc' \in {"reconsider", "idle"} \/ (pc' = "rec_journal" /\ trial' = "serve")
      BY <2>5 DEF Accept, Proceed
    <3> QED BY <3>1, SMTT(30) DEF Outranks, IsAncestor
  <2>6. CASE Reconsider
    <3>1. /\ UNCHANGED <<tip, accounts, journal, batch>> /\ pc' = "rec_journal"
          /\ trial' = "retry" => failed'.tip = manifest.tip
      BY <1>t, <2>6 DEF Reconsider, TypeOK, Manifest
    <3>2. manifest'.tip = manifest.tip
      BY <1>t, <2>6 DEF Reconsider, TypeOK, Manifest
    <3> QED BY <3>1, <3>2, SMTT(30) DEF Outranks, IsAncestor
  <2>7. CASE MarkFails
    BY <2>7 DEF MarkFails, store, Outranks, IsAncestor
  <2> HIDE DEF Vouched
  <2> QED BY <1>9, <2>1, <2>2, <2>3, <2>4, <2>5, <2>6, <2>7 DEF OpenStep
<1> HIDE DEF Vouched
<1> QED BY <1>1, <1>2, <1>3, <1>4, <1>5, <1>6, <1>7, <1>8, <1>9 DEF Next

(***************************************************************************)
(* ManifestVouchesForState: whatever writes fail and wherever the process  *)
(* dies, as long as no chain was rebuilt in place, a manifest that names   *)
(* the stored tip means that the account keys are those of the tip, so     *)
(* verify_generation_manifest never lets a torn state be served.           *)
(***************************************************************************)
THEOREM ManifestIsWitness == Spec => []ManifestVouchesForState
<1>1. Init => VInv
  <2> SUFFICES ASSUME Init PROVE Vouched
    BY TypeInit, RestingInit DEF VInv, DInv
  <2>1. manifest.tip = tip
    BY DEF Init
  <2> QED BY <2>1 DEF Init, Vouched, RecSteps, TrialSteps
<1>2. VInv => ManifestVouchesForState
  BY DEF VInv, Vouched, ManifestVouchesForState
<1> QED BY <1>1, <1>2, VouchedStep, PTL DEF Spec

-----------------------------------------------------------------------------
(* Rejection.                                                              *)

(***************************************************************************)
(* A generation that start-up sets aside again and again: what is stored   *)
(* would not open, and no step of a trial has changed that.                *)
(***************************************************************************)
Doomed ==
    /\ node \in {"down", "opening", "rejected"} /\ ~batch /\ ~Openable
    /\ pc \in {"idle", "reconsider", "rec_journal", "verify"}
    /\ pc = "verify" => journal = None
    /\ trial = "retry" /\ pc \in {"rec_journal", "verify"} => FailedAgrees

\* Nothing that can happen to such a generation gets it served.
LEMMA DoomedStep == DInv /\ Doomed /\ [Next]_vars => Doomed'
<1> SUFFICES ASSUME TypeInv, Resting, Doomed, [Next]_vars
             PROVE  Doomed'
  BY DEF DInv
<1>t. TypeOK
  BY DEF TypeInv
<1>0. ASSUME UNCHANGED <<tip, checkpoint, journal>>, manifest'.tip = manifest.tip,
             manifest'.replay = manifest.replay
      PROVE  ~Openable'
  BY <1>0 DEF Doomed, Openable, CheckpointAgrees, IsAncestor
<1>1. CASE UNCHANGED vars
  <2>1. ~Openable' /\ UNCHANGED <<node, batch, pc, journal, trial, failed, manifest>>
    BY <1>0, <1>1 DEF vars
  <2> QED BY <2>1 DEF Doomed, FailedAgrees
<1>2. CASE Crash \/ BeginOpen \/ MarkFails
  <2>1. /\ UNCHANGED <<tip, checkpoint, journal, manifest>> /\ ~batch'
        /\ node' \in {"down", "opening", "rejected"}
        /\ pc' \in {"idle", "reconsider"} \/ (pc' = "rec_journal" /\ trial' = "weigh")
    BY <1>2, SMTT(30) DEF Crash, BeginOpen, MarkFails, store, Doomed
  <2>2. ~Openable'
    BY <1>0, <2>1
  <2> QED BY <2>1, <2>2 DEF Doomed
<1>3. CASE Reconsider
  <2>1. /\ UNCHANGED <<tip, checkpoint, journal, batch, node>> /\ pc' = "rec_journal"
        /\ manifest'.tip = manifest.tip /\ manifest'.replay = manifest.replay
        /\ trial' = "retry" => FailedAgrees'
    BY <1>t, <1>3 DEF Reconsider, TypeOK, Manifest, FailedAgrees
  <2>2. ~Openable'
    BY <1>0, <2>1
  <2> QED BY <2>1, <2>2 DEF Doomed
<1>4. CASE NoJournal
  <2>1. UNCHANGED <<tip, checkpoint, journal, manifest, batch, node, trial, failed>>
        /\ pc' = "verify" /\ pc = "rec_journal" /\ journal = None
    BY <1>4 DEF NoJournal, store, start
  <2>2. ~Openable'
    BY <1>0, <2>1
  <2> QED BY <2>1, <2>2 DEF Doomed, FailedAgrees
<1>5. CASE JournalAbandoned
  <2>1. /\ UNCHANGED <<tip, checkpoint, manifest, batch, node, trial, failed>>
        /\ pc' = "verify" /\ pc = "rec_journal" /\ journal' = None
        /\ journal /= None /\ tip = journal.previous.tip
    BY <1>5 DEF JournalAbandoned, start
  <2>2. ~Openable'
    BY <2>1 DEF Doomed, Openable, CheckpointAgrees, IsAncestor
  <2> QED BY <2>1, <2>2 DEF Doomed, FailedAgrees
<1>6. CASE JournalUnresolved \/ VerifyFails \/ OpenFails
  <2>1. Reject /\ pc \in {"rec_journal", "verify"} /\ node = "opening"
    BY <1>6 DEF JournalUnresolved, VerifyFails, OpenFails, Doomed, Resting, TrialSteps, RecSteps
  <2>2. /\ manifest'.tip = manifest.tip /\ manifest'.replay = manifest.replay
        /\ UNCHANGED <<tip, checkpoint, journal, batch>>
    BY <1>t, <2>1 DEF Reject, Doomed, FailedAgrees, TypeOK, Manifest
  <2>3. /\ node' \in {"opening", "rejected"}
        /\ pc' \in {"idle", "reconsider"} \/ (pc' = "rec_journal" /\ trial' = "serve")
    BY <2>1 DEF Reject
  <2>4. ~Openable'
    BY <1>0, <2>2
  <2> QED BY <2>2, <2>3, <2>4 DEF Doomed
<1>7. ~Accept /\ ~JournalCommitted
  BY DEF Accept, ManifestVerifies, JournalCommitted, Doomed, Openable
<1>8. node /= "up" /\ pc \in {"idle", "reconsider", "rec_journal", "verify"}
  BY DEF Doomed
<1>9. \/ Crash \/ BeginOpen \/ MarkFails \/ Reconsider \/ NoJournal \/ JournalAbandoned
      \/ JournalUnresolved \/ VerifyFails \/ OpenFails \/ UNCHANGED vars
  BY <1>7, <1>8
     DEF Next, BeginInsert, BeginPublish, BeginExtend, BeginRebuild, InsertStep,
         InsertBlock, InsertSomeAccounts, InsertLastAccount, InsertManifest,
         InsertPublication, ExtendBlock, RebuildClear, PublishStep, PublishJournal,
         PublishBatch, PublishCheckpoint, PublishManifest, PublishPublication,
         PublishClear, WriteFails, FlushFails, OpenStep, RecoverCheckpoint,
         RecoverManifest, RecoverPublication, RecoverClear
<1> QED BY <1>1, <1>2, <1>3, <1>4, <1>5, <1>6, <1>9

(***************************************************************************)
(* RejectionIsFinal: whatever errors, crashes and rebuilds came before, a  *)
(* generation that was set aside and whose files do not describe what is   *)
(* stored is never served again, however often                             *)
(* restore_failed_publication_generations tries it and whatever errors     *)
(* those trials meet.                                                      *)
(***************************************************************************)
THEOREM RejectedForGood == Spec => RejectionIsFinal
<1>1. Init => DInv
  BY TypeInit, RestingInit DEF DInv
<1>2. DInv /\ node = "rejected" /\ ~Openable => Doomed
  BY DEF DInv, Resting, Doomed
<1>3. Doomed => node /= "up"
  BY DEF Doomed
<1> QED BY <1>1, <1>2, <1>3, RestingStep, DoomedStep, PTL DEF Spec, RejectionIsFinal
=============================================================================
