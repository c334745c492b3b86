-------------------------- MODULE Retention_proofs --------------------------
(***************************************************************************)
(* Proofs about Retention: what a start serves is written whole, the root  *)
(* is served only when no snapshot is left, and no start falls behind the  *)
(* chain served last, wherever the process ended before.  First the        *)
(* inductive invariant and the steps of NodeStorage::open and of a build,  *)
(* from the start of a process to a generation that is open.               *)
(***************************************************************************)
EXTENDS Retention, BlockTree_proofs

\* Zenon proves the steps that name no other prover.
USE Zenon

(***************************************************************************)
(* Directories                                                             *)
(***************************************************************************)

Gens == [Id -> Directory \cup {None}]

(* e is d up to its snapshots and its publication record, which no         *)
(* validation reads.                                                       *)
Alike(d, e) ==
    /\ d \in Directory /\ e \in Directory
    /\ e.db = d.db /\ e.names = d.names /\ e.status = d.status
    /\ e.check = d.check /\ e.whole = d.whole

Like(g, h) ==
    \A i \in Id : IF g[i] = None THEN h[i] = None ELSE Alike(g[i], h[i])

(* The constants and the empty values are apart.                           *)
LEMMA Distinct ==
    /\ None \notin Directory /\ None \notin Store /\ None \notin Job
    /\ None \notin Block /\ None \notin Id /\ Damaged \notin Block /\ Root \notin Id
    /\ None /= Damaged /\ None /= Root /\ Id \subseteq Nat
BY RetentionAssumption, LayoutAssumption, SMTT(30) DEF Id

(* validate_generation_storage_for_config reads neither snapshots nor the  *)
(* publication record.                                                     *)
LEMMA AlikeVerifies ==
    ASSUME NEW d, NEW e, Alike(d, e)
    PROVE  Verifies(d) <=> Verifies(e)
BY DEF Alike, Verifies

(* What sled creates is a directory that does not validate.                *)
LEMMA CreatedFits ==
    Created \in Directory /\ ~Verifies(Created) /\ Created.db = None /\ Created.snaps = {}
BY Distinct DEF Created, Directory, Verifies

(* What publish_staging_generation renames validates.                      *)
LEMMA CompleteFits ==
    ASSUME NEW b \in Block
    PROVE  /\ Complete(b) \in Directory /\ Verifies(Complete(b))
           /\ Complete(b).db = b /\ Complete(b).names = b /\ Complete(b).whole
BY Distinct DEF Complete, Directory, Verifies

(* A mark on the manifest changes nothing but the status.                  *)
LEMMA StatusFits ==
    ASSUME NEW d \in Directory, NEW t \in {"Staging", "Verified", "Active", "Failed"}
    PROVE  /\ [d EXCEPT !.status = t] \in Directory
           /\ [d EXCEPT !.status = t].db = d.db /\ [d EXCEPT !.status = t].names = d.names
           /\ [d EXCEPT !.status = t].whole = d.whole /\ [d EXCEPT !.status = t].check = d.check
           /\ [d EXCEPT !.status = t].snaps = d.snaps /\ [d EXCEPT !.status = t].status = t
BY DEF Directory

(* ensure_generation_manifest leaves a validated generation validated.     *)
LEMMA WithManifestFits ==
    ASSUME NEW d \in Directory, Verifies(d)
    PROVE  /\ WithManifest(d) \in Directory /\ Verifies(WithManifest(d))
           /\ WithManifest(d).db = d.db /\ WithManifest(d).whole = d.whole
           /\ WithManifest(d).names /= None
<1>1. d.db \in Block
  BY DEF Verifies
<1>2. CASE d.names /= None
  BY <1>2 DEF WithManifest
<1>3. CASE d.names = None
  <2> DEFINE e == [d EXCEPT !.names = d.db, !.status = "Active", !.check = TRUE]
  <2>1. WithManifest(d) = e
    BY <1>3 DEF WithManifest
  <2>2. /\ e \in Directory /\ e.db = d.db /\ e.whole = d.whole /\ e.names = d.db
        /\ e.status = "Active" /\ e.check = TRUE
    BY <1>1 DEF Directory
  <2> HIDE DEF e
  <2>3. Verifies(e)
    BY <1>1, <2>2, Distinct DEF Verifies
  <2> QED BY <1>1, <2>1, <2>2, <2>3, Distinct
<1> QED BY <1>2, <1>3

(* A finite set of ids has a least and a greatest element.                 *)
LEMMA IdBounds ==
    ASSUME NEW S \in SUBSET Id, S /= {}
    PROVE  Max(S) \in S /\ (\A i \in S : i <= Max(S)) /\ Min(S) \in S
<1>1. MaxId \in Nat /\ Id = 1..MaxId
  BY RetentionAssumption DEF Id
<1>2. \E m \in S : \A i \in S : m <= i
  BY <1>1, LeastNatural, SMTT(30)
<1>3. Min(S) \in S
  BY <1>2 DEF Min
<1> DEFINE T == {MaxId - i : i \in S}
<1>4. T \in SUBSET Nat /\ T /= {}
  <2>1. \A i \in S : MaxId - i \in Nat
    BY <1>1, SMTT(30)
  <2>2. PICK i \in S : TRUE
    OBVIOUS
  <2>3. MaxId - i \in T
    OBVIOUS
  <2> QED BY <2>1, <2>3
<1>5. PICK m \in T : \A k \in T : m <= k
  <2> HIDE DEF T
  <2> QED BY <1>4, LeastNatural
<1>6. \E i \in S : \A j \in S : i >= j
  <2>1. PICK i \in S : m = MaxId - i
    OBVIOUS
  <2>2. ASSUME NEW j \in S
        PROVE  i >= j
    <3>1. MaxId - j \in T
      OBVIOUS
    <3>2. MaxId - i <= MaxId - j
      BY <1>5, <2>1, <3>1
    <3>3. i \in Nat /\ j \in Nat /\ MaxId \in Nat
      BY <1>1, SMTT(30)
    <3> QED
      <4> HIDE DEF T
      <4> QED BY <3>2, <3>3, SMTT(30)
  <2> QED BY <2>2
<1>7. Max(S) \in S /\ \A j \in S : Max(S) >= j
  BY <1>6 DEF Max
<1>8. \A j \in S : j <= Max(S)
  BY <1>1, <1>7
<1> QED BY <1>3, <1>7, <1>8


(* prune_old_snapshots removes nothing but snapshots.                      *)
LEMMA CappedFits ==
    ASSUME NEW g \in Gens
    PROVE  Capped(g) \in Gens /\ Like(g, Capped(g))
<1>1. ASSUME NEW i \in Id, g[i] /= None
      PROVE  g[i] \in Directory /\ Alike(g[i], g[i])
  BY <1>1 DEF Gens, Alike
<1>2. CASE ~Pruning
  BY <1>1, <1>2 DEF Capped, Like
<1>3. CASE Pruning
  <2> DEFINE f == Floor(g)
             W(d) == [d EXCEPT !.snaps = {b \in d.snaps : Number[b] >= f - Window}]
  <2>1. Capped(g) = [i \in Id |-> IF g[i] = None THEN None ELSE W(g[i])]
    BY <1>3 DEF Capped, WithoutOldSnapshots
  <2>2. ASSUME NEW d \in Directory
        PROVE  Alike(d, W(d))
    <3>1. {b \in d.snaps : Number[b] >= f - Window} \in SUBSET Block
      BY DEF Directory
    <3> DEFINE S == {b \in d.snaps : Number[b] >= f - Window}
    <3> HIDE DEF S
    <3>2. Alike(d, [d EXCEPT !.snaps = S])
      BY <3>1 DEF Alike, Directory, S
    <3> QED BY <3>2 DEF S
  <2>3. \A d \in Directory : W(d) \in Directory
    BY <2>2 DEF Alike
  <2> HIDE DEF W
  <2> QED BY <1>1, <2>1, <2>2, <2>3 DEF Gens, Like
<1> QED BY <1>2, <1>3

Steps ==
    {"down", "retry", "judge", "select", "restore", "compact", "stage", "fill", "publish",
     "point", "opened", "cap", "recover", "up"}

(* Types, and what they leave out: the program counter and the history.    *)
Typed ==
    /\ TypeOK
    /\ pc \in Steps
    /\ events \in [crash : Nat, write : Nat, command : Nat]

(* A database with a tip was written whole, and nothing is staged where    *)
(* the pointer points.                                                     *)
Directories ==
    /\ \A i \in Id : gens[i] /= None /\ gens[i].db \in Block => gens[i].whole
    /\ active /= None => staging[active] = None

(* While NodeStorage::open looks for a generation, what it has yet to look *)
(* at is on disk, what it prefers validates, and no snapshot is passed     *)
(* over before a write fails.                                              *)
Opening ==
    /\ pc \in {"down", "retry", "judge", "select", "restore"} => serving = None
    /\ pc \in {"retry", "judge", "select", "restore"} => active \in Published \cup {None}
    /\ pc \in {"retry", "judge", "select"} => left \subseteq Published
    /\ pc \in {"retry", "judge"} /\ best /= None => best \in Published /\ Verifies(gens[best])
    /\ pc = "judge" => job /= None /\ job.id \in Published
    /\ pc = "restore" => left \subseteq Snapshots /\ (events.write = 0 => left = Snapshots)

(* A generation is built under a free id, apart from the active one.       *)
Building ==
    pc \in {"stage", "fill", "publish", "point"} =>
        /\ job /= None /\ job.block \in Block /\ job.for \in {"restore", "compact"}
        /\ job.id /= active
        /\ pc /= "point" => gens[job.id] = None
        /\ pc \in {"stage", "point"} => staging[job.id] = None
        /\ pc = "publish" => staging[job.id] = Complete(job.block)
        /\ pc = "point" => gens[job.id] = Complete(job.block)
        /\ job.for = "restore" => /\ serving = None /\ left \subseteq Snapshots
                                  /\ active \in Published \cup {None}
        /\ job.for = "compact" => serving /= None /\ left = {}

(* A generation in use that was not removed is the active one, validates   *)
(* and has the served tip.                                                 *)
InService ==
    /\ pc \in {"compact", "opened", "cap", "recover", "up"} => serving /= None /\ left = {}
    /\ serving /= None /\ serving.id \in Id /\ serving.linked =>
          /\ active = serving.id /\ gens[serving.id] /= None /\ Verifies(gens[serving.id])
          /\ gens[serving.id].db = serving.tip
          /\ pc \in {"opened", "cap", "recover", "up"} => gens[serving.id].names /= None
    /\ pc \in {"compact", "opened"} => serving.linked
    /\ pc = "compact" => serving.id \in Id
    /\ pc \in {"cap", "up"} => serving.tip \in Block
    /\ pc = "recover" => /\ job /= None /\ job.block \in Block /\ job.id /= active
                         /\ staging[job.id] = None

RInv == Typed /\ Directories /\ Opening /\ Building /\ InService

(* The chain served last is in the active generation, until that is lost.  *)
HInv ==
    /\ active \in Id
    /\ held /= None =>
          /\ gens[active] /= None /\ Verifies(gens[active])
          /\ TotalWork[gens[active].db] >= TotalWork[held]
          /\ pc \in {"retry", "judge"} =>
                best /= None /\ TotalWork[gens[best].db] >= TotalWork[held]
          /\ pc = "select" => active \in left
          /\ pc /= "restore"
          /\ pc \in {"stage", "fill", "publish", "point"} =>
                job.for = "compact" /\ job.block = gens[active].db
          /\ serving /= None => serving.id \in Id /\ serving.linked

(***************************************************************************)
(* The steps of NodeStorage::open                                          *)
(***************************************************************************)

(* Begin, of a node's start and of the offline command.                    *)
LEMMA BeginKeeps ==
    ASSUME RInv, NEW c \in Heights \cup {None}, Begin(c),
           events' \in [crash : Nat, write : Nat, command : Nat]
    PROVE  RInv'
<1>1. Typed'
  BY Distinct, CreatedFits DEF RInv, Typed, TypeOK, Directories, Begin, Opened, Published, Steps
<1>2. Directories'
  BY Distinct, CreatedFits DEF RInv, Typed, TypeOK, Directories, Begin, Opened
<1>3. Opening'
  BY Distinct, CreatedFits DEF RInv, Typed, TypeOK, Opening, Begin, Opened, Published
<1>4. Building' /\ InService'
  BY Distinct DEF RInv, Typed, TypeOK, Building, InService, Opening, Begin
<1> QED BY <1>1, <1>2, <1>3, <1>4 DEF RInv

(* restore_failed_publication_generations marks a generation Verified.     *)
LEMMA RetryKeeps ==
    ASSUME RInv, NEW i \in Id, Retry(i)
    PROVE  RInv'
<1> DEFINE e == [gens[i] EXCEPT !.status = "Verified"]
<1>0. /\ gens[i] \in Directory /\ e \in Directory
      /\ e.db = gens[i].db /\ e.names = gens[i].names /\ e.whole = gens[i].whole
      /\ e.check = gens[i].check /\ e.snaps = gens[i].snaps /\ e.status = "Verified"
      /\ gens' = [gens EXCEPT ![i] = e]
  <2>1. gens[i] \in Directory
    BY DEF RInv, Typed, TypeOK, Opening, Published, Retry
  <2> QED BY <2>1, StatusFits DEF Retry
<1> HIDE DEF e
<1>1. Typed'
  BY <1>0, Distinct, SMTT(30) DEF RInv, Typed, TypeOK, Retry, Steps, Job
<1>2. Directories'
  BY <1>0, Distinct DEF RInv, Typed, TypeOK, Directories, Retry
<1>3. Published' = Published /\ Published \subseteq Id
  BY <1>0, Distinct, SMTT(30) DEF RInv, Typed, TypeOK, Retry, Published
<1>4. ASSUME best /= None
      PROVE  Verifies(gens'[best])
  BY <1>0, <1>4, SMTT(30) DEF RInv, Typed, TypeOK, Opening, Retry, Verifies
<1>5. Opening'
  <2>1. job' /= None /\ job'.id = i
    BY Distinct, SMTT(30) DEF Retry, Job
  <2> QED BY <1>3, <1>4, <2>1 DEF RInv, Opening, Retry
<1>6. Building' /\ InService'
  BY Distinct DEF RInv, Typed, TypeOK, Building, InService, Opening, Retry
<1> QED BY <1>1, <1>2, <1>5, <1>6 DEF RInv

(* The heavier of two generations that validate is preferred; one that     *)
(* does not is marked Failed.                                              *)
LEMMA JudgeKeeps ==
    ASSUME RInv, Judge
    PROVE  RInv'
<1> DEFINE j == job.id
           e == [gens[j] EXCEPT !.status = "Failed"]
<1>0. /\ j \in Id /\ j \in Published /\ gens[j] \in Directory
      /\ serving = None /\ left \subseteq Published /\ active \in Published \cup {None}
  BY Distinct DEF RInv, Typed, TypeOK, Opening, Published, Judge, Job
<1>1. CASE Verifies(gens[j])
  <2>1. gens' = gens /\ best' \in {j, best}
    BY <1>1 DEF Judge
  <2>2. Typed' /\ Directories'
    BY <1>0, <2>1, Distinct DEF RInv, Typed, TypeOK, Directories, Judge, Steps
  <2>3. Opening'
    BY <1>0, <1>1, <2>1 DEF RInv, Opening, Judge, Published
  <2>4. Building' /\ InService'
    BY <1>0 DEF Building, InService, Judge
  <2> QED BY <2>2, <2>3, <2>4 DEF RInv
<1>2. CASE ~Verifies(gens[j])
  <2>1. /\ e \in Directory /\ e.db = gens[j].db /\ e.whole = gens[j].whole
        /\ gens' = [gens EXCEPT ![j] = e] /\ best' = best
    BY <1>0, <1>2, StatusFits DEF Judge
  <2> HIDE DEF e
  <2>2. Typed' /\ Directories'
    BY <1>0, <2>1, Distinct, SMTT(30) DEF RInv, Typed, TypeOK, Directories, Judge, Steps
  <2>3. Published' = Published
    BY <1>0, <2>1, Distinct DEF RInv, Typed, TypeOK, Published
  <2>4. best /= None => best /= j /\ best \in Id
    BY <1>2 DEF RInv, Typed, TypeOK, Opening, Judge
  <2>5. best /= None => gens'[best] = gens[best]
    BY <1>0, <2>1, <2>4 DEF RInv, Typed, TypeOK
  <2>6. Opening'
    BY <1>0, <2>1, <2>3, <2>5 DEF RInv, Opening, Judge
  <2>7. Building' /\ InService'
    BY <1>0 DEF Building, InService, Judge
  <2> QED BY <2>2, <2>6, <2>7 DEF RInv
<1> QED BY <1>1, <1>2

(* The pointer goes to the preferred generation.                           *)
LEMMA JudgedKeeps ==
    ASSUME RInv, Judged
    PROVE  RInv'
<1>1. /\ active' \in Published \cup {None} /\ serving = None /\ left' \subseteq Published
      /\ Published \subseteq Id
  BY DEF RInv, Opening, Judged, Published
<1>2. Typed'
  BY <1>1 DEF RInv, Typed, TypeOK, Judged, Steps
<1>3. Directories'
  BY <1>1, Distinct DEF RInv, Typed, TypeOK, Directories, Judged, Published
<1>4. Opening'
  BY <1>1 DEF RInv, Opening, Judged, Published
<1>5. Building' /\ InService'
  BY <1>1 DEF Building, InService, Judged
<1> QED BY <1>2, <1>3, <1>4, <1>5 DEF RInv

(* What open looks at next is a generation on disk.                        *)
LEMMA CandidateFits ==
    ASSUME RInv, pc = "select", left /= {}
    PROVE  /\ Candidate \in left /\ Candidate \in Id /\ gens[Candidate] \in Directory
           /\ Opened(Candidate) = gens[Candidate]
<1>1. left \subseteq Published /\ left \subseteq Id
  BY DEF RInv, Opening, Published
<1>2. Candidate \in left
  BY <1>1, IdBounds DEF Candidate
<1> QED BY <1>1, <1>2, Distinct DEF RInv, Typed, TypeOK, Published, Opened

(* The first generation that validates is served.                          *)
LEMMA SelectKeeps ==
    ASSUME RInv, Select
    PROVE  RInv'
<1> DEFINE k == Candidate
           st == [id |-> k, tip |-> gens[k].db, linked |-> TRUE]
<1>0. /\ k \in Id /\ gens[k] \in Directory /\ Verifies(gens[k]) /\ gens[k] /= None
      /\ gens[k].db \in Block
  BY CandidateFits, Distinct DEF Select, Verifies
<1>1. /\ active' = k /\ serving' = st /\ st \in Store /\ serving' /= None
      /\ st.id = k /\ st.tip = gens[k].db /\ st.linked = TRUE /\ left' = {}
      /\ pc' \in {"compact", "opened"}
  <2>1. st \in Store /\ st.id = k /\ st.tip = gens[k].db /\ st.linked = TRUE
    BY <1>0 DEF Store
  <2>2. active' = k /\ serving' = st /\ left' = {}
    BY DEF Select
  <2>3. pc' \in {"compact", "opened"}
    BY DEF Select
  <2> HIDE DEF st, k
  <2> QED BY <2>1, <2>2, <2>3, Distinct
<1>2. over' \in BOOLEAN
  BY DEF RInv, Typed, TypeOK, Select
<1>3. /\ gens' \in [Id -> Directory \cup {None}]
      /\ \A i \in Id : i /= k => gens'[i] = gens[i]
      /\ gens'[k] \in Directory /\ Verifies(gens'[k]) /\ gens'[k] /= None
      /\ gens'[k].db = gens[k].db /\ gens'[k].whole = gens[k].whole
      /\ pc' = "opened" => gens'[k].names /= None
  <2>1. CASE gens' = gens /\ pc' = "compact"
    BY <1>0, <2>1 DEF RInv, Typed, TypeOK
  <2>2. CASE gens' = [gens EXCEPT ![k] = WithManifest(gens[k])]
    BY <1>0, <2>2, WithManifestFits, Distinct DEF RInv, Typed, TypeOK
  <2> QED BY <2>1, <2>2 DEF Select
<1> HIDE DEF k, st
<1>4. Typed'
  BY ZenonT(30), <1>0, <1>1, <1>2, <1>3, Distinct DEF RInv, Typed, TypeOK, Select, Steps
<1>5. Directories'
  BY <1>0, <1>1, <1>3, Distinct, SMTT(30) DEF RInv, Typed, TypeOK, Directories, Select
<1>6. Opening' /\ Building'
  BY <1>1 DEF Opening, Building
<1>7. InService'
  BY <1>0, <1>1, <1>3 DEF InService
<1> QED BY <1>4, <1>5, <1>6, <1>7 DEF RInv

(* A generation that does not validate is marked, if it has a manifest.    *)
LEMMA RejectKeeps ==
    ASSUME RInv, Reject
    PROVE  RInv'
<1> DEFINE k == Candidate
           e == IF gens[k].names = None THEN gens[k] ELSE [gens[k] EXCEPT !.status = "Failed"]
<1>0. /\ k \in Id /\ gens[k] \in Directory /\ e \in Directory
      /\ e.db = gens[k].db /\ e.whole = gens[k].whole /\ e.snaps = gens[k].snaps
      /\ gens' = [gens EXCEPT ![k] = e]
  <2>1. k \in Id /\ gens[k] \in Directory /\ Opened(k) = gens[k]
    BY CandidateFits DEF Reject
  <2> QED BY ZenonT(30), <2>1, StatusFits DEF Reject
<1> HIDE DEF e
<1>1. Published' = Published /\ serving = None
  BY <1>0, Distinct, SMTT(30) DEF RInv, Typed, TypeOK, Published, Opening, Reject
<1>2. Typed'
  BY <1>0, Distinct, SMTT(30) DEF RInv, Typed, TypeOK, Reject, Steps
<1>3. Directories'
  BY <1>0, Distinct DEF RInv, Typed, TypeOK, Directories, Reject
<1>4. Opening'
  BY <1>1 DEF RInv, Opening, Reject
<1>5. Building' /\ InService'
  BY <1>1 DEF Building, InService, Reject
<1> QED BY <1>2, <1>3, <1>4, <1>5 DEF RInv

(* No generation validates: every snapshot on disk is to be tried.         *)
LEMMA SelectNoneKeeps ==
    ASSUME RInv, SelectNone
    PROVE  RInv'
<1>1. gens' = gens /\ staging' = staging /\ active' = active /\ root' = root
  BY DEF SelectNone, disk
<1>2. Snapshots \subseteq Block /\ Snapshots' = Snapshots /\ Published' = Published
  BY <1>1, SMTT(30) DEF RInv, Typed, TypeOK, Snapshots, Published, Directory
<1>3. Typed' /\ Directories'
  BY <1>1, <1>2 DEF RInv, Typed, TypeOK, Directories, SelectNone, Steps
<1>4. Opening' /\ Building' /\ InService'
  BY <1>1, <1>2 DEF RInv, Opening, Building, InService, SelectNone
<1> QED BY <1>3, <1>4 DEF RInv

(* The first free id is free.                                              *)
LEMMA FreeFits ==
    ASSUME NEW n, NEW F \in SUBSET FreeFrom(n), F /= {}
    PROVE  Min(F) \in Id /\ Min(F) >= n /\ gens[Min(F)] = None /\ staging[Min(F)] = None
<1>1. F \in SUBSET Id
  BY DEF FreeFrom
<1>2. Min(F) \in F
  BY <1>1, IdBounds
<1> QED BY <1>2 DEF FreeFrom

(* The highest snapshot is restored under a free id.                       *)
LEMMA RestoreKeeps ==
    ASSUME RInv, NEW s \in Block, Restore(s)
    PROVE  RInv'
<1> DEFINE k == Min(FreeFrom(Max(Published) + 1))
           w == [id |-> k, block |-> s, for |-> "restore"]
<1>0. k \in Id /\ gens[k] = None /\ staging[k] = None
  BY FreeFits DEF Restore
<1>1. job' = w
  BY DEF Restore
<1> HIDE DEF k
<1>2. w \in Job /\ w /= None /\ w.id = k /\ w.block = s /\ w.for = "restore"
  BY <1>0, Distinct, SMTT(30) DEF Job
<1> HIDE DEF w
<1>3. gens' = gens /\ staging' = staging /\ active' = active /\ root' = root
  BY DEF Restore, disk
<1>4. /\ Snapshots' = Snapshots /\ Published' = Published /\ left \subseteq Snapshots
      /\ serving = None /\ active \in Published \cup {None}
  BY <1>3 DEF RInv, Opening, Snapshots, Published, Restore
<1>5. k /= active
  BY <1>0, <1>4, Distinct DEF Published
<1>6. Typed' /\ Directories'
  BY <1>1, <1>2, <1>3 DEF RInv, Typed, TypeOK, Directories, Restore, Steps
<1>7. Opening' /\ InService'
  BY <1>4 DEF Opening, InService, Restore
<1>8. Building'
  BY <1>0, <1>1, <1>2, <1>3, <1>4, <1>5 DEF Building, Restore
<1> QED BY <1>6, <1>7, <1>8 DEF RInv

(* The root is opened.                                                     *)
LEMMA OpenRootKeeps ==
    ASSUME RInv, OpenRoot
    PROVE  RInv'
<1> DEFINE st == [id |-> Root, tip |-> root.tip, linked |-> TRUE]
<1>1. /\ serving' = st /\ st \in Store /\ st /= None /\ st.id = Root /\ st.linked = TRUE
  <2>1. root.tip \in Block \cup {None} /\ serving' = st
    BY DEF OpenRoot, RootVerifies
  <2>2. st \in Store /\ st.id = Root /\ st.linked = TRUE
    BY <2>1 DEF Store
  <2> HIDE DEF st
  <2> QED BY <2>1, <2>2, Distinct
<1> HIDE DEF st
<1>2. root' \in RootStore
  BY DEF RInv, Typed, TypeOK, OpenRoot, RootStore
<1>3. Typed' /\ Directories'
  BY <1>1, <1>2 DEF RInv, Typed, TypeOK, Directories, OpenRoot, NothingStaged, Steps
<1>4. Opening' /\ Building' /\ InService'
  BY <1>1, Distinct DEF Opening, Building, InService, OpenRoot
<1> QED BY <1>3, <1>4 DEF RInv

(***************************************************************************)
(* The steps that build and publish a generation                           *)
(***************************************************************************)

(* A step that ends the process leaves only the disk to look at.           *)
LEMMA StopKeeps ==
    ASSUME RInv, Stop, Directories', root' \in RootStore, active' = active,
           gens' \in Gens, staging' \in Gens,
           \A i \in Id : gens'[i] /= None => staging'[i] = None,
           over' \in BOOLEAN, held' \in Block \cup {None},
           events' \in [crash : Nat, write : Nat, command : Nat]
    PROVE  RInv'
<1>1. Typed'
  BY DEF RInv, Typed, TypeOK, Stop, Gens, Steps
<1>2. Opening' /\ Building' /\ InService'
  BY DEF Opening, Building, InService, Stop
<1> QED BY <1>1, <1>2 DEF RInv

(* An event is counted.                                                    *)
LEMMA EventFits ==
    ASSUME RInv, NEW k \in {"crash", "write", "command"}, Event(k)
    PROVE  /\ events' \in [crash : Nat, write : Nat, command : Nat]
           /\ k = "write" => events'.write /= 0
BY SMTT(30) DEF RInv, Typed, Event

(* The root does not open or does not validate.                            *)
LEMMA OpenRootFailsKeeps ==
    ASSUME RInv, OpenRootFails
    PROVE  RInv'
<1>1. /\ gens' = gens /\ active' = active /\ root' = root /\ over' = over /\ held' = held
      /\ Stop /\ staging' \in {staging, NothingStaged}
  BY DEF OpenRootFails
<1>2. events' \in [crash : Nat, write : Nat, command : Nat]
  BY EventFits DEF OpenRootFails, RInv, Typed
<1>3. /\ staging' \in Gens /\ Directories'
      /\ \A i \in Id : gens'[i] /= None => staging'[i] = None
  BY <1>1 DEF RInv, Typed, TypeOK, Directories, Gens, NothingStaged
<1> QED BY <1>1, <1>2, <1>3, StopKeeps DEF RInv, Typed, TypeOK, Gens

(* The generation is rewritten from the snapshot of its tip.               *)
LEMMA CompactKeeps ==
    ASSUME RInv, Compact
    PROVE  RInv'
<1> DEFINE k == Min(CompactId)
           b == gens[serving.id].names
           w == [id |-> k, block |-> b, for |-> "compact"]
<1>0. k \in Id /\ gens[k] = None /\ staging[k] = None
  BY FreeFits DEF Compact, CompactId
<1>1. job' = w /\ b \in gens[serving.id].snaps
  BY DEF Compact
<1>2. /\ gens' = gens /\ staging' = staging /\ active' = active /\ root' = root
      /\ serving' = serving /\ left' = left
  BY DEF Compact, disk
<1>3. /\ serving /= None /\ serving.id \in Id /\ serving.linked /\ active = serving.id
      /\ gens[active] /= None /\ left = {}
  BY DEF RInv, InService, Compact
<1>4. b \in Block
  BY <1>1, <1>3 DEF RInv, Typed, TypeOK, Directory
<1> HIDE DEF k, b
<1>5. w \in Job /\ w /= None /\ w.id = k /\ w.block = b /\ w.for = "compact"
  BY <1>0, <1>4, Distinct, SMTT(30) DEF Job
<1> HIDE DEF w
<1>6. k /= active
  BY <1>0, <1>3
<1>7. Typed' /\ Directories'
  BY <1>1, <1>2, <1>5 DEF RInv, Typed, TypeOK, Directories, Compact, Steps
<1>8. Opening' /\ InService'
  BY <1>2 DEF RInv, Opening, InService, Compact
<1>9. Building'
  BY <1>0, <1>1, <1>2, <1>3, <1>4, <1>5, <1>6 DEF Building, Compact
<1> QED BY <1>7, <1>8, <1>9 DEF RInv

(* Without the snapshot or the space, the start fails.                     *)
LEMMA CompactRefusedKeeps ==
    ASSUME RInv, CompactRefused
    PROVE  RInv'
<1>1. /\ gens' = gens /\ staging' = staging /\ active' = active /\ root' = root
      /\ over' = over /\ held' = held /\ Stop
  BY DEF CompactRefused, disk
<1>2. events' \in [crash : Nat, write : Nat, command : Nat]
  BY EventFits DEF RInv, Typed, CompactRefused
<1>3. Directories'
  BY <1>1 DEF RInv, Directories
<1> QED BY <1>1, <1>2, <1>3, StopKeeps DEF RInv, Typed, TypeOK, Gens

(* create_staging_generation and a part of the entries.                    *)
LEMMA StageKeeps ==
    ASSUME RInv, Stage
    PROVE  RInv'
<1> DEFINE e == [Created EXCEPT !.names = job.block, !.db = job.block]
<1>0. job.id \in Id /\ job.block \in Block /\ gens[job.id] = None /\ job.id /= active
  BY Distinct DEF RInv, Typed, TypeOK, Building, Stage, Job
<1>1. e \in Directory
  BY <1>0 DEF Created, Directory
<1>2. staging' = [staging EXCEPT ![job.id] = e]
  BY DEF Stage
<1> HIDE DEF e
<1>3. Typed'
  BY <1>0, <1>1, <1>2, SMTT(30) DEF RInv, Typed, TypeOK, Stage, Steps
<1>4. Directories'
  BY <1>0, <1>2 DEF RInv, Typed, TypeOK, Directories, Stage
<1>5. Snapshots' = Snapshots /\ Published' = Published
  BY DEF Snapshots, Published, Stage
<1>6. Opening' /\ InService'
  BY DEF RInv, Opening, InService, Stage
<1>7. Building'
  BY <1>5 DEF RInv, Building, Stage
<1> QED BY <1>3, <1>4, <1>6, <1>7 DEF RInv

(* The other entries, the checkpoint and the manifest.                     *)
LEMMA FillKeeps ==
    ASSUME RInv, Fill
    PROVE  RInv'
<1> DEFINE e == Complete(job.block)
<1>0. job.id \in Id /\ job.block \in Block /\ gens[job.id] = None /\ job.id /= active
  BY Distinct DEF RInv, Typed, TypeOK, Building, Fill, Job
<1>1. e \in Directory
  BY <1>0, CompleteFits
<1>2. staging' = [staging EXCEPT ![job.id] = e]
  BY DEF Fill
<1>3. staging'[job.id] = Complete(job.block)
  BY <1>0, <1>2 DEF RInv, Typed, TypeOK
<1> HIDE DEF e
<1>4. Typed'
  BY <1>0, <1>1, <1>2, SMTT(30) DEF RInv, Typed, TypeOK, Fill, Steps
<1>5. Directories'
  BY <1>0, <1>2 DEF RInv, Typed, TypeOK, Directories, Fill
<1>6. Snapshots' = Snapshots /\ Published' = Published
  BY DEF Snapshots, Published, Fill
<1>7. Opening' /\ InService'
  BY DEF RInv, Opening, InService, Fill
<1>8. Building'
  BY <1>3, <1>6 DEF RInv, Building, Fill
<1> QED BY <1>4, <1>5, <1>7, <1>8 DEF RInv

(* A write fails: the next snapshot is tried, or the start fails.          *)
LEMMA BuildFailsKeeps ==
    ASSUME RInv, BuildFails
    PROVE  RInv'
<1>0. job.id \in Id /\ gens[job.id] = None /\ job.for \in {"restore", "compact"}
  BY Distinct DEF RInv, Typed, TypeOK, Building, BuildFails, Job
<1>1. /\ gens' = gens /\ active' = active /\ root' = root /\ over' = over /\ held' = held
  BY DEF BuildFails
<1>2. events' \in [crash : Nat, write : Nat, command : Nat] /\ events'.write /= 0
  BY EventFits DEF BuildFails
<1>3. /\ staging' \in Gens /\ \A i \in Id : staging'[i] \in {staging[i], None}
  BY <1>0 DEF RInv, Typed, TypeOK, Gens, BuildFails
<1>4. Directories'
  BY <1>1, <1>3 DEF RInv, Typed, TypeOK, Directories
<1>5. CASE job.for = "restore"
  <2>1. /\ pc' = "restore" /\ job' = None /\ serving' = serving /\ cmd' = cmd
        /\ left' = left /\ best' = best /\ pending' = pending
    BY <1>5 DEF BuildFails
  <2>2. Typed'
    BY <1>1, <1>2, <1>3, <2>1 DEF RInv, Typed, TypeOK, Gens, Steps
  <2>3. /\ serving = None /\ left \subseteq Snapshots /\ active \in Published \cup {None}
        /\ Snapshots' = Snapshots /\ Published' = Published
    BY <1>1, <1>5 DEF RInv, Building, BuildFails, Snapshots, Published
  <2>4. Opening' /\ Building' /\ InService'
    BY <1>1, <1>2, <2>1, <2>3 DEF Opening, Building, InService
  <2> QED BY <1>4, <2>2, <2>4 DEF RInv
<1>6. CASE job.for /= "restore"
  <2>1. Stop
    BY <1>6 DEF BuildFails
  <2>2. \A i \in Id : gens'[i] /= None => staging'[i] = None
    BY <1>1, <1>3 DEF RInv, Typed, TypeOK
  <2> QED BY <1>1, <1>2, <1>3, <1>4, <2>1, <2>2, StopKeeps DEF RInv, Typed, TypeOK, Gens
<1> QED BY <1>5, <1>6

(* publish_staging_generation: the rename.                                 *)
LEMMA PublishKeeps ==
    ASSUME RInv, Publish
    PROVE  RInv'
<1> DEFINE e == Complete(job.block)
<1>0. /\ job.id \in Id /\ job.block \in Block /\ gens[job.id] = None /\ job.id /= active
      /\ staging[job.id] = e
  BY Distinct DEF RInv, Typed, TypeOK, Building, Publish, Job
<1>1. e \in Directory /\ e.whole /\ e.db = job.block
  BY <1>0, CompleteFits
<1>2. gens' = [gens EXCEPT ![job.id] = e] /\ staging' = [staging EXCEPT ![job.id] = None]
  BY <1>0 DEF Publish
<1>3. gens'[job.id] = Complete(job.block) /\ staging'[job.id] = None
  BY <1>0, <1>2 DEF RInv, Typed, TypeOK
<1> HIDE DEF e
<1>4. Typed'
  BY <1>0, <1>1, <1>2, SMTT(30) DEF RInv, Typed, TypeOK, Publish, Steps
<1>5. Directories'
  BY <1>0, <1>1, <1>2 DEF RInv, Typed, TypeOK, Directories, Publish
<1>6. \A i \in Published : gens'[i] = gens[i] /\ i \in Id /\ i \in Published'
  BY <1>0, <1>2 DEF RInv, Typed, TypeOK, Published
<1>7. Snapshots \subseteq Snapshots' /\ Published \subseteq Published'
  BY <1>6 DEF Snapshots
<1>8. Opening'
  BY DEF Opening, Publish
<1>9. InService'
  <2>1. serving /= None /\ serving.id \in Id /\ serving.linked =>
            gens'[serving.id] = gens[serving.id]
    BY <1>6 DEF RInv, InService, Published
  <2> QED BY <2>1 DEF RInv, InService, Publish
<1>10. Building'
  BY <1>0, <1>3, <1>7 DEF RInv, Building, Publish
<1> QED BY <1>4, <1>5, <1>8, <1>9, <1>10 DEF RInv

(* publish_staging_generation: the pointer.                                *)
LEMMA PointKeeps ==
    ASSUME RInv, Point
    PROVE  RInv'
<1> DEFINE st == [id |-> job.id, tip |-> job.block, linked |-> TRUE]
<1>0. /\ job.id \in Id /\ job.block \in Block /\ gens[job.id] = Complete(job.block)
      /\ staging[job.id] = None
  BY Distinct DEF RInv, Typed, TypeOK, Building, Point, Job
<1>1. /\ gens[job.id] \in Directory /\ Verifies(gens[job.id]) /\ gens[job.id] /= None
      /\ gens[job.id].db = job.block /\ gens[job.id].names /= None
  BY <1>0, CompleteFits, Distinct
<1>2. serving' = st /\ active' = job.id /\ gens' = gens /\ over' \in BOOLEAN
  BY ZenonT(30) DEF RInv, Typed, TypeOK, Point
<1>3. st \in Store /\ st.id = job.id /\ st.tip = job.block /\ st.linked = TRUE
  BY <1>0 DEF Store
<1> HIDE DEF st
<1>4. st /= None
  BY <1>3, Distinct
<1>5. Typed' /\ Directories'
  BY ZenonT(30), <1>0, <1>2, <1>3 DEF RInv, Typed, TypeOK, Directories, Point, Steps
<1>6. Opening' /\ Building'
  BY DEF Opening, Building, Point
<1>7. InService'
  BY <1>0, <1>1, <1>2, <1>3, <1>4 DEF InService, Point
<1> QED BY <1>5, <1>6, <1>7 DEF RInv

(***************************************************************************)
(* The steps of a node that has opened its store                           *)
(***************************************************************************)

(* An empty store, which can only be the root, gets the genesis block.     *)
LEMMA StartStoreKeeps ==
    ASSUME RInv, StartStore
    PROVE  RInv'
<1>0. Genesis \in Block /\ serving \in Store /\ serving /= None /\ serving.linked /\ left = {}
  BY BlockTreeAssumption DEF RInv, Typed, TypeOK, InService, StartStore
<1>1. /\ serving' \in Store /\ serving' /= None /\ serving'.id = serving.id
      /\ serving'.linked = serving.linked /\ serving'.tip \in Block
      /\ serving.id \in Id => serving'.tip = serving.tip
  <2>1. CASE serving.tip = None
    <3> DEFINE st == [serving EXCEPT !.tip = Genesis]
    <3>1. st \in Store /\ st.id = serving.id /\ st.linked = serving.linked /\ st.tip = Genesis
      BY <1>0 DEF Store
    <3>2. serving' = st
      BY <2>1 DEF StartStore
    <3> HIDE DEF st
    <3>3. serving.id \notin Id
      BY <1>0, <2>1, Distinct DEF RInv, InService, Verifies
    <3> QED BY <1>0, <3>1, <3>2, <3>3, Distinct
  <2>2. CASE serving.tip /= None
    BY <1>0, <2>2 DEF StartStore, Store
  <2> QED BY <2>1, <2>2
<1>2. root' \in RootStore
  BY <1>0 DEF RInv, Typed, TypeOK, StartStore, RootStore
<1>3. Typed' /\ Directories'
  BY <1>1, <1>2 DEF RInv, Typed, TypeOK, Directories, StartStore, Steps
<1>4. Opening' /\ Building'
  BY DEF Opening, Building, StartStore
<1>5. InService'
  BY <1>0, <1>1 DEF RInv, InService, StartStore
<1> QED BY <1>3, <1>4, <1>5 DEF RInv

(* prune_old_generations, which may remove the directory in use.           *)
LEMMA RemoveOutdatedKeeps ==
    ASSUME RInv, NEW i \in Id, RemoveOutdated(i)
    PROVE  RInv'
<1> DEFINE st == [serving EXCEPT !.linked = serving.linked /\ i /= serving.id]
<1>0. serving \in Store /\ serving /= None /\ left = {} /\ serving.tip \in Block
  BY DEF RInv, Typed, TypeOK, InService, RemoveOutdated
<1>1. /\ st \in Store /\ st.id = serving.id /\ st.tip = serving.tip
      /\ st.linked <=> serving.linked /\ i /= serving.id
  BY <1>0 DEF Store
<1>2. serving' = st /\ gens' = [gens EXCEPT ![i] = None] /\ pc' = "cap" /\ active' = active
  BY DEF RemoveOutdated
<1> HIDE DEF st
<1>3. Typed' /\ Directories'
  BY <1>1, <1>2, SMTT(30) DEF RInv, Typed, TypeOK, Directories, RemoveOutdated
<1>4. Opening' /\ Building'
  BY <1>2 DEF Opening, Building
<1>5. st /= None
  BY <1>1, Distinct
<1>6. serving'.linked /\ serving'.id \in Id => gens'[serving.id] = gens[serving.id]
  BY <1>1, <1>2 DEF RInv, Typed, TypeOK
<1>7. InService'
  <2>1. pc = "cap" /\ left' = left /\ job' = job
    BY DEF RemoveOutdated
  <2> QED BY <1>0, <1>1, <1>2, <1>5, <1>6, <2>1 DEF RInv, InService
<1> QED BY <1>3, <1>4, <1>7 DEF RInv

(* A change of the directories that no validation sees keeps the disk in   *)
(* order.                                                                  *)
LEMMA LikeKeeps ==
    ASSUME RInv, gens' \in Gens, Like(gens, gens'), staging' = staging, active' = active
    PROVE  /\ Directories' /\ \A i \in Id : gens'[i] /= None => staging'[i] = None
<1>1. ASSUME NEW i \in Id, gens'[i] /= None
      PROVE  /\ gens[i] /= None /\ gens'[i].db = gens[i].db /\ gens'[i].whole = gens[i].whole
             /\ gens'[i].names = gens[i].names /\ (Verifies(gens'[i]) <=> Verifies(gens[i]))
  BY <1>1, AlikeVerifies, Distinct DEF Like, Alike
<1> QED BY <1>1 DEF RInv, Typed, TypeOK, Directories

(* The quota is enforced: the node serves, or does not start.              *)
LEMMA CapKeeps ==
    ASSUME RInv, Cap
    PROVE  RInv'
<1>0. gens \in Gens /\ over' \in BOOLEAN
  BY DEF RInv, Typed, TypeOK, Gens, Cap
<1>1. gens' \in Gens /\ Like(gens, gens') /\ staging' = staging /\ active' = active
  BY <1>0, CappedFits DEF Cap
<1>2. Directories' /\ \A i \in Id : gens'[i] /= None => staging'[i] = None
  BY <1>1, LikeKeeps
<1>3. CASE over'
  <2>1. Stop /\ held' = held /\ root' = root /\ events' = events
    BY <1>3 DEF Cap
  <2> QED BY <1>0, <1>1, <1>2, <2>1, StopKeeps DEF RInv, Typed, TypeOK, Gens
<1>4. CASE ~over'
  <2>1. /\ pc' = "up" /\ held' = (IF InUse THEN serving.tip ELSE None) /\ serving' = serving
        /\ cmd' = cmd /\ left' = left /\ best' = best /\ job' = job /\ pending' = pending
        /\ root' = root /\ events' = events
    BY <1>4 DEF Cap
  <2>2. serving \in Store /\ serving /= None /\ left = {} /\ serving.tip \in Block
    BY DEF RInv, Typed, TypeOK, InService, Cap
  <2>3. Typed'
    BY <1>0, <1>1, <1>2, <2>1, <2>2 DEF RInv, Typed, TypeOK, Gens, Steps
  <2>4. Opening' /\ Building'
    BY <2>1 DEF Opening, Building
  <2>5. InService'
    BY ZenonT(30), <1>1, <2>1, <2>2, AlikeVerifies, Distinct DEF RInv, InService, Like, Alike, Cap
  <2> QED BY <1>2, <2>3, <2>4, <2>5 DEF RInv
<1> QED BY <1>3, <1>4

(* snapshot-recovery replays into a free directory.                        *)
LEMMA RecoverKeeps ==
    ASSUME RInv, Recover
    PROVE  RInv'
<1> DEFINE f == IF active = None THEN 1 ELSE active + 1
           k == Min(FreeFrom(f))
           b == Ancestor[serving.tip][cmd]
           w == [id |-> k, block |-> b, for |-> "recover"]
<1>0. k \in Id /\ k >= f /\ gens[k] = None /\ staging[k] = None /\ job' = w
  <2>1. FreeFrom(f) /= {} /\ job' = w
    BY DEF Recover
  <2> HIDE DEF f
  <2> QED BY <2>1, FreeFits
<1>1. serving \in Store /\ serving /= None /\ serving.tip \in Block /\ left = {}
  BY Distinct DEF RInv, Typed, TypeOK, InService, Recover, Store
<1>2. b \in Block
  <2>1. cmd \in Nat /\ cmd <= Number[serving.tip] /\ Number[serving.tip] \in Nat
    BY <1>1, RetentionAssumption, BlockTreeAssumption, SMTT(30) DEF RInv, Typed, TypeOK, Recover
  <2>2. cmd \in 0..Number[serving.tip]
    BY <2>1, SMTT(30)
  <2>3. Ancestor[serving.tip] \in [0..Number[serving.tip] -> Block]
    BY <1>1, BlockTreeAssumption
  <2> QED BY <2>2, <2>3
<1> HIDE DEF k, b
<1>3. w \in Job /\ w.id = k /\ w.block = b
  BY <1>0, <1>2 DEF Job
<1> HIDE DEF w
<1>4. w /= None
  BY <1>3, Distinct
<1>5. PICK c \in Block : gens' = [gens EXCEPT ![k] = [Created EXCEPT !.db = c, !.whole = TRUE]]
  BY <1>0, <1>3 DEF Recover
<1> DEFINE e == [Created EXCEPT !.db = c, !.whole = TRUE]
<1>6. e \in Directory /\ e.whole
  BY DEF Created, Directory
<1> HIDE DEF e
<1>7. gens' = [gens EXCEPT ![k] = e]
  BY <1>5 DEF e
<1>8. Typed'
  BY <1>0, <1>3, <1>6, <1>7 DEF RInv, Typed, TypeOK, Recover, Steps
<1>9. Directories'
  BY <1>0, <1>6, <1>7 DEF RInv, Typed, TypeOK, Directories, Recover
<1>10. Opening' /\ Building'
  BY DEF Opening, Building, Recover
<1>11. k /= active
  BY <1>0, Distinct, SMTT(30) DEF RInv, Typed, TypeOK
<1>12. InService'
  <2>1. serving.id \in Id /\ serving.linked => gens'[serving.id] = gens[serving.id]
    BY <1>0, <1>1, <1>7 DEF RInv, Typed, TypeOK, InService
  <2>2. /\ pc = "opened" /\ pc' = "recover" /\ serving' = serving /\ active' = active
        /\ left' = left /\ staging' = staging
    BY DEF Recover
  <2> QED BY <1>0, <1>1, <1>2, <1>3, <1>4, <1>11, <2>1, <2>2 DEF RInv, InService
<1> QED BY <1>8, <1>9, <1>10, <1>12 DEF RInv

(* The height is above the tip.                                            *)
LEMMA RecoverRefusedKeeps ==
    ASSUME RInv, RecoverRefused
    PROVE  RInv'
<1>1. /\ gens' = gens /\ staging' = staging /\ active' = active /\ root' = root
      /\ over' = over /\ held' = held /\ events' = events /\ Stop
  BY DEF RecoverRefused, disk
<1>2. Directories'
  BY <1>1 DEF RInv, Directories
<1> QED BY <1>1, <1>2, StopKeeps DEF RInv, Typed, TypeOK, Gens

(* The manifest of the recovered generation is written.                    *)
LEMMA RecoveredKeeps ==
    ASSUME RInv, Recovered
    PROVE  RInv'
<1> DEFINE e == [Complete(job.block) EXCEPT !.check = FALSE, !.record = FALSE]
<1>0. job.id \in Id /\ job.block \in Block /\ staging[job.id] = None
  BY Distinct DEF RInv, Typed, TypeOK, InService, Recovered, Job
<1>1. e \in Directory /\ e.whole
  BY <1>0 DEF Complete, Directory
<1>2. /\ gens' = [gens EXCEPT ![job.id] = e] /\ staging' = staging /\ active' = active
      /\ root' = root /\ over' = over /\ held' = held /\ events' = events /\ Stop
  BY DEF Recovered
<1> HIDE DEF e
<1>3. /\ gens' \in Gens /\ Directories'
      /\ \A i \in Id : gens'[i] /= None => staging'[i] = None
  BY <1>0, <1>1, <1>2 DEF RInv, Typed, TypeOK, Directories, Gens
<1> QED BY <1>2, <1>3, StopKeeps DEF RInv, Typed, TypeOK, Gens

(* A write of the recovery fails: its directory is removed.                *)
LEMMA RecoverFailsKeeps ==
    ASSUME RInv, RecoverFails
    PROVE  RInv'
<1>0. job.id \in Id
  BY Distinct DEF RInv, Typed, TypeOK, InService, RecoverFails, Job
<1>1. /\ gens' = [gens EXCEPT ![job.id] = None] /\ staging' = staging /\ active' = active
      /\ root' = root /\ over' = over /\ held' = held /\ Stop
  BY DEF RecoverFails
<1>2. events' \in [crash : Nat, write : Nat, command : Nat]
  BY EventFits DEF RecoverFails
<1>3. /\ gens' \in Gens /\ Directories'
      /\ \A i \in Id : gens'[i] /= None => staging'[i] = None
  BY <1>0, <1>1 DEF RInv, Typed, TypeOK, Directories, Gens
<1> QED BY <1>1, <1>2, <1>3, StopKeeps DEF RInv, Typed, TypeOK, Gens
(***************************************************************************)
(* The steps of the running node                                           *)
(***************************************************************************)

(* Import and Reorganize: the store in use gets a tip and its manifest.    *)
LEMMA SetTipKeeps ==
    ASSUME RInv, pc = "up", NEW b \in Block, NEW g \in Gens, Like(gens, g),
           gens' = Stored(g, b), SetTip(b), over' \in BOOLEAN, pending' \in BOOLEAN,
           UNCHANGED <<staging, active, cmd, pc, left, best, job, events>>
    PROVE  /\ RInv'
           /\ serving.id \in Id /\ serving.linked =>
                 gens'[active] \in Directory /\ gens'[active].db = b
<1> DEFINE k == serving.id
           e == [g[k] EXCEPT !.db = b, !.names = b, !.status = "Active", !.record = TRUE]
           st == [serving EXCEPT !.tip = b]
           Changed == k \in Id /\ serving.linked
<1>0. /\ serving \in Store /\ serving /= None /\ left = {} /\ serving.tip \in Block
      /\ k \in Id \cup {Root}
  BY DEF RInv, Typed, TypeOK, InService, Store
<1>1. st \in Store /\ st.id = k /\ st.tip = b /\ st.linked = serving.linked /\ serving' = st
  BY <1>0 DEF Store, SetTip
<1>2. /\ staging' = staging /\ active' = active /\ cmd' = cmd /\ pc' = pc /\ left' = left
      /\ best' = best /\ job' = job /\ events' = events
  OBVIOUS
<1>3. root' \in RootStore /\ held' \in Block \cup {None}
  BY DEF RInv, Typed, TypeOK, SetTip, RootStore
<1>4. ASSUME NEW i \in Id, g[i] /= None
      PROVE  /\ gens[i] /= None /\ g[i] \in Directory /\ g[i].db = gens[i].db
             /\ g[i].whole = gens[i].whole
  BY <1>4, Distinct DEF Like, Alike
<1>5. ASSUME Changed
      PROVE  /\ active = k /\ k \in Id /\ gens' = [g EXCEPT ![k] = e] /\ e \in Directory
             /\ e.db = b /\ e.names = b /\ e.status = "Active" /\ e.check /\ e.whole
             /\ gens[k] /= None
  <2>1. /\ active = k /\ gens[k] /= None /\ Verifies(gens[k]) /\ gens[k].names /= None
        /\ gens[k].whole
    BY <1>0, <1>5 DEF RInv, InService, Directories, Verifies
  <2>2. g[k] \in Directory /\ g[k].check /\ g[k].whole
    BY <1>5, <2>1 DEF Like, Alike, Verifies
  <2>3. gens' = [g EXCEPT ![k] = e]
    BY <1>5, Distinct DEF Stored
  <2>4. /\ e \in Directory /\ e.db = b /\ e.names = b /\ e.status = "Active"
        /\ e.check = g[k].check /\ e.whole = g[k].whole
    BY <2>2 DEF Directory
  <2> HIDE DEF e
  <2> QED BY <1>5, <2>1, <2>2, <2>3, <2>4
<1>6. ~Changed => gens' = g
  BY <1>0 DEF Stored
<1> HIDE DEF e, st, k
<1>7. /\ gens' \in Gens
      /\ \A i \in Id : gens'[i] /= None => /\ staging[i] = None
                                           /\ gens'[i].db \in Block => gens'[i].whole
  <2>1. CASE Changed
    BY <1>4, <1>5, <2>1, SMTT(30) DEF RInv, Typed, TypeOK, Directories, Gens
  <2>2. CASE ~Changed
    BY <1>4, <1>6, <2>2, SMTT(30) DEF RInv, Typed, TypeOK, Directories, Gens
  <2> QED BY <2>1, <2>2
<1>8. Typed' /\ Directories'
  BY <1>1, <1>2, <1>3, <1>7 DEF RInv, Typed, TypeOK, Directories, Gens
<1>9. Opening' /\ Building'
  BY <1>2 DEF Opening, Building
<1>10. st /= None
  BY <1>1, Distinct
<1>11. InService' /\ (Changed => gens'[active] \in Directory /\ gens'[active].db = b)
  <2>1. CASE Changed
    <3>1. gens'[k] = e
      BY <1>5, <2>1 DEF Gens
    <3>2. Verifies(e) /\ e /= None /\ e.names /= None
      BY <1>5, <2>1, Distinct DEF Verifies
    <3> QED BY <1>0, <1>1, <1>2, <1>5, <1>10, <2>1, <3>1, <3>2 DEF InService
  <2>2. CASE ~Changed
    BY <1>0, <1>1, <1>2, <1>10, <2>2 DEF InService
  <2> QED BY <2>1, <2>2
<1> QED BY <1>8, <1>9, <1>11 DEF RInv, k

(* A block is connected.                                                   *)
LEMMA ImportKeeps ==
    ASSUME RInv, NEW b \in Block, Import(b)
    PROVE  RInv'
<1>1. Capped(gens) \in Gens /\ Like(gens, Capped(gens))
  BY CappedFits DEF RInv, Typed, TypeOK, Gens
<1> QED BY <1>1, SetTipKeeps DEF Import

(* A reorganization is published.                                          *)
LEMMA ReorganizeKeeps ==
    ASSUME RInv, NEW b \in Block, Reorganize(b)
    PROVE  RInv'
<1>1. gens \in Gens /\ Like(gens, gens) /\ pending \in BOOLEAN
  BY DEF RInv, Typed, TypeOK, Gens, Like, Alike
<1> QED BY <1>1, SetTipKeeps DEF Reorganize

(* write_periodic_snapshot changes checkpoints, and creates the directory  *)
(* of a generation that was removed under the node.                        *)
LEMMA CheckpointedFits ==
    ASSUME RInv, NEW b \in Block
    PROVE  /\ Checkpointed(gens, b) \in Gens
           /\ \A i \in Id : IF gens[i] /= None THEN Alike(gens[i], Checkpointed(gens, b)[i])
                            ELSE \/ Checkpointed(gens, b)[i] = None
                                 \/ /\ i = active /\ Checkpointed(gens, b)[i] \in Directory
                                    /\ Checkpointed(gens, b)[i].db = None
<1> DEFINE n == Final(b) - Interval
           X(d) == {c \in d.execs : Number[c] /= Number[b]} \cup {b}
           N(d) == [d EXCEPT !.execs = X(d)]
           O(d) == [d EXCEPT !.execs = {c \in d.execs : Number[c] >= n}]
           g == [gens EXCEPT ![active] = N(Opened(active))]
<1>0. gens \in Gens
  BY DEF RInv, Typed, TypeOK, Gens
<1>1. ASSUME NEW i \in Id, gens[i] /= None
      PROVE  Alike(gens[i], gens[i])
  BY <1>0, <1>1 DEF Alike, Gens
<1>2. CASE Checkpointed(gens, b) = gens
  BY <1>0, <1>1, <1>2
<1>3. CASE /\ active \in Id
           /\ Checkpointed(gens, b) = [i \in Id |-> IF g[i] = None THEN None ELSE O(g[i])]
  <2>1. ASSUME NEW d \in Directory
        PROVE  Alike(d, N(d)) /\ Alike(d, O(d)) /\ N(d) \in Directory /\ O(d) \in Directory
    <3> DEFINE S == X(d)
               T == {c \in d.execs : Number[c] >= n}
    <3>1. S \in SUBSET Block /\ T \in SUBSET Block
      BY DEF Directory
    <3> HIDE DEF S, T
    <3>2. Alike(d, [d EXCEPT !.execs = S]) /\ Alike(d, [d EXCEPT !.execs = T])
      BY <3>1 DEF Alike, Directory
    <3> QED BY <3>2 DEF S, T, Alike
  <2> HIDE DEF N, O
  <2>2. Opened(active) \in Directory
    BY <1>0, <1>3, CreatedFits DEF Opened, Gens
  <2>3. /\ g \in Gens /\ g[active] = N(Opened(active)) /\ g[active] \in Directory
        /\ \A i \in Id : i /= active => g[i] = gens[i]
    BY <1>0, <1>3, <2>1, <2>2 DEF Gens
  <2> HIDE DEF g
  <2>4. Checkpointed(gens, b) \in Gens
    BY <1>3, <2>1, <2>3 DEF Gens
  <2>5. ASSUME NEW i \in Id, i /= active
        PROVE  IF gens[i] = None THEN Checkpointed(gens, b)[i] = None
               ELSE Alike(gens[i], Checkpointed(gens, b)[i])
    BY <1>0, <1>3, <2>1, <2>3, <2>5 DEF Gens
  <2>6. /\ Alike(Opened(active), Checkpointed(gens, b)[active])
        /\ Checkpointed(gens, b)[active] \in Directory
    <3>1. Checkpointed(gens, b)[active] = O(N(Opened(active)))
      BY <1>3, <2>3, Distinct
    <3>2. Alike(Opened(active), N(Opened(active))) /\ Alike(N(Opened(active)), O(N(Opened(active))))
      BY <2>1, <2>2
    <3> QED BY <3>1, <3>2 DEF Alike
  <2>7. gens[active] = None => Checkpointed(gens, b)[active].db = None
    BY <2>6, CreatedFits DEF Opened, Alike
  <2>8. gens[active] /= None => Alike(gens[active], Checkpointed(gens, b)[active])
    BY <2>6 DEF Opened
  <2> QED BY <2>4, <2>5, <2>6, <2>7, <2>8
<1>4. CASE active = None \/ Number[b] = 0 \/ Number[b] % Interval /= 0
  BY <1>2, <1>4 DEF Checkpointed
<1>5. CASE ~(active = None \/ Number[b] = 0 \/ Number[b] % Interval /= 0)
  <2>1. active \in Id
    BY <1>5 DEF RInv, Typed, TypeOK
  <2>2. Checkpointed(gens, b) = [i \in Id |-> IF g[i] = None THEN None ELSE O(g[i])]
    BY <1>5 DEF Checkpointed, WithoutOldExecs
  <2> QED BY <1>3, <2>1, <2>2
<1> QED BY <1>4, <1>5

(* canonical_maintenance_worker.                                           *)
LEMMA MaintainKeeps ==
    ASSUME RInv, Maintain
    PROVE  RInv'
<1> DEFINE h == Checkpointed(gens, serving.tip)
<1>0. /\ serving \in Store /\ serving /= None /\ serving.tip \in Block /\ left = {}
      /\ over' \in BOOLEAN
  BY DEF RInv, Typed, TypeOK, InService, Maintain
<1>1. /\ gens' \in Gens
      /\ \A i \in Id : IF gens[i] /= None THEN Alike(gens[i], gens'[i])
                       ELSE \/ gens'[i] = None
                            \/ i = active /\ gens'[i] \in Directory /\ gens'[i].db = None
  BY <1>0, CheckpointedFits DEF Maintain
<1>2. /\ staging' = staging /\ active' = active /\ serving' = serving /\ left' = left
      /\ pc' = "up" /\ pc = "up"
  BY DEF Maintain
<1>3. ASSUME NEW i \in Id, gens'[i] /= None
      PROVE  staging'[i] = None /\ (gens'[i].db \in Block => gens'[i].whole)
  <2>1. CASE gens[i] /= None
    BY <1>1, <1>2, <2>1 DEF RInv, Typed, TypeOK, Directories, Alike
  <2>2. CASE gens[i] = None
    BY <1>1, <1>2, <1>3, <2>2, Distinct DEF RInv, Directories
  <2> QED BY <2>1, <2>2
<1>4. Typed'
  BY <1>0, <1>1, <1>3 DEF RInv, Typed, TypeOK, Gens, Maintain
<1>5. Directories'
  BY <1>2, <1>3 DEF RInv, Directories
<1>6. Opening' /\ Building'
  BY <1>2 DEF Opening, Building
<1>7. InService'
  BY <1>0, <1>1, <1>2, AlikeVerifies, Distinct DEF RInv, InService, Alike
<1> QED BY <1>4, <1>5, <1>6, <1>7 DEF RInv

(* remove_abandoned_staging_generations.                                   *)
LEMMA CleanStagingKeeps ==
    ASSUME RInv, CleanStaging
    PROVE  RInv'
<1>1. Typed' /\ Directories'
  BY DEF RInv, Typed, TypeOK, Directories, CleanStaging
<1>2. Opening' /\ Building' /\ InService'
  BY DEF RInv, Opening, Building, InService, CleanStaging
<1> QED BY <1>1, <1>2 DEF RInv

(* The operator stops the node.                                            *)
LEMMA ShutDownKeeps ==
    ASSUME RInv, ShutDown
    PROVE  RInv'
<1>1. /\ gens' = gens /\ staging' = staging /\ active' = active /\ root' = root
      /\ over' = over /\ held' = held /\ events' = events /\ Stop
  BY DEF ShutDown, disk
<1>2. Directories'
  BY <1>1 DEF RInv, Directories
<1> QED BY <1>1, <1>2, StopKeeps DEF RInv, Typed, TypeOK, Gens

(* A crash damages at most one database, which then has no tip.            *)
LEMMA CrashKeeps ==
    ASSUME RInv, NEW i \in Id \cup {Root, None}, Crash(i)
    PROVE  RInv'
<1> DEFINE e == [gens[i] EXCEPT !.db = Damaged]
<1>0. root' \in RootStore
  BY DEF RInv, Typed, TypeOK, Crash, RootStore
<1>1. /\ staging' = staging /\ active' = active /\ over' = over
      /\ held' \in {held, None} /\ Stop
  BY DEF Crash
<1>2. events' \in [crash : Nat, write : Nat, command : Nat]
  BY EventFits DEF Crash
<1>3. CASE i \in {Root, None}
  <2>1. gens' = gens /\ Directories'
    BY <1>1, <1>3, Distinct DEF RInv, Directories, Crash
  <2> QED BY <1>0, <1>1, <1>2, <2>1, StopKeeps DEF RInv, Typed, TypeOK, Gens
<1>4. CASE i \in Published
  <2>1. i \in Id /\ gens[i] \in Directory /\ gens' = [gens EXCEPT ![i] = e]
    BY <1>4, Distinct DEF RInv, Typed, TypeOK, Published, Crash
  <2>2. e \in Directory /\ e.db = Damaged
    BY <2>1 DEF Directory
  <2> HIDE DEF e
  <2>3. /\ gens' \in Gens /\ Directories'
        /\ \A j \in Id : gens'[j] /= None => staging'[j] = None
    BY <1>1, <2>1, <2>2, Distinct DEF RInv, Typed, TypeOK, Directories, Gens
  <2> QED BY <1>0, <1>1, <1>2, <2>3, StopKeeps DEF RInv, Typed, TypeOK, Gens
<1> QED BY <1>3, <1>4 DEF Crash

-----------------------------------------------------------------------------
(* The first start finds a layout.                                         *)
LEMMA RetentionInit ==
    ASSUME Init
    PROVE  RInv
<1>1. PICK l \in Layouts :
          /\ gens = l.gens /\ active = l.active /\ root = l.root
          /\ held = IF l.active = None THEN l.root.tip ELSE l.gens[l.active].db
  BY DEF Init
<1>2. /\ gens \in [Id -> Directory \cup {None}] /\ active \in Id \cup {None}
      /\ root \in RootStore /\ root.tip \in Block \cup {None}
      /\ \A i \in Id : gens[i] /= None /\ gens[i].db \in Block => gens[i].whole
      /\ active /= None => gens[active] /= None /\ Verifies(gens[active])
  BY <1>1, LayoutAssumption DEF RootStore
<1>3. held \in Block \cup {None}
  BY <1>1, <1>2 DEF Verifies
<1>4. Typed
  BY <1>2, <1>3 DEF Init, Typed, TypeOK, Steps
<1>5. Directories
  BY <1>2 DEF Init, Directories
<1>6. Opening /\ Building /\ InService
  BY DEF Init, Opening, Building, InService
<1> QED BY <1>4, <1>5, <1>6 DEF RInv

(* Every step keeps the invariant.                                         *)
LEMMA RetentionStep ==
    ASSUME RInv, [Next]_vars
    PROVE  RInv'
<1>1. CASE UNCHANGED vars
  <2>1. Typed' /\ Directories'
    BY <1>1 DEF RInv, Typed, TypeOK, Directories, vars
  <2>2. Opening' /\ Building' /\ InService'
    BY ZenonT(30), <1>1 DEF RInv, Opening, Building, InService, vars, Published, Snapshots
  <2> QED BY <2>1, <2>2 DEF RInv
<1>2. CASE StartNode
  BY <1>2, BeginKeeps DEF StartNode, RInv, Typed
<1>3. ASSUME NEW h \in Heights, StartRecovery(h)
      PROVE  RInv'
  <2>1. events' \in [crash : Nat, write : Nat, command : Nat]
    BY <1>3, EventFits DEF StartRecovery
  <2> QED BY <1>3, <2>1, BeginKeeps DEF StartRecovery
<1>4. CASE OpenStep
  BY <1>4, RetryKeeps, JudgeKeeps, JudgedKeeps, SelectKeeps, RejectKeeps, SelectNoneKeeps,
     RestoreKeeps, OpenRootKeeps, OpenRootFailsKeeps, CompactKeeps, CompactRefusedKeeps, StageKeeps, FillKeeps,
     PublishKeeps, PointKeeps, StartStoreKeeps, CapKeeps, RemoveOutdatedKeeps, RecoverKeeps,
     RecoverRefusedKeeps, RecoveredKeeps DEF OpenStep
<1> QED
  BY <1>1, <1>2, <1>3, <1>4, BuildFailsKeeps, RecoverFailsKeeps, ImportKeeps, ReorganizeKeeps,
     MaintainKeeps, CleanStagingKeeps, ShutDownKeeps, CrashKeeps DEF Next

(* NodeStorage::open and publish_staging_generation: at every moment, and  *)
(* wherever earlier processes ended, the generation in use was written     *)
(* whole.  Validation never looks at every key; the proof is that a        *)
(* database has a tip and a name without ".staging" only if it was         *)
(* completed under the staging name, or replayed in order.                 *)
THEOREM WholeIsServed == Spec => []ServedIsWhole
<1>1. Init => RInv
  BY RetentionInit
<1>2. RInv /\ [Next]_vars => RInv'
  BY RetentionStep
<1>3. RInv => ServedIsWhole
  BY DEF RInv, Typed, Directories, InService, ServedIsWhole, Verifies
<1> QED BY <1>1, <1>2, <1>3, PTL DEF Spec

(***************************************************************************)
(* The root                                                                *)
(***************************************************************************)

(* The step that serves the root comes when every snapshot was tried, and  *)
(* a snapshot that was tried is served unless a write failed.              *)
LEMMA RootStep ==
    ASSUME RInv, Next, serving = None, serving' /= None, events.write = 0
    PROVE  serving'.id /= Root \/ Snapshots = {}
<1>1. CASE OpenRoot
  BY <1>1 DEF RInv, Opening, OpenRoot
<1>2. CASE Select
  <2>1. serving'.id = Candidate
    BY <1>2 DEF Select
  <2>2. Candidate \in Id
    BY <1>2, CandidateFits DEF Select
  <2> QED BY <2>1, <2>2, Distinct
<1>3. CASE Point
  <2>1. serving'.id = job.id
    BY <1>3 DEF Point
  <2>2. job.id \in Id
    BY <1>3 DEF RInv, Typed, TypeOK, Building, Point, Job
  <2> QED BY <2>1, <2>2, Distinct
<1>4. pc \notin {"opened", "cap", "up", "compact", "recover"}
  BY DEF RInv, InService
<1>5. ASSUME OpenStep, ~OpenRoot, ~Select, ~Point
      PROVE  FALSE
  BY <1>4, <1>5 DEF OpenStep, Retry, Judge, Judged, Reject, SelectNone, Restore,
     OpenRootFails, Compact, CompactRefused, Stop, Stage, Fill, Publish, StartStore, Cap,
     RemoveOutdated, Recover, RecoverRefused, Recovered
<1>6. ASSUME ~OpenStep
      PROVE  FALSE
  BY <1>4, <1>6 DEF Next, StartNode, StartRecovery, Begin, BuildFails, RecoverFails, Stop, Import,
     Reorganize, Maintain, CleanStaging, ShutDown, Crash
<1> QED BY <1>1, <1>2, <1>3, <1>5, <1>6

(* NodeStorage::open: the database in data_dir is served only when no full *)
(* snapshot is left in any generation, as long as no write failed.  The    *)
(* proof needs that no snapshot appears or goes while snapshots are tried, *)
(* and that a restore that is not interrupted ends in service.             *)
THEOREM RootComesLast == Spec => RootIsLastResort
<1>1. Init => RInv
  BY RetentionInit
<1>2. RInv /\ [Next]_vars => RInv'
  BY RetentionStep
<1>3. RInv /\ [Next]_vars =>
        [serving = None /\ serving' /= None /\ events.write = 0
            => serving'.id /= Root \/ Snapshots = {}]_vars
  BY RootStep
<1> QED BY <1>1, <1>2, <1>3, PTL DEF Spec, RootIsLastResort

(***************************************************************************)
(* The chain served last                                                   *)
(***************************************************************************)

(* Every layout has an active generation.                                  *)
Generational == \A l \in Layouts : l.active \in Id

(* A block that outranks another has at least its work.                    *)
LEMMA OutranksWork ==
    ASSUME NEW a \in Block, NEW b \in Block, Outranks(a, b)
    PROVE  TotalWork[a] >= TotalWork[b]
BY BlockTreeAssumption, SMTT(30) DEF Outranks

(* TotalWork is a number.                                                  *)
LEMMA WorkIsNat ==
    ASSUME NEW b \in Block
    PROVE  TotalWork[b] \in Nat
BY BlockTreeAssumption

(* The end of the process leaves the active generation.                    *)
LEMMA StopHolds ==
    ASSUME HInv, Stop, active' = active,
           held' /= None => held' = held /\ gens'[active] = gens[active]
    PROVE  HInv'
BY DEF HInv, Stop

(* restore_failed_publication_generations begins with the active one.      *)
LEMMA BeginHolds ==
    ASSUME RInv, HInv, NEW c, Begin(c)
    PROVE  HInv'
<1>1. /\ active \in Id /\ active' = active /\ held' = held /\ pc' = "retry" /\ serving' = None
  BY Distinct DEF RInv, Opening, HInv, Begin
<1>2. ASSUME held /= None
      PROVE  /\ gens'[active] = gens[active] /\ best' = active
  <2>1. Opened(active) = gens[active] /\ Verifies(gens[active])
    BY <1>2 DEF HInv, Opened
  <2> QED BY <1>1, <2>1, Distinct DEF RInv, Typed, TypeOK, Begin
<1> QED BY <1>1, <1>2, Distinct DEF HInv

(* A mark on the manifest of another generation, or Verified on this one.  *)
LEMMA RetryHolds ==
    ASSUME RInv, HInv, NEW i \in Id, Retry(i)
    PROVE  HInv'
<1> DEFINE e == [gens[i] EXCEPT !.status = "Verified"]
<1>0. /\ gens[i] \in Directory /\ e.db = gens[i].db /\ e.names = gens[i].names
      /\ e.check = gens[i].check /\ e.status = "Verified" /\ gens' = [gens EXCEPT ![i] = e]
      /\ e \in Directory
  <2>1. gens[i] \in Directory
    BY DEF RInv, Typed, TypeOK, Opening, Published, Retry
  <2> QED BY <2>1, StatusFits DEF Retry
<1> HIDE DEF e
<1>1. ASSUME NEW j \in Id, gens[j] /= None, Verifies(gens[j])
      PROVE  gens'[j] /= None /\ Verifies(gens'[j]) /\ gens'[j].db = gens[j].db
  BY <1>0, <1>1, Distinct DEF RInv, Typed, TypeOK, Verifies
<1>2. /\ active' = active /\ held' = held /\ best' = best /\ pc' = "judge" /\ pc = "retry"
      /\ serving' = None /\ active \in Id
  BY DEF RInv, Opening, HInv, Retry
<1>3. ASSUME held /= None
      PROVE  best \in Id /\ gens[best] /= None /\ Verifies(gens[best])
  BY <1>2, <1>3 DEF RInv, Opening, HInv, Published
<1> QED BY <1>1, <1>2, <1>3 DEF HInv

(* The choice gets heavier only.                                           *)
LEMMA JudgeHolds ==
    ASSUME RInv, HInv, Judge
    PROVE  HInv'
<1> DEFINE j == job.id
<1>0. /\ j \in Id /\ active' = active /\ held' = held /\ pc' = "retry" /\ pc = "judge"
      /\ serving' = None /\ active \in Id
  BY Distinct DEF RInv, Typed, TypeOK, Opening, HInv, Judge, Job
<1>1. SUFFICES ASSUME held /= None
               PROVE  HInv'
  BY <1>0 DEF HInv
<1>2. /\ best \in Id /\ Verifies(gens[best]) /\ Verifies(gens[active])
      /\ TotalWork[gens[best].db] >= TotalWork[held] /\ gens[active] /= None
      /\ held \in Block /\ best /= None
  BY <1>0, <1>1, Distinct DEF RInv, Typed, TypeOK, Opening, HInv, Published
<1>3. CASE Verifies(gens[j])
  <2>1. gens' = gens /\ (best' = best \/ (best' = j /\ Outranks(gens[j].db, gens[best].db)))
    BY <1>2, <1>3 DEF Judge
  <2>2. gens[j].db \in Block /\ gens[best].db \in Block
    BY <1>2, <1>3 DEF Verifies
  <2>3. TotalWork[gens[best'].db] >= TotalWork[held]
    BY <1>2, <2>1, <2>2, OutranksWork, WorkIsNat, SMTT(30)
  <2>4. best' /= None
    BY <1>0, <1>2, <2>1, Distinct
  <2> QED BY <1>0, <2>1, <2>3, <2>4 DEF HInv
<1>4. CASE ~Verifies(gens[j])
  <2>1. best' = best /\ j /= best /\ j /= active
    BY <1>2, <1>4 DEF Judge
  <2>2. gens'[best] = gens[best] /\ gens'[active] = gens[active]
    <3> DEFINE e == [gens[j] EXCEPT !.status = "Failed"]
    <3>1. gens' = [gens EXCEPT ![j] = e]
      BY <1>4 DEF Judge
    <3> HIDE DEF e
    <3> QED BY <1>0, <1>2, <2>1, <3>1 DEF RInv, Typed, TypeOK
  <2> QED BY <1>0, <1>2, <2>1, <2>2 DEF HInv
<1> QED BY <1>3, <1>4

(* The pointer goes to a generation at least as heavy.                     *)
LEMMA JudgedHolds ==
    ASSUME RInv, HInv, Judged
    PROVE  HInv'
<1>1. /\ active \in Id /\ active' = (IF best = None THEN active ELSE best) /\ gens' = gens
      /\ pc' = "select" /\ serving' = None /\ held' = held /\ left' = Published \cup ({active'} \ {None})
  BY DEF RInv, Opening, HInv, Judged
<1>2. active' \in Id
  BY <1>1 DEF RInv, Typed, TypeOK
<1>3. ASSUME held /= None
      PROVE  /\ best /= None /\ gens[best] /= None /\ Verifies(gens[best])
             /\ TotalWork[gens[best].db] >= TotalWork[held]
  BY <1>3 DEF RInv, Opening, HInv, Judged, Published
<1> QED BY <1>1, <1>2, <1>3, Distinct DEF HInv

(* While the chain served last is not lost, the active generation is the   *)
(* first to be looked at, and it validates.                                *)
LEMMA ActiveFirst ==
    ASSUME RInv, HInv, pc = "select", held /= None
    PROVE  left /= {} /\ Candidate = active /\ Verifies(Opened(Candidate))
BY DEF HInv, Candidate, Opened

\* Selecting a generation serves the chain it holds.
LEMMA SelectHolds ==
    ASSUME RInv, HInv, Select, RInv'
    PROVE  HInv'
<1>1. /\ active' = Candidate /\ serving' = [id |-> Candidate, tip |-> gens[Candidate].db, linked |-> TRUE]
      /\ held' = held /\ pc' \in {"compact", "opened"}
  BY DEF Select
<1>2. /\ Candidate \in Id /\ gens[Candidate].db \in Block
  BY CandidateFits DEF Select, Verifies
<1>3. serving'.id = Candidate /\ serving'.linked /\ serving'.tip = gens[Candidate].db
  BY <1>1
<1>4. /\ gens'[active'] /= None /\ Verifies(gens'[active'])
      /\ gens'[active'].db = gens[Candidate].db
  BY <1>1, <1>2, <1>3 DEF RInv, InService
<1>5. held /= None => TotalWork[gens[Candidate].db] >= TotalWork[held]
  BY ActiveFirst DEF HInv, Select
<1> QED BY <1>1, <1>2, <1>3, <1>4, <1>5 DEF HInv

(* The other steps of open before a store is served are taken only when    *)
(* the chain served last is lost.                                          *)
LEMMA LostHolds ==
    ASSUME RInv, HInv,
           Reject \/ SelectNone \/ OpenRoot \/ OpenRootFails \/ (\E s \in Block : Restore(s))
    PROVE  HInv'
<1>1. active' = active /\ held' = held
  BY DEF Reject, SelectNone, Restore, OpenRoot, OpenRootFails, disk
<1>2. pc = "select" /\ held /= None => left /= {} /\ Verifies(Opened(Candidate))
  BY ActiveFirst
<1>3. pc = "restore" => held = None
  BY DEF HInv
<1>4. held = None
  BY <1>2, <1>3 DEF Reject, SelectNone, Restore, OpenRoot, OpenRootFails
<1> QED BY <1>1, <1>4 DEF HInv

(* A compaction rewrites the active generation with its own tip.           *)
LEMMA CompactHolds ==
    ASSUME RInv, HInv, Compact
    PROVE  HInv'
<1>1. /\ gens' = gens /\ active' = active /\ held' = held /\ serving' = serving
      /\ pc' = "stage" /\ job'.for = "compact" /\ job'.block = gens[serving.id].names
      /\ pc = "compact" /\ gens[serving.id].names \in gens[serving.id].snaps
  BY ZenonT(30) DEF Compact, disk
<1>2. /\ serving.id = active /\ gens[active] \in Directory /\ Verifies(gens[active])
  BY <1>1 DEF RInv, Typed, TypeOK, InService
<1>3. gens[active].names \in Block
  BY <1>1, <1>2 DEF Directory
<1>4. gens[active].names = gens[active].db
  BY <1>2, <1>3, Distinct DEF Verifies
<1> QED BY <1>1, <1>2, <1>4 DEF HInv

(* The steps of a compaction leave the active generation until the pointer *)
(* goes to its copy.                                                       *)
LEMMA BuildHolds ==
    ASSUME RInv, HInv, Stage \/ Fill \/ BuildFails \/ Publish \/ Point
    PROVE  HInv'
<1>0. active \in Id
  BY DEF HInv
<1>1. CASE Stage \/ Fill
  BY <1>1 DEF HInv, Stage, Fill
<1>2. CASE BuildFails
  <2>1. gens' = gens /\ active' = active /\ held' = held
    BY <1>2 DEF BuildFails
  <2>2. CASE held = None
    BY <1>0, <2>1, <2>2 DEF HInv
  <2>3. CASE held /= None
    <3>1. Stop
      BY <1>2, <2>3 DEF HInv, BuildFails
    <3> QED BY <2>1, <3>1, StopHolds
  <2> QED BY <2>2, <2>3
<1>3. CASE Publish
  <2>1. job.id /= active /\ job.id \in Id
    BY <1>3, Distinct DEF RInv, Typed, TypeOK, Building, Publish, Job
  <2>2. gens'[active] = gens[active]
    BY <1>0, <1>3, <2>1 DEF RInv, Typed, TypeOK, Publish
  <2> QED BY <1>3, <2>2 DEF HInv, Publish
<1>4. CASE Point
  <2>1. /\ job.id \in Id /\ job.block \in Block /\ gens[job.id] = Complete(job.block)
    BY <1>4, Distinct DEF RInv, Typed, TypeOK, Building, Point, Job
  <2>2. /\ Verifies(gens[job.id]) /\ gens[job.id] /= None /\ gens[job.id].db = job.block
    BY <2>1, CompleteFits, Distinct, SMTT(30)
  <2>3. /\ active' = job.id /\ gens' = gens /\ held' = held /\ pc' = "opened"
        /\ serving'.id = job.id /\ serving'.linked
    BY <1>4 DEF Point
  <2>4. held /= None => TotalWork[job.block] >= TotalWork[held]
    BY <1>4 DEF HInv, Point
  <2> QED BY <2>1, <2>2, <2>3, <2>4 DEF HInv
<1> QED BY <1>1, <1>2, <1>3, <1>4

(* The steps before the node serves, and those of the offline command,     *)
(* leave the active generation or give up the store in use.                *)
LEMMA OpenedHolds ==
    ASSUME RInv, HInv, RInv',
           \/ StartStore \/ CompactRefused \/ RecoverRefused \/ Recover \/ Recovered \/ RecoverFails
           \/ \E i \in Id : RemoveOutdated(i)
    PROVE  HInv'
<1>0. active \in Id
  BY DEF HInv
<1>1. CASE StartStore
  <2>1. serving'.id = serving.id /\ serving'.linked = serving.linked /\ serving /= None
    <3>1. serving \in Store /\ serving /= None
      BY <1>1 DEF RInv, Typed, TypeOK, InService, StartStore
    <3> QED BY <1>1, <3>1 DEF StartStore, Store
  <2> QED BY <1>1, <2>1 DEF HInv, StartStore
<1>2. CASE CompactRefused \/ RecoverRefused
  <2>1. Stop /\ active' = active /\ held' = held /\ gens' = gens
    BY <1>2 DEF CompactRefused, RecoverRefused, disk
  <2> QED BY <2>1, StopHolds
<1>3. CASE Recover
  <2>1. /\ active' = active /\ held' = held /\ serving' = serving /\ pc' = "recover"
    BY <1>3 DEF Recover
  <2>2. job'.id /= active /\ job'.id \in Id
    BY <2>1, Distinct DEF RInv, Typed, TypeOK, InService, Job
  <2>3. PICK c \in Block :
            gens' = [gens EXCEPT ![job'.id] = [Created EXCEPT !.db = c, !.whole = TRUE]]
    BY <1>3 DEF Recover
  <2>4. gens'[active] = gens[active]
    <3> DEFINE e == [Created EXCEPT !.db = c, !.whole = TRUE]
    <3>1. gens' = [gens EXCEPT ![job'.id] = e]
      BY <2>3
    <3> HIDE DEF e
    <3> QED BY <1>0, <2>2, <3>1 DEF RInv, Typed, TypeOK
  <2> QED BY <2>1, <2>4 DEF HInv
<1>4. CASE Recovered \/ RecoverFails
  <2>1. job.id /= active
    BY <1>4 DEF RInv, InService, Recovered, RecoverFails
  <2>2. Stop /\ active' = active /\ held' = held
    BY <1>4 DEF Recovered, RecoverFails
  <2>3. PICK e : gens' = [gens EXCEPT ![job.id] = e]
    BY <1>4 DEF Recovered, RecoverFails
  <2>4. gens'[active] = gens[active]
    BY <1>0, <2>1, <2>3 DEF RInv, Typed, TypeOK
  <2> QED BY <2>2, <2>4, StopHolds
<1>5. ASSUME NEW i \in Id, RemoveOutdated(i)
      PROVE  HInv'
  <2>1. /\ serving \in Store /\ serving /= None /\ active' = active /\ pc' = "cap"
        /\ held' = (IF i = serving.id THEN None ELSE held)
        /\ gens' = [gens EXCEPT ![i] = None]
        /\ serving' = [serving EXCEPT !.linked = serving.linked /\ i /= serving.id]
    BY <1>5 DEF RInv, Typed, TypeOK, InService, RemoveOutdated
  <2>2. SUFFICES ASSUME held' /= None
                 PROVE  HInv'
    BY <1>0, <2>1 DEF HInv
  <2>3. serving.id \in Id /\ serving.linked /\ i /= serving.id /\ active = serving.id
    BY <2>1, <2>2 DEF HInv, RInv, InService
  <2>4. serving'.id = serving.id /\ serving'.linked
    BY <2>1, <2>3 DEF Store
  <2>5. gens'[active] = gens[active]
    BY <1>0, <2>1, <2>3 DEF RInv, Typed, TypeOK
  <2> QED BY <2>1, <2>2, <2>3, <2>4, <2>5 DEF HInv
<1> QED BY <1>1, <1>2, <1>3, <1>4, <1>5

(* The tip in service is that of the active generation.                    *)
LEMMA ServedTipHolds ==
    ASSUME RInv', active' \in Id, pc' = "up",
           held' /= None => /\ held' = serving'.tip /\ serving'.linked
                            /\ serving'.id = Root => active' = None
    PROVE  HInv'
<1>1. SUFFICES ASSUME held' /= None
               PROVE  HInv'
  BY DEF HInv
<1>2. /\ serving' /= None /\ serving' \in Store /\ serving'.tip \in Block
      /\ serving'.id \in Id /\ serving'.linked
  BY <1>1, Distinct DEF RInv, Typed, TypeOK, InService, Store
<1>3. /\ gens'[active'] /= None /\ Verifies(gens'[active'])
      /\ gens'[active'].db = serving'.tip /\ active' = serving'.id
  BY <1>2 DEF RInv, InService
<1>4. TotalWork[serving'.tip] >= TotalWork[held']
  BY <1>1, <1>2, WorkIsNat, SMTT(30)
<1> QED BY <1>1, <1>2, <1>3, <1>4 DEF HInv

(* A node that serves, a block that is connected and a reorganization.     *)
LEMMA ServeHolds ==
    ASSUME RInv, HInv, RInv', Cap \/ \E b \in Block : Import(b) \/ Reorganize(b)
    PROVE  HInv'
<1>0. active \in Id /\ active' = active
  BY ZenonT(30) DEF HInv, Cap, Import, Reorganize
<1>1. CASE Cap /\ over'
  <2>1. Stop /\ held' = held /\ gens' = Capped(gens)
    BY <1>1 DEF Cap
  <2>2. held /= None => /\ gens'[active] /= None /\ Verifies(gens'[active])
                        /\ gens'[active].db = gens[active].db
    <3>1. Like(gens, gens')
      BY <2>1, CappedFits DEF RInv, Typed, TypeOK, Gens
    <3> QED BY <1>0, <3>1, AlikeVerifies, Distinct DEF HInv, Like, Alike
  <2> QED BY <1>0, <2>1, <2>2 DEF HInv, Stop
<1>2. CASE Cap /\ ~over'
  <2>1. /\ pc' = "up" /\ serving' = serving
        /\ held' = (IF serving.linked /\ (serving.id = Root => active = None)
                    THEN serving.tip ELSE None)
    BY <1>2 DEF Cap, InUse
  <2> QED BY <1>0, <2>1, ServedTipHolds
<1>3. ASSUME NEW b \in Block, Import(b) \/ Reorganize(b)
      PROVE  HInv'
  <2>1. pc' = "up" /\ pc = "up" /\ SetTip(b)
    BY <1>3 DEF Import, Reorganize
  <2>2. serving \in Store
    BY <2>1 DEF RInv, Typed, TypeOK, InService
  <2>3. /\ serving'.id = serving.id /\ serving'.tip = b /\ serving'.linked = serving.linked
        /\ held' = (IF serving.linked /\ (serving.id = Root => active = None) THEN b ELSE None)
    BY <2>1, <2>2 DEF SetTip, InUse, Store
  <2> QED BY <1>0, <2>1, <2>3, ServedTipHolds
<1> QED BY <1>1, <1>2, <1>3

(* Maintenance writes checkpoints, and a crash that damages the active     *)
(* generation loses the chain.                                             *)
LEMMA OthersHold ==
    ASSUME RInv, HInv,
           Maintain \/ CleanStaging \/ ShutDown \/ \E i \in Id \cup {Root, None} : Crash(i)
    PROVE  HInv'
<1>0. active \in Id
  BY DEF HInv
<1>1. CASE Maintain
  <2>1. /\ active' = active /\ held' = held /\ serving' = serving /\ pc' = "up"
        /\ gens' = Checkpointed(gens, serving.tip) /\ serving.tip \in Block
    BY <1>1 DEF RInv, InService, Maintain
  <2>2. gens[active] /= None => Alike(gens[active], gens'[active])
    BY <1>0, <2>1, CheckpointedFits
  <2>3. held /= None => /\ gens'[active] /= None /\ Verifies(gens'[active])
                        /\ gens'[active].db = gens[active].db
    BY <2>2, AlikeVerifies, Distinct DEF HInv, Alike
  <2> QED BY <2>1, <2>3 DEF HInv
<1>2. CASE CleanStaging
  BY <1>2 DEF HInv, CleanStaging
<1>3. CASE ShutDown
  BY <1>3, StopHolds DEF ShutDown, disk
<1>4. ASSUME NEW i \in Id \cup {Root, None}, Crash(i)
      PROVE  HInv'
  <2> DEFINE e == [gens[i] EXCEPT !.db = Damaged]
  <2>1. /\ Stop /\ active' = active
        /\ gens' = IF i \in Id THEN [gens EXCEPT ![i] = e] ELSE gens
        /\ held' = IF i = active THEN None ELSE held
    BY <1>0, <1>4, Distinct DEF Crash
  <2> HIDE DEF e
  <2>2. held' /= None => held' = held /\ gens'[active] = gens[active]
    BY <1>0, <2>1, Distinct DEF RInv, Typed, TypeOK
  <2> QED BY <2>1, <2>2, StopHolds
<1> QED BY <1>1, <1>2, <1>3, <1>4

(* Every step keeps the chain served last, or records that it is lost.     *)
LEMMA HeldStep ==
    ASSUME RInv, HInv, RInv', [Next]_vars
    PROVE  HInv'
<1>1. CASE UNCHANGED vars
  BY <1>1 DEF HInv, vars
<1>2. CASE StartNode \/ \E h \in Heights : StartRecovery(h)
  BY <1>2, BeginHolds DEF StartNode, StartRecovery
<1>3. CASE OpenStep
  BY <1>3, RetryHolds, JudgeHolds, JudgedHolds, SelectHolds, LostHolds, CompactHolds, BuildHolds,
     OpenedHolds, ServeHolds DEF OpenStep
<1> QED BY <1>1, <1>2, <1>3, BuildHolds, OpenedHolds, ServeHolds, OthersHold DEF Next

(* A node comes into service with the active generation.                   *)
LEMMA ServiceStep ==
    ASSUME RInv, HInv, Next, pc' = "up", pc /= "up", held /= None
    PROVE  TotalWork[serving'.tip] >= TotalWork[held]
<1>1. CASE Cap
  <2>1. serving' = serving
    BY <1>1 DEF Cap, Stop
  <2>2. serving /= None /\ serving.id \in Id /\ serving.linked
    BY <1>1 DEF RInv, InService, HInv, Cap
  <2>3. gens[active].db = serving.tip
    BY <2>2 DEF RInv, InService
  <2> QED BY <2>1, <2>3 DEF HInv
<1>2. ASSUME OpenStep, ~Cap
      PROVE  FALSE
  BY <1>2 DEF OpenStep, Retry, Judge, Judged, Select, Reject, SelectNone, Restore, OpenRoot,
     OpenRootFails, Compact, CompactRefused, Stop, Stage, Fill, Publish, Point, StartStore,
     RemoveOutdated, Recover, RecoverRefused, Recovered
<1>3. ASSUME ~OpenStep
      PROVE  FALSE
  BY <1>3 DEF Next, StartNode, StartRecovery, Begin, BuildFails, RecoverFails, Stop, Import,
     Reorganize, Maintain, CleanStaging, ShutDown, Crash
<1> QED BY <1>1, <1>2, <1>3

(* NodeStorage::open: a node that had a generation when it was first       *)
(* started comes into service with at least the work it served last,       *)
(* whatever point of an open, a compaction, a recovery or a removal its    *)
(* process ended at before, unless the database it served was damaged or   *)
(* removed.  Without a generation the statement fails: the offline         *)
(* snapshot-recovery of a node on the root leaves a generation without a   *)
(* manifest, which a pruned node prefers to a longer root.                 *)
THEOREM ServiceNeverFallsBehind == Generational => (Spec => NoRollback)
<1> SUFFICES ASSUME Generational
             PROVE  Spec => NoRollback
  OBVIOUS
<1>1. Init => RInv
  BY RetentionInit
<1>2. Init => HInv
  <2> SUFFICES ASSUME Init
               PROVE  HInv
    OBVIOUS
  <2>1. PICK l \in Layouts :
            /\ gens = l.gens /\ active = l.active
            /\ held = IF l.active = None THEN l.root.tip ELSE l.gens[l.active].db
    BY DEF Init
  <2>2. active \in Id /\ held = gens[active].db
    BY <2>1, Distinct DEF Generational
  <2>3. gens[active] /= None /\ Verifies(gens[active])
    BY <2>1, <2>2, LayoutAssumption, Distinct
  <2>4. TotalWork[held] \in Nat
    BY <2>2, <2>3, WorkIsNat DEF Verifies
  <2> QED BY <2>2, <2>3, <2>4, SMTT(30) DEF Init, HInv
<1>3. RInv /\ [Next]_vars => RInv'
  BY RetentionStep
<1>4. RInv /\ HInv /\ RInv' /\ [Next]_vars => HInv'
  BY HeldStep
<1>5. RInv /\ HInv /\ [Next]_vars =>
        [pc' = "up" /\ pc /= "up" /\ held /= None
            => TotalWork[serving'.tip] >= TotalWork[held]]_vars
  BY ServiceStep
<1> QED BY <1>1, <1>2, <1>3, <1>4, <1>5, PTL DEF Spec, NoRollback

=============================================================================
