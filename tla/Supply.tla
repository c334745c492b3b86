------------------------------- MODULE Supply -------------------------------
(***************************************************************************)
(* The supply index of a full node: three keys that say how much was       *)
(* issued and burned up to a height.  An imported block leaves them alone. *)
(* They catch up in backfill_supply_storage, at start-up, when blq_supply  *)
(* is called and when a branch is about to be published; a publication     *)
(* takes the blocks it replaces out again and adds its own.  The blocks    *)
(* are those the rules of Consensus allow.                                 *)
(*                                                                         *)
(* All of it runs under the storage mutex, so what interleaves is where    *)
(* the process ends: backfill writes its three keys one after another.     *)
(* Which of two branches wins is the subject of ForkChoice; here any       *)
(* branch may be ready for publication.                                    *)
(***************************************************************************)
EXTENDS Consensus, FiniteSetsExt

CONSTANTS
    Offers,         \* pairs of an interval and a body: what may follow a block
    Rivals,         \* the offers that competing branches are made of
    StartTarget,    \* the target of genesis
    Checkpoint,     \* SUPPLY_BACKFILL_CHECKPOINT_INTERVAL
    Depth,          \* FINALITY_CONFIRMATION_DEPTH
    NoJob,
    MaxHeight,      \* bound: height of the chain
    MaxEvent        \* bound: crashes, prunings, candidates and rebuilds

ASSUME SupplyAssumption ==
    /\ StartTarget \in Hash /\ Checkpoint \in Nat \ {0}
    /\ {Depth, MaxHeight, MaxEvent} \subseteq Nat
    /\ Rivals \subseteq Offers
    /\ \A o \in Offers : o[1] \in Nat \ {0} /\ GasUsed(o[2]) <= GasLimit

VARIABLES
    chain,    \* the canonical chain, genesis first
    bodies,   \* the heights whose bodies are stored
    index,    \* [to, total, burned]: state:supply:*
    mode,     \* "archive" or "pruned"
    pc,       \* "down", "up", or the step of the work in progress
    job,      \* what backfill was called for, and its local variables
    ready,    \* candidates that only have to be published: [at, chain], the
              \* chain that replaces the canonical one above height at
    torn,     \* history: a crash has left the three keys of different writes
    events    \* what has happened of the bounded events

vars == <<chain, bodies, index, mode, pc, job, ready, torn, events>>

Best == Len(chain) - 1
NoSupply == [to |-> 0, total |-> 0, burned |-> 0]

\* The block that follows c after o's interval.
Child(c, o) ==
    LET time == Last(c).time + o[1]
    IN  [time |-> time, target |-> ExpectedTarget(c, time), body |-> o[2]]

\* The money in all accounts after the blocks of c.
Held(c) ==
    Total([h \in 1..(Len(c) - 1) |->
              Reward(c[h].time, c[h + 1].time)
                  + MinerFees(c[h + 1].body) - Total(Fees(c[h + 1].body))])

\* simulate_state_transition_from_accounts: nobody spends what they do not have.
Valid(c, o) == Total(Fees(o[2])) <= Held(c)

Longer(c, offers) == {Append(c, Child(c, o)) : o \in {o \in offers : Valid(c, o)}}

Delta(c, h) == SupplyDelta(c[h].time, c[h + 1].time, c[h + 1].body)

\* finalized_height
Final == AtLeast(0, Best - Depth)

Happens == events < MaxEvent /\ events' = events + 1

Init ==
    /\ chain = <<[time |-> 0, target |-> StartTarget,
                  body |-> [native |-> TRUE, txs |-> <<>>]]>>
    /\ bodies = {0}
    /\ index = NoSupply
    /\ mode \in {"archive", "pruned"}
    /\ pc = "down" /\ job = NoJob
    /\ ready = {} /\ torn = FALSE /\ events = 0

-----------------------------------------------------------------------------
(* The chain.                                                              *)

\* insert_block, from gossip, from a miner or from recovery
Import ==
    /\ pc = "up" /\ Best < MaxHeight
    /\ chain' \in Longer(chain, Offers)
    /\ bodies' = bodies \cup {Len(chain)}
    /\ UNCHANGED <<index, mode, pc, job, ready, torn, events>>

(***************************************************************************)
(* prune_old_blocks of a pruned node: bodies above the finalized height    *)
(* go, the lowest first, until the database is small enough.               *)
(***************************************************************************)
Pruned(n) == bodies \ {h \in bodies : h > Final /\ h <= n}

Prune ==
    /\ pc = "up" /\ mode = "pruned"
    /\ \E n \in bodies : n > Final /\ bodies' = Pruned(n)
    /\ Happens
    /\ UNCHANGED <<chain, index, mode, pc, job, ready, torn>>

\* A branch of one or two blocks has been replayed and waits for publication.
CandidateReady ==
    /\ pc = "up" /\ ready = {}
    /\ \E h \in 0..(Best - 1) : \E c \in Longer(SubSeq(chain, 1, h + 1), Rivals) :
          \E d \in {c} \cup Longer(c, Rivals) :
             /\ Len(d) <= MaxHeight + 1 /\ d[h + 2] /= chain[h + 2]
             /\ ready' = {[at |-> h, chain |-> d]}
    /\ Happens
    /\ UNCHANGED <<chain, bodies, index, mode, pc, job, torn>>

BodiesWith(c) == (bodies \cap 0..c.at) \cup ((c.at + 1)..(Len(c.chain) - 1))

(***************************************************************************)
(* rebuild_canonical_chain: clear_canonical_state removes the state: keys, *)
(* the supply among them, and the replayed blocks do not bring them back.  *)
(***************************************************************************)
Rebuild ==
    /\ pc = "up" /\ bodies = 0..Best
    /\ \E c \in ready : chain' = c.chain /\ bodies' = BodiesWith(c)
    /\ index' = NoSupply
    /\ ready' = {} /\ torn' = FALSE
    /\ Happens
    /\ UNCHANGED <<mode, pc, job>>

-----------------------------------------------------------------------------
(* backfill_supply_storage.                                                *)

(***************************************************************************)
(* What the caller does next: run_node goes on to serve, blq_supply        *)
(* answers, a publication replaces the suffix.                             *)
(***************************************************************************)
After(caller) == IF caller = "publication" THEN "publish" ELSE "up"
OnError(caller) == IF caller = "start" THEN "down" ELSE "up"

\* An index above the tip would be of another chain, and begins again.
StartsFrom == IF index.to > Best THEN NoSupply ELSE index

Backfill(caller) ==
    LET from == StartsFrom
    IN  IF from.to >= Best
        THEN /\ pc' = After(caller) /\ job' = NoJob /\ index' = from
        ELSE /\ pc' = "scan" /\ index' = from
             /\ job' = [caller |-> caller, n |-> from.to + 1,
                        total |-> from.total, burned |-> from.burned]

Start ==
    /\ pc = "down"
    /\ Backfill("start")
    /\ UNCHANGED <<chain, bodies, mode, ready, torn, events>>

\* rpc_supply
RpcSupply ==
    /\ pc = "up"
    /\ Backfill("rpc")
    /\ UNCHANGED <<chain, bodies, mode, ready, torn, events>>

\* A bug: an index that is behind defers the publication.
BeginPublicationDefers ==
    /\ pc = "up" /\ ready /= {}
    /\ index.to >= Best
    /\ pc' = "publish"
    /\ UNCHANGED <<chain, bodies, index, mode, job, ready, torn, events>>

\* The head of suffix_supply_totals.
BeginPublication ==
    /\ pc = "up" /\ ready /= {}
    /\ IF index.to < Best THEN Backfill("publication")
       ELSE pc' = "publish" /\ UNCHANGED <<job, index>>
    /\ UNCHANGED <<chain, bodies, mode, ready, torn, events>>

Counted == [job EXCEPT !.total = @ + Delta(chain, job.n).subsidy,
                       !.burned = @ + Delta(chain, job.n).burned]

ScanMissing ==
    /\ pc = "scan" /\ job.n \notin bodies
    /\ pc' = OnError(job.caller) /\ job' = NoJob
    /\ UNCHANGED <<chain, bodies, index, mode, ready, torn, events>>

(***************************************************************************)
(* A block is added to the local totals.  At a checkpoint and at the tip   *)
(* set_supply_totals begins, with the height.                              *)
(***************************************************************************)
ScanBlock ==
    /\ pc = "scan" /\ job.n \in bodies
    /\ IF job.n % Checkpoint = 0 \/ job.n = Best
       THEN pc' = "total" /\ job' = Counted /\ index' = [index EXCEPT !.to = job.n]
       ELSE pc' = "scan" /\ job' = [Counted EXCEPT !.n = @ + 1] /\ UNCHANGED index
    /\ UNCHANGED <<chain, bodies, mode, ready, torn, events>>

WriteTotal ==
    /\ pc = "total"
    /\ index' = [index EXCEPT !.total = job.total]
    /\ pc' = "burned"
    /\ UNCHANGED <<chain, bodies, mode, job, ready, torn, events>>

\* A bug: backfill begins again after every checkpoint.
WriteBurnedRestarts ==
    /\ pc = "burned"
    /\ index' = [index EXCEPT !.burned = job.burned]
    /\ pc' = "scan" /\ job' = [job EXCEPT !.n = 1, !.total = 0, !.burned = 0]
    /\ UNCHANGED <<chain, bodies, mode, ready, torn, events>>

WriteBurned ==
    /\ pc = "burned"
    /\ index' = [index EXCEPT !.burned = job.burned]
    /\ IF job.n = Best THEN pc' = After(job.caller) /\ job' = NoJob
       ELSE pc' = "scan" /\ job' = [job EXCEPT !.n = @ + 1]
    /\ UNCHANGED <<chain, bodies, mode, ready, torn, events>>

-----------------------------------------------------------------------------
(* The rest of suffix_supply_totals, and publish_canonical_suffix.         *)

Replaced(c) == (c.at + 1)..Best
Added(c) == (c.at + 1)..(Len(c.chain) - 1)
Issued(c, heights) == MapThenSumSet(LAMBDA h : Delta(c, h).subsidy, heights)
Burned(c, heights) == MapThenSumSet(LAMBDA h : Delta(c, h).burned, heights)

\* A bug: the replaced blocks stay in the totals.
SuffixTotalsAddOnly(c) ==
    [to |-> Len(c.chain) - 1,
     total |-> index.total + Issued(c.chain, Added(c)),
     burned |-> index.burned + Burned(c.chain, Added(c))]

SuffixTotals(c) ==
    [to |-> Len(c.chain) - 1,
     total |-> AtLeast(0, index.total - Issued(chain, Replaced(c)))
                  + Issued(c.chain, Added(c)),
     burned |-> AtLeast(0, index.burned - Burned(chain, Replaced(c)))
                  + Burned(c.chain, Added(c))]

\* The body of a replaced block is gone: the publication is tried again later.
PublishFails ==
    /\ pc = "publish"
    /\ \E c \in ready : ~ (Replaced(c) \subseteq bodies)
    /\ pc' = "up"
    /\ UNCHANGED <<chain, bodies, index, mode, job, ready, torn, events>>

\* One batch holds the blocks, the accounts and the three keys.
Publish ==
    /\ pc = "publish"
    /\ \E c \in ready :
          /\ Replaced(c) \subseteq bodies
          /\ chain' = c.chain
          /\ bodies' = BodiesWith(c)
          /\ index' = SuffixTotals(c)
    /\ ready' = {} /\ pc' = "up"
    /\ UNCHANGED <<mode, job, torn, events>>

-----------------------------------------------------------------------------
(***************************************************************************)
(* The process ends.  Sled keeps the writes in order, so what is left of   *)
(* set_supply_totals is one of its beginnings.                             *)
(***************************************************************************)
Crash ==
    /\ pc /= "down"
    /\ pc' = "down" /\ job' = NoJob
    /\ torn' = (torn \/ pc \in {"total", "burned"})
    /\ Happens
    /\ UNCHANGED <<chain, bodies, index, mode, ready>>

Indexing == Start \/ ScanMissing \/ ScanBlock \/ WriteTotal \/ WriteBurned
Publishing == BeginPublication \/ PublishFails \/ Publish

Next ==
    \/ Import \/ Prune \/ CandidateReady \/ Rebuild
    \/ RpcSupply \/ Indexing \/ Publishing \/ Crash

Spec == Init /\ [][Next]_vars

(***************************************************************************)
(* Fairness: a process that runs goes on, one that ended is started again, *)
(* and a candidate is taken up again and again (every hello of a peer      *)
(* starts candidate recovery).                                             *)
(***************************************************************************)
FairSpec == Spec /\ WF_vars(Indexing) /\ WF_vars(Publishing)

-----------------------------------------------------------------------------
(* Properties.                                                             *)

(***************************************************************************)
(* Every target has its digits (the masks and carries of scale_target),    *)
(* every stored body belongs to a canonical block, and the work in         *)
(* progress knows who asked for it.                                        *)
(***************************************************************************)
TypeOK ==
    /\ \A h \in DOMAIN chain : chain[h].target \in Hash
    /\ bodies \subseteq 0..Best
    /\ index \in [to : Nat, total : Nat, burned : Nat]
    /\ mode \in {"archive", "pruned"}
    /\ pc \in {"down", "up", "scan", "total", "burned", "publish"}
    /\ IF pc \in {"scan", "total", "burned"}
       THEN job.caller \in {"start", "rpc", "publication"} /\ job.n \in 1..Best
       ELSE job = NoJob
    /\ \A c \in ready : c.at < Best /\ SubSeq(c.chain, 1, c.at + 1) = SubSeq(chain, 1, c.at + 1)
    /\ torn \in BOOLEAN /\ events \in 0..MaxEvent

(***************************************************************************)
(* The digit arithmetic of the targets against numbers: the target of each *)
(* block is that of its parent times a fraction of whole numbers, rounded  *)
(* down and capped.  Before the activation height the block's own interval *)
(* selects the fraction; from then on the median of the intervals before   *)
(* it, here the one that half of them do not exceed, and the last of them. *)
(* In whole seconds the band of next_block_difficulty_target_v2 between    *)
(* its caps holds the median 15 alone.                                     *)
(***************************************************************************)
Value(hash) == FoldLeft(LAMBDA v, digit : v * Base + digit, 0, hash)
Gap(h) == chain[h + 1].time - chain[h].time

MedianOf(heights) ==
    CHOOSE m \in {Gap(h) : h \in heights} :
        /\ 2 * Cardinality({h \in heights : Gap(h) < m}) <= Cardinality(heights)
        /\ 2 * Cardinality({h \in heights : Gap(h) <= m}) > Cardinality(heights)

Fraction(h) ==
    LET before == {g \in 1..(h - 1) : g >= h - Window}
        m == MedianOf(before)
    IN  IF h < Activation
        THEN CASE Gap(h) < 15 -> <<3, 4>>
               [] Gap(h) > 45 -> <<5, 4>>
               [] OTHER -> <<1, 1>>
        ELSE CASE m < 3 -> <<3, 4>>
               [] m >= 3 /\ Gap(h - 1) >= 60 -> <<9, 8>>
               [] m \in 3..14 /\ Gap(h - 1) < 60 -> <<15, 16>>
               [] m = 15 /\ Gap(h - 1) < 60 -> <<1, 1>>
               [] m > 15 /\ Gap(h - 1) < 60 -> <<17, 16>>

TargetsAreExact ==
    \A h \in 1..Best :
        LET f == Fraction(h)
        IN  Value(chain[h + 1].target)
              = AtMost((Value(chain[h].target) * f[1]) \div f[2], Value(Highest))

(***************************************************************************)
(* Unless a crash cut off set_supply_totals, the index holds what the      *)
(* canonical blocks up to its height issued and burned: a publication that *)
(* takes blocks out and puts others in, a backfill that an error or a      *)
(* crash ended at any block, and a rebuild leave no block counted twice,   *)
(* forgotten, or of an abandoned branch.  And the types hold.              *)
(***************************************************************************)
IndexIsExact ==
    /\ TypeOK
    /\ pc \notin {"total", "burned"} /\ ~ torn =>
          /\ index.to <= Best
          /\ index.total = Issued(chain, 1..index.to)
          /\ index.burned = Burned(chain, 1..index.to)

(***************************************************************************)
(* The circulating supply that blq_supply reports never exceeds what the   *)
(* accounts hold, and falls short of it by less than one unit for each     *)
(* transaction: the native path of the execution rounds the burn of every  *)
(* fee down, block_supply_delta that of their sum.                         *)
(***************************************************************************)
Rounding ==
    Total([h \in DOMAIN chain |->
              IF chain[h].body.native THEN Len(chain[h].body.txs) ELSE 0])

CirculatingIsHeld ==
    pc = "up" /\ index.to = Best /\ ~ torn =>
        LET circulating == AtLeast(0, index.total - index.burned)
        IN  Held(chain) - circulating \in 0..Rounding

(***************************************************************************)
(* An archive node that was stopped serves again: backfill at start-up     *)
(* ends, from whatever height and with whatever totals a crash left.       *)
(***************************************************************************)
StartsAgain == mode = "archive" => []<>(pc = "up")

(***************************************************************************)
(* On an archive node a candidate that only has to be published is         *)
(* published (or superseded by a rebuild), however far the index is        *)
(* behind when its turn comes.                                             *)
(***************************************************************************)
CandidatesArePublished == mode = "archive" => []<>(ready = {})

(***************************************************************************)
(* The comment in suffix_supply_totals for every node: "Repair the derived *)
(* index at the publication boundary instead of repeatedly replaying a     *)
(* complete candidate that is already ready to publish."                   *)
(***************************************************************************)
BoundaryRepairsIndex == []<>(ready = {})

=============================================================================
