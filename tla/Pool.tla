-------------------------------- MODULE Pool --------------------------------
(***************************************************************************)
(* The pending transactions of one node and the threads that share them    *)
(* with the chain: RPC threads that admit transactions, build block        *)
(* templates, list what is pending and submit mined blocks, a peer session *)
(* that delivers transactions, the block importer, and the thread that     *)
(* reconciles the pool with the chain and saves it.  Two mutexes guard the *)
(* storage and the pool.  A step that takes and releases one mutex is      *)
(* atomic; a thread that asks for the second mutex while it holds the      *)
(* first does so in two steps, with lockS or lockM naming it in between.   *)
(*                                                                         *)
(* Every transaction uses one unit of gas and pays an account outside the  *)
(* model.  A hash is what it is the hash of: a chain is the sequence of    *)
(* its blocks, and a block the sequence of its transactions, with the      *)
(* state that results.                                                     *)
(***************************************************************************)
EXTENDS Integers, Sequences, FiniteSets, SequencesExt

CONSTANTS
    Sender,         \* the accounts that sign
    Txs,            \* transactions [from, nonce, cap, tip, value]: max fee and
                    \* priority fee per gas, and the value transferred
    Funds,          \* Funds[s]: the balance of s in the genesis state
    BaseFee,        \* the base fee of the genesis header
    GasLimit,       \* gas of a block
    ChangeDenominator, \* EIP1559_BASE_FEE_MAX_CHANGE_DENOMINATOR
    MinGasPrice,    \* MIN_GAS_PRICE_BIX
    MaxPool,        \* MAX_MEMPOOL_TRANSACTIONS
    Rpc,            \* the RPC threads
    MaxHeight,      \* bound: blocks after genesis
    Found,          \* the transactions of blocks found elsewhere
    Saved,          \* what mempool.json may hold at the first start
    Sent,           \* the transactions RPC clients send
    Delivery,       \* what the peer may send: sequences of transactions
    MaxCall         \* bound: RPC calls, deliveries and restarts in a behaviour

ASSUME PoolAssumption ==
    /\ Txs \subseteq [from : Sender, nonce : Nat, cap : Nat, tip : Nat, value : Nat]
    /\ Sent \subseteq Txs /\ Found \subseteq Seq(Txs) /\ Delivery \subseteq Seq(Txs) \ {<<>>}
    /\ Saved \subseteq Seq(Txs)
    /\ Funds \in [Sender -> Nat]
    /\ {BaseFee, MinGasPrice, MaxHeight, MaxCall} \subseteq Nat
    /\ {GasLimit, ChangeDenominator, MaxPool} \subseteq Nat \ {0}

VARIABLES
    chain,      \* the canonical blocks [txs, after], after: the state after one
    pool,       \* Mempool.transactions
    seen,       \* Mempool.first_seen: "new", or "old" once the expiry is over
    file,       \* mempool.json (its ages are read and dropped, see Restart)
    cache,      \* LOCAL_TEMPLATE_CACHE: a set of at most one template
    served,     \* the template the miner works on, likewise
    lockS,      \* the thread that keeps the storage mutex, if any
    lockM,      \* the thread that keeps the mempool mutex, if any
    pc,         \* pc[t]: the step of thread t and what it has read
    reserve,    \* whether the file system has filesystem_reserve_bytes free
    calls       \* RPC calls, deliveries and restarts so far

vars == <<chain, pool, seen, file, cache, served, lockS, lockM, pc, reserve, calls>>

Thread == Rpc \cup {"peer", "importer", "keeper"}
Idle == [at |-> "idle"]
Nobody == "nobody"

-----------------------------------------------------------------------------
(* The chain: what a block does to accounts, and its base fee.             *)

Lesser(m, n) == IF m < n THEN m ELSE n
Greater(m, n) == IF m < n THEN n ELSE m
Sub(m, n) == Greater(m - n, 0)

NextBaseFee(base, used) ==
    LET target == Greater(GasLimit \div 2, 1) IN
    IF used = target THEN base
    ELSE IF used > target
    THEN base + Greater(((base * (used - target)) \div target) \div ChangeDenominator, 1)
    ELSE Sub(base, ((base * (target - used)) \div target) \div ChangeDenominator)

Cost(t, base) == t.value + Lesser(t.cap, base + t.tip)
FeeValid(t, base) == t.cap >= base /\ t.tip <= t.cap

ApplyTransaction(state, t) ==
    IF /\ state.valid /\ FeeValid(t, state.base)
       /\ state.nonce[t.from] = t.nonce
       /\ state.balance[t.from] >= Cost(t, state.base)
    THEN [state EXCEPT !.nonce[t.from] = @ + 1,
                       !.balance[t.from] = @ - Cost(t, state.base)]
    ELSE [state EXCEPT !.valid = FALSE]

(* The state after a block, header included: its base fee and gas used.    *)
ApplyBlock(state, block) ==
    [FoldLeft(ApplyTransaction,
              [state EXCEPT !.base = NextBaseFee(state.base, state.used)], block)
        EXCEPT !.used = Len(block)]

(* A chain starts with the genesis state; Mined is the chain with a block  *)
(* more, and Extensions(c) what miners elsewhere may make of c.            *)
Genesis == <<[txs |-> <<>>, after |-> [valid |-> TRUE, base |-> BaseFee, used |-> 0,
                  nonce |-> [s \in Sender |-> 0], balance |-> Funds]]>>
StateOf(c) == Last(c).after
Mined(c, b) == Append(c, [txs |-> b, after |-> ApplyBlock(StateOf(c), b)])
Extensions(c) ==
    {d \in {Mined(c, b) : b \in Found} : StateOf(d).valid}

-----------------------------------------------------------------------------
(* Mempool.  The pair (transactions, first_seen) is written p = [q, at].   *)

Pending(p) == ToSet(p.q)

(* The order of a stable sort by decreasing (priority fee, max fee).       *)
Outbids(t, u) == t.tip > u.tip \/ (t.tip = u.tip /\ t.cap > u.cap)

(* slice::sort_by on at most 20 elements: an insertion sort, which moves   *)
(* an element left past neighbours that it precedes.                       *)
InsertBy(Precedes(_, _), q, x) ==
    LET keep == {i \in 0 .. Len(q) : \A j \in i + 1 .. Len(q) : Precedes(x, q[j])}
        i == CHOOSE k \in keep : \A l \in keep : k <= l
    IN InsertAt(q, i + 1, x)
SortBy(Precedes(_, _), q) ==
    FoldLeft(LAMBDA r, x : InsertBy(Precedes, r, x), <<>>, q)
SortByFee(q) == SortBy(Outbids, q)

Drop(f, gone) == [t \in DOMAIN f \ gone |-> f[t]]
SeenNow(f, t) == [u \in DOMAIN f \cup {t} |-> IF u = t THEN "new" ELSE f[u]]
Without(p, gone) ==
    [q |-> SelectSeq(p.q, LAMBDA t : t \notin gone), at |-> Drop(p.at, gone)]

Slot(t, u) == t.from = u.from /\ t.nonce = u.nonce

(* Mempool::add, and whether it returns Ok.                                *)
Added(p, t) ==
    [q |-> SortByFee(Append(p.q, t)), at |-> SeenNow(p.at, t)]
ReplacedInPlace(p, t) ==
    [q |-> [i \in DOMAIN p.q |-> IF Slot(p.q[i], t) THEN t ELSE p.q[i]],
     at |-> SeenNow(p.at, t)]
Replaced(p, t) ==
    [q |-> SortByFee([i \in DOMAIN p.q |-> IF Slot(p.q[i], t) THEN t ELSE p.q[i]]),
     at |-> SeenNow(p.at, t)]
AddRefused(p, t, base) ==
    \/ t.cap < MinGasPrice \/ ~FeeValid(t, base)
    \/ /\ t \notin Pending(p)
       /\ \E u \in Pending(p) : Slot(t, u) /\ t.cap <= u.cap
    \/ /\ \A u \in Pending(p) : ~Slot(t, u)
       /\ Len(p.q) >= MaxPool /\ ~Outbids(t, Last(p.q))
Add(p, t, base) ==
    IF AddRefused(p, t, base) \/ t \in Pending(p) THEN p
    ELSE IF \E u \in Pending(p) : Slot(t, u) THEN Replaced(p, t)
    ELSE IF Len(p.q) >= MaxPool THEN Added(Without(p, {Last(p.q)}), t)
    ELSE Added(p, t)

(* remove_stale_nonces, remove_included and remove_expired.                *)
RemoveStaleButLast(p, nonces) ==
    Without(p, {t \in Pending(p) : t.nonce + 1 < nonces[t.from]})
RemoveStale(p, nonces) == Without(p, {t \in Pending(p) : t.nonce < nonces[t.from]})
RemoveIncluded(p, block) == Without(p, ToSet(block))
RemoveExpired(p) == Without(p, {t \in Pending(p) : t \in DOMAIN p.at /\ p.at[t] = "old"})

HasNonceChain(p, s, first, last) ==
    \A n \in first .. last - 1 : \E t \in Pending(p) : t.from = s /\ t.nonce = n

(* drain_for_block: by nonce within a sender, by fee across senders.       *)
DrainsBefore(t, u) == IF t.from = u.from THEN t.nonce < u.nonce ELSE Outbids(t, u)
DrainForBlock(p) ==
    LET q == SortBy(DrainsBefore, p.q) IN SubSeq(q, 1, Lesser(Len(q), GasLimit))

(* validate_transaction_against_current_state, with or without a pool.     *)
ValidForState(t, base, state, p) ==
    /\ \/ t.nonce = state.nonce[t.from]
       \/ /\ t.nonce > state.nonce[t.from]
          /\ HasNonceChain(p, t.from, state.nonce[t.from], t.nonce)
    /\ state.balance[t.from] >= Cost(t, base)

-----------------------------------------------------------------------------
Empty == [q |-> <<>>, at |-> <<>>]
Here == [q |-> pool, at |-> seen]
Tip == StateOf(chain)
SetPool(p) == pool' = p.q /\ seen' = p.at
Goto(t, next) == pc' = [pc EXCEPT ![t] = next]

locks == <<lockS, lockM>>
work == <<cache, served, reserve>>

Call(t) == pc[t] = Idle /\ calls < MaxCall /\ calls' = calls + 1

(* rpc_send_transaction and rpc_send_raw_transaction: the base fee is read *)
(* first, then the pool is locked, and the storage while it is.            *)
SendReadsFee(r, t) ==
    /\ Call(r) /\ lockS = Nobody
    /\ FeeValid(t, Tip.base)
    /\ Goto(r, [at |-> "pend", tx |-> t, base |-> Tip.base])
    /\ UNCHANGED <<chain, pool, seen, file, work, locks>>

SendLocksPool(r) ==
    /\ pc[r].at = "pend" /\ lockM = Nobody
    /\ lockM' = r
    /\ Goto(r, [pc[r] EXCEPT !.at = "verify"])
    /\ UNCHANGED <<chain, pool, seen, file, work, lockS, calls>>

SendVerifies(r) ==
    /\ pc[r].at = "verify" /\ lockS = Nobody
    /\ lockM' = Nobody
    /\ Goto(r, IF ValidForState(pc[r].tx, pc[r].base, Tip, Here)
               THEN [pc[r] EXCEPT !.at = "send"] ELSE Idle)
    /\ UNCHANGED <<chain, pool, seen, file, work, lockS, calls>>

SendAdds(r) ==
    /\ pc[r].at = "send" /\ lockM = Nobody
    /\ SetPool(Add(Here, pc[r].tx, pc[r].base))
    /\ Goto(r, Idle)
    /\ UNCHANGED <<chain, file, work, locks, calls>>

(* rpc_block_template.  The storage mutex is held from the look at the     *)
(* parent until the pool is drained and the accounts are copied; the block *)
(* is built from the copy.  A cached template for the parent is served     *)
(* unless it is older than five seconds, as it may be.  (A template with   *)
(* contract calls is built before the mutex is released, from the same     *)
(* accounts.)                                                              *)
TemplateHit(r) ==
    /\ Call(r) /\ lockS = Nobody
    /\ \E t \in cache : t.parent = chain
    /\ served' = cache
    /\ UNCHANGED <<chain, pool, seen, file, cache, reserve, locks, pc>>

TemplateLocks(r) ==
    /\ Call(r) /\ lockS = Nobody
    /\ lockS' = r
    /\ Goto(r, [at |-> "drain", parent |-> chain])
    /\ UNCHANGED <<chain, pool, seen, file, work, lockM>>

TemplateTakes(r, p) ==
    /\ SetPool(p)
    /\ Goto(r, [at |-> "build", parent |-> pc[r].parent, accounts |-> chain,
                txs |-> DrainForBlock(p)])
TemplateDrains(r) ==
    /\ pc[r].at = "drain" /\ lockM = Nobody
    /\ TemplateTakes(r, RemoveStale(RemoveExpired(Here), Tip.nonce))
    /\ lockS' = Nobody
    /\ UNCHANGED <<chain, file, work, lockM, calls>>

TemplateBuildsOnTip(r) ==
    /\ pc[r].at = "build"
    /\ LET template == {[parent |-> pc[r].parent, txs |-> pc[r].txs]} IN
       IF ApplyBlock(Tip, pc[r].txs).valid
       THEN served' = template /\ cache' = template
       ELSE UNCHANGED <<cache, served>>
    /\ Goto(r, Idle)
    /\ UNCHANGED <<chain, pool, seen, file, reserve, locks, calls>>
TemplateBuilds(r) ==
    /\ pc[r].at = "build"
    /\ LET template == {[parent |-> pc[r].parent, txs |-> pc[r].txs]} IN
       IF ApplyBlock(StateOf(pc[r].accounts), pc[r].txs).valid
       THEN served' = template /\ cache' = template
       ELSE UNCHANGED <<cache, served>>
    /\ Goto(r, Idle)
    /\ UNCHANGED <<chain, pool, seen, file, reserve, locks, calls>>

(* rpc_submit_block of a block that extends the tip.  Any other block is   *)
(* queued for fork choice, which changes nothing here.                     *)
SubmitInserts(r) ==
    /\ Call(r) /\ lockS = Nobody /\ Len(chain) <= MaxHeight
    /\ \E t \in served :
         /\ t.parent = chain /\ ApplyBlock(Tip, t.txs).valid
         /\ chain' = Mined(chain, t.txs)
         /\ Goto(r, [at |-> "mined", block |-> t.txs])
    /\ cache' = {}
    /\ UNCHANGED <<pool, seen, file, served, reserve, locks>>

SubmitCleans(r) ==
    /\ pc[r].at = "mined" /\ lockM = Nobody
    /\ SetPool(RemoveIncluded(Here, pc[r].block))
    /\ Goto(r, Idle)
    /\ UNCHANGED <<chain, file, work, locks, calls>>

(* reconcile_mempool_with_canonical_state, by rpc_pending_transactions and *)
(* by the keeper: senders, then their nonces, then the removal.  The       *)
(* keeper starts a round only when the file system has its reserve.        *)
ReconcileSenders(t) ==
    /\ t \in Rpc \cup {"keeper"}
    /\ lockM = Nobody
    /\ IF t \in Rpc THEN Call(t) ELSE pc[t] = Idle /\ reserve /\ UNCHANGED calls
    /\ Goto(t, [at |-> "nonces", who |-> {u.from : u \in ToSet(pool)}])
    /\ UNCHANGED <<chain, pool, seen, file, work, locks>>

ReconcileNonces(t) ==
    /\ pc[t].at = "nonces" /\ lockS = Nobody
    /\ Goto(t, [at |-> "prune", nonces |->
                 [s \in Sender |-> IF s \in pc[t].who THEN Tip.nonce[s] ELSE 0]])
    /\ UNCHANGED <<chain, pool, seen, file, work, locks, calls>>

ReconcilePrunes(t) ==
    /\ pc[t].at = "prune" /\ lockM = Nobody
    /\ SetPool(RemoveStale(Here, pc[t].nonces))
    /\ Goto(t, [at |-> IF t \in Rpc THEN "list" ELSE "save"])
    /\ UNCHANGED <<chain, file, work, locks, calls>>

PendingLists(r) ==
    /\ pc[r].at = "list" /\ lockM = Nobody
    /\ SetPool(RemoveExpired(Here))
    /\ Goto(r, Idle)
    /\ UNCHANGED <<chain, file, work, locks, calls>>

(* Mempool::save; the rename makes the new file appear at once.  A save    *)
(* that fails is logged.                                                   *)
KeeperSaves ==
    /\ pc["keeper"].at = "save" /\ lockM = Nobody
    /\ file' \in {pool, file}
    /\ Goto("keeper", Idle)
    /\ UNCHANGED <<chain, pool, seen, work, locks, calls>>

(* P2pMessage::Transactions, and NewTransaction with its one item: each is *)
(* checked against the chain alone, and the first failure drops the rest.  *)
PeerSends(items) ==
    /\ Call("peer") /\ lockS = Nobody
    /\ Goto("peer", [at |-> "check", items |-> items, base |-> Tip.base])
    /\ UNCHANGED <<chain, pool, seen, file, work, locks>>

PeerChecks ==
    /\ pc["peer"].at = "check" /\ lockS = Nobody
    /\ Goto("peer", IF ValidForState(Head(pc["peer"].items), pc["peer"].base, Tip, Empty)
                    THEN [pc["peer"] EXCEPT !.at = "add"] ELSE Idle)
    /\ UNCHANGED <<chain, pool, seen, file, work, locks, calls>>

PeerAdds ==
    LET t == Head(pc["peer"].items) IN
    /\ pc["peer"].at = "add" /\ lockM = Nobody
    /\ SetPool(Add(Here, t, pc["peer"].base))
    /\ Goto("peer", IF Len(pc["peer"].items) = 1 THEN Idle
                    ELSE [pc["peer"] EXCEPT !.at = "check", !.items = Tail(@)])
    /\ UNCHANGED <<chain, file, work, locks, calls>>

(* import_network_block of a block that extends the tip.  The storage is   *)
(* released before the pool is cleaned.  When draining the orphans fails   *)
(* after the insertion, the call returns without cleaning anything.        *)
ImportInserts ==
    /\ pc["importer"] = Idle /\ lockS = Nobody /\ Len(chain) <= MaxHeight
    /\ \E c \in Extensions(chain) :
         /\ chain' = c
         /\ \/ Goto("importer", [at |-> "clean", block |-> Last(c).txs])
            \/ UNCHANGED pc
    /\ UNCHANGED <<pool, seen, file, work, locks, calls>>

ImportCleans ==
    /\ pc["importer"].at = "clean"
    /\ pc["importer"].block /= <<>> => lockM = Nobody
    /\ SetPool(RemoveIncluded(Here, pc["importer"].block))
    /\ cache' = {}
    /\ Goto("importer", Idle)
    /\ UNCHANGED <<chain, file, served, reserve, locks, calls>>

(* A staged branch with more work replaces the tip, for a block of a peer, *)
(* a submitted block or the recovery thread.  Only import_network_block    *)
(* then removes what the branch includes; the template cache stays.        *)
PublishBranch ==
    /\ lockS = Nobody /\ Len(chain) \in 2 .. MaxHeight
    /\ \E c \in Extensions(Front(chain)) \ {chain} : \E d \in Extensions(c) :
         /\ chain' = d
         /\ \/ /\ pc["importer"] = Idle
               /\ Goto("importer", [at |-> "published", block |-> Last(c).txs \o Last(d).txs])
            \/ UNCHANGED pc
    /\ UNCHANGED <<pool, seen, file, work, locks, calls>>

BranchCleans ==
    /\ pc["importer"].at = "published"
    /\ pc["importer"].block /= <<>> => lockM = Nobody
    /\ SetPool(RemoveIncluded(Here, pc["importer"].block))
    /\ Goto("importer", Idle)
    /\ UNCHANGED <<chain, file, work, locks, calls>>

(* The disk fills up, or space is freed, as the keeper may find it.        *)
DiskChanges ==
    /\ pc["keeper"] = Idle
    /\ reserve' = ~reserve
    /\ UNCHANGED <<chain, pool, seen, file, cache, served, locks, pc, calls>>

(* What is pending reaches the age at which it expires.                    *)
EntriesAge ==
    /\ \E t \in DOMAIN seen : seen[t] = "new"
    /\ seen' = [t \in DOMAIN seen |-> "old"]
    /\ UNCHANGED <<chain, pool, file, work, locks, pc, calls>>

(* A crash, then run_node: the saved entries are added with their ages     *)
(* to a first pool, and those that are valid to a second one, where they   *)
(* are new.                                                                *)
Loaded(entries, base) == FoldLeft(LAMBDA p, t : Add(p, t, base), Empty, entries)
Revalidated(p, state) ==
    FoldLeft(LAMBDA q, t : IF ValidForState(t, state.base, state, Empty)
                           THEN Add(q, t, state.base) ELSE q,
             Empty, p.q)
Restart ==
    /\ calls < MaxCall /\ calls' = calls + 1
    /\ SetPool(Revalidated(Loaded(file, Tip.base), Tip))
    /\ cache' = {}
    /\ lockS' = Nobody /\ lockM' = Nobody
    /\ pc' = [t \in Thread |-> Idle]
    /\ UNCHANGED <<chain, file, served, reserve>>

-----------------------------------------------------------------------------
Init ==
    /\ chain = Genesis /\ file \in Saved
    /\ LET p == Revalidated(Loaded(file, Tip.base), Tip) IN pool = p.q /\ seen = p.at
    /\ cache = {} /\ served = {}
    /\ lockS = Nobody /\ lockM = Nobody
    /\ pc = [t \in Thread |-> Idle] /\ calls = 0
    /\ reserve = TRUE

Continue(r) ==
    \/ SendLocksPool(r) \/ SendVerifies(r) \/ SendAdds(r)
    \/ TemplateDrains(r) \/ TemplateBuilds(r) \/ SubmitCleans(r)
    \/ ReconcileNonces(r) \/ ReconcilePrunes(r) \/ PendingLists(r)
KeeperStep ==
    \/ ReconcileSenders("keeper") \/ ReconcileNonces("keeper")
    \/ ReconcilePrunes("keeper") \/ KeeperSaves

Next ==
    \/ \E r \in Rpc :
         \/ \E t \in Sent : SendReadsFee(r, t)
         \/ TemplateHit(r) \/ TemplateLocks(r) \/ SubmitInserts(r)
         \/ ReconcileSenders(r) \/ Continue(r)
    \/ KeeperStep
    \/ \E items \in Delivery : PeerSends(items)
    \/ PeerChecks \/ PeerAdds
    \/ ImportInserts \/ ImportCleans \/ PublishBranch \/ BranchCleans
    \/ EntriesAge \/ DiskChanges \/ Restart

Spec == Init /\ [][Next]_vars

(* A thread that may run does: no thread but an RPC thread keeps a mutex   *)
(* between its steps, and the keeper looks every five seconds and, with    *)
(* the reserve there, goes round.                                          *)
FairSpec ==
    /\ Spec
    /\ \A r \in Rpc : WF_vars(Continue(r))
    /\ WF_vars(KeeperStep)

-----------------------------------------------------------------------------
(* The state has the shape of the code's: ages for pending entries, a      *)
(* bounded pool and queue, and mutexes kept by RPC threads in the two      *)
(* places that ask for a second one.                                       *)
TypeOK ==
    /\ Len(chain) <= MaxHeight + 1 /\ \A i \in DOMAIN chain :
         chain[i].txs \in Seq(Txs) /\ Len(chain[i].txs) <= GasLimit
    /\ pool \in Seq(Txs) /\ Len(pool) <= MaxPool
    /\ DOMAIN seen \subseteq Txs /\ \A t \in DOMAIN seen : seen[t] \in {"new", "old"}
    /\ file \in Seq(Txs)
    /\ Cardinality(cache) <= 1 /\ Cardinality(served) <= 1
    /\ DOMAIN pc = Thread /\ reserve \in BOOLEAN
    /\ \A r \in Thread : lockS = r <=> pc[r].at = "drain"
    /\ \A r \in Thread : lockM = r <=> pc[r].at = "verify"

(* Mempool: whatever the order in which threads add, replace, evict,       *)
(* expire, prune, reload and restart, the pool holds one transaction for a *)
(* sender's nonce, the cheapest one is last (where add looks for it) and   *)
(* every entry has the time it was first seen, without which it would      *)
(* never expire; and it keeps its limit (TypeOK).                          *)
PoolIsConsistent ==
    /\ TypeOK
    /\ \A i, j \in DOMAIN pool : Slot(pool[i], pool[j]) => i = j
    /\ \A i, j \in DOMAIN pool : i < j => ~Outbids(pool[j], pool[i])
    /\ ToSet(pool) \subseteq DOMAIN seen

(* rpc_block_template: the miner never gets a template that its parent's   *)
(* state refuses, although the storage mutex is released before the block  *)
(* is built and imports and branch switches run meanwhile.                 *)
TemplateExecutes ==
    \A t \in served \cup cache : ApplyBlock(StateOf(t.parent), t.txs).valid

(* reconcile_mempool_with_canonical_state and the clean-ups after a block: *)
(* pending transactions whose nonces the chain has used do not stay, also  *)
(* when they were added after the block that used them, or the import      *)
(* skipped its clean-up (unless senders keep the pool locked, or the disk  *)
(* is short of its reserve again and again, which stops the keeper).       *)
StaleLeave ==
    <>[]reserve => []<>(lockM /= Nobody \/ \A t \in ToSet(pool) : t.nonce >= Tip.nonce[t.from])

(* "Keep storage and mempool locking in separate phases. Block import      *)
(* takes storage before mempool, so the opposite order here could deadlock *)
(* RPC against a canonical import": no thread waits for the storage with   *)
(* the pool locked while another waits for the pool with the storage       *)
(* locked.                                                                 *)
NoCircularWait == lockS = Nobody \/ lockM = Nobody

(* "queued_nonce_chain_is_bounded_and_drained_in_order": the transactions  *)
(* drained for a block are in nonce order for every sender.                *)
DrainedInNonceOrder ==
    \A r \in Rpc : pc[r].at = "build" =>
        \A i, j \in DOMAIN pc[r].txs :
           (i < j /\ pc[r].txs[i].from = pc[r].txs[j].from)
              => pc[r].txs[i].nonce < pc[r].txs[j].nonce
=============================================================================
