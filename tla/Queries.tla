------------------------------ MODULE Queries ------------------------------
(***************************************************************************)
(* What the JSON-RPC server answers while the chain moves: block,          *)
(* transaction, log, fee and state queries, polled filters and websocket   *)
(* subscriptions of a full node.  A handler takes the storage mutex        *)
(* several times and releases it in between, so an import, a               *)
(* reorganization or the pruning of bodies may come between any two of its *)
(* steps.  Each step below is one critical section of a handler, or one    *)
(* exchange with a peer that is asked for a pruned body.                   *)
(*                                                                         *)
(* The state after a block is written as the block; a state that no block  *)
(* has is Mixed.  What a handler decodes, formats and executes on what it  *)
(* has read is left out.                                                   *)
(***************************************************************************)
EXTENDS BlockTree, Sequences, FiniteSets, SequencesExt

CONSTANTS
    None,           \* no block
    Mixed,          \* a state that is the state of no block
    Tx,             \* transactions
    TxsOf,          \* TxsOf[b]: the transactions of block b
    LogsOf,         \* LogsOf[b]: the logs of b, pairs <<address, topic>>
    Latest,         \* the block tag "latest"
    Wild,           \* a filter without addresses, or without topics
    First,          \* the tip when the server starts
    Rpc,            \* the threads of HTTP connections
    Asks,           \* sets of requests that clients make in one behaviour
    MaxConnections, \* config.rpc.max_connections
    MaxFilters,     \* MAX_RPC_FILTERS
    MaxPeers,       \* MAX_RPC_BODY_FETCH_PEERS
    MaxRemote,      \* MAX_RPC_REMOTE_LOG_BLOCKS
    MaxRange,       \* MAX_LOG_BLOCK_RANGE
    MaxReplay,      \* MAX_HISTORICAL_EVM_REPLAY_BLOCKS
    Interval,       \* EVM_STATE_SNAPSHOT_INTERVAL
    Floor,          \* minimum_body_height of prune_old_blocks
    MaxEvent        \* bound: imports, candidates, prunings, expiries

ASSUME QueriesAssumption ==
    /\ First \in Block /\ None \notin Block /\ Mixed \notin Block \cup {None}
    /\ TxsOf \in [Block -> SUBSET Tx]
    /\ \A b, c \in Block : b /= c /\ IsAncestor(b, c) => TxsOf[b] \cap TxsOf[c] = {}
    /\ {MaxConnections, MaxPeers, MaxRemote, Interval} \subseteq Nat \ {0}
    /\ {MaxFilters, MaxRange, MaxReplay, Floor, MaxEvent} \subseteq Nat

VARIABLES
    tip,        \* best_header: the canonical chain is that of the tip
    candidates, \* the candidate pool
    bodies,     \* block:number:N
    receipts,   \* receipt:H and transaction:H, as pairs <<transaction, block>>
    logIndex,   \* log:index:*, as pairs <<log, block number>>
    snaps,      \* state:evm:snapshot:N, as the block it was taken at
    pool,       \* the pending transactions
    filters,    \* RPC_FILTERS
    nextId,     \* NEXT_RPC_FILTER_ID
    ws,         \* the websocket connection: its subscriptions and its round
    call,       \* call[t]: the handler thread t runs, and what it has read
    asks,       \* the requests that clients have still to make
    events      \* imports, candidates, prunings and expiries so far

chainVars == <<tip, candidates, bodies, receipts, logIndex, snaps>>
vars == <<chainVars, pool, filters, nextId, ws, call, asks, events>>

Socket == "ws"
Thread == Rpc \cup {Socket}
Idle == [at |-> "idle"]

NumberOps == {"blockByNumber", "countByNumber", "txByNumber", "receiptsByNumber"}
CheckedOps == {"blockByHash", "txByBlockHash", "receiptsByHash"}
HashOps == CheckedOps \cup {"countByHash"}
StateOps == {"balance", "nonce", "code", "storageAt", "call", "estimate"}
LogOps == {"logs", "logsByHash", "filterLogs", "changes", "subscription"}

-----------------------------------------------------------------------------
(* The storage.  A log is found under its block number and its address or  *)
(* a topic, a receipt under its transaction.                               *)

Height == Number[tip]
Above(b, n) == {Ancestor[b][m] : m \in n + 1 .. Number[b]}
Canonical == Above(tip, -1)
AllTxs(blocks) == UNION {TxsOf[b] : b \in blocks}
Receipts(blocks) == UNION {TxsOf[b] \X {b} : b \in blocks}
Locations(blocks) == UNION {LogsOf[b] \X {Number[b]} : b \in blocks}

(* header_by_number, and block_by_number: the header of height n, and its  *)
(* body if that is stored.                                                 *)
HeaderAt(n) == IF n <= Height THEN Ancestor[tip][n] ELSE None
BodyAt(n) == IF HeaderAt(n) \in bodies THEN HeaderAt(n) ELSE None
HeaderByHash(b) == IF b \in Canonical \cup candidates THEN b ELSE None

LogAddressMatches(f, l) == f.addresses = Wild \/ l[1] \in f.addresses
LogTopicsMatch(f, l) == f.topics = Wild \/ l[2] \in f.topics
Matches(f, l) == LogAddressMatches(f, l) /\ LogTopicsMatch(f, l)

(* indexed_log_block_numbers: by address if the filter has addresses, else *)
(* by topic if it has topics, else every block with a log.                 *)
IndexKeyMatches(f, l) ==
    IF f.addresses /= Wild THEN l[1] \in f.addresses
    ELSE f.topics = Wild \/ l[2] \in f.topics
IndexedBlocks(f, from, to) ==
    {e[2] : e \in {e \in logIndex : e[2] \in from .. to /\ IndexKeyMatches(f, e[1])}}

(* transaction_by_hash and transaction_receipt_by_hash: the block that the *)
(* index has a transaction in.                                             *)
Indexed(x) == \E b \in Block : <<x, b>> \in receipts
BlockOf(x) == CHOOSE b \in Block : <<x, b>> \in receipts

(* evm_state_snapshot_at_or_before, and persist_historical_evm_snapshot.   *)
SnapshotsUpTo(n) == {b \in snaps : Number[b] <= n}
WithSnapshot(b) == IF Number[b] % Interval = 0 THEN snaps \cup {b} ELSE snaps

(* The receipts after a suffix was replaced: the batch removes first.      *)
ReindexedBackwards(old, new) ==
    {p \in receipts \cup Receipts(new) : p[1] \notin AllTxs(old)}
Reindexed(old, new) ==
    {p \in receipts : p[1] \notin AllTxs(old) \cup AllTxs(new)} \cup Receipts(new)

(* The chain moves: every running handler is told for the properties.      *)
Moved(b) ==
    /\ tip' = b
    /\ call' = [t \in Thread |->
           IF call[t] = Idle THEN Idle ELSE [call[t] EXCEPT !.since = @ \cup {b}]]

Event == events < MaxEvent /\ events' = events + 1

(* insert_block, set_best_number and persist_historical_evm_snapshot.      *)
Extend(b) ==
    /\ Event /\ b /= Genesis /\ Parent[b] = tip
    /\ Moved(b)
    /\ candidates' = candidates \ {b}
    /\ bodies' = bodies \cup {b}
    /\ receipts' = Reindexed({}, {b})
    /\ logIndex' = logIndex \cup Locations({b})
    /\ snaps' = WithSnapshot(b)
    /\ UNCHANGED <<pool, filters, nextId, ws, asks>>

StoreCandidate(b) ==
    /\ Event /\ b \notin Canonical \cup candidates
    /\ Parent[b] \in Canonical \cup candidates /\ Parent[b] /= tip
    /\ candidates' = candidates \cup {b}
    /\ UNCHANGED <<tip, bodies, receipts, logIndex, snaps, pool, filters, nextId, ws,
                   call, asks>>

Unsteady(f) == [i \in DOMAIN f |-> [f[i] EXCEPT !.steady = FALSE]]

(* publish_canonical_suffix: one batch replaces what is above the fork.    *)
(* It reads the bodies it removes.  Every state snapshot goes, and one of  *)
(* the new tip is written.                                                 *)
ReplaceSuffixKeepsSnapshots(b, n) ==
    /\ Above(tip, n) \subseteq bodies
    /\ Moved(b)
    /\ candidates' = candidates \ Above(b, n)
    /\ bodies' = (bodies \ Above(tip, n)) \cup Above(b, n)
    /\ receipts' = Reindexed(Above(tip, n), Above(b, n))
    /\ logIndex' = {e \in logIndex : e[2] <= n} \cup Locations(Above(b, n))
    /\ snaps' = snaps \cup {b}
ReplaceSuffix(b, n) ==
    /\ Above(tip, n) \subseteq bodies
    /\ Moved(b)
    /\ candidates' = candidates \ Above(b, n)
    /\ bodies' = (bodies \ Above(tip, n)) \cup Above(b, n)
    /\ receipts' = Reindexed(Above(tip, n), Above(b, n))
    /\ logIndex' = {e \in logIndex : e[2] <= n} \cup Locations(Above(b, n))
    /\ snaps' = {b}

Reorganize(b) ==
    /\ Event /\ Outranks(b, tip) /\ ~IsAncestor(tip, b)
    /\ \E n \in 0 .. Height - 1 :
          /\ n < Number[b] /\ Ancestor[tip][n] = Ancestor[b][n]
          /\ Ancestor[tip][n + 1] /= Ancestor[b][n + 1]
          /\ Above(b, n) \subseteq candidates
          /\ ReplaceSuffix(b, n)
    /\ filters' = Unsteady(filters)
    /\ ws' = [ws EXCEPT !.subs = Unsteady(@)]
    /\ UNCHANGED <<pool, nextId, asks>>

(* prune_old_blocks: from the lowest body above the floor, until the       *)
(* database is small enough.                                               *)
PruneOldBlocks(n) ==
    /\ Event
    /\ LET gone == {b \in bodies : Number[b] \in Floor + 1 .. n} IN
       /\ gone /= {}
       /\ bodies' = bodies \ gone
       /\ receipts' = {p \in receipts : p[1] \notin AllTxs(gone)}
       /\ logIndex' = {e \in logIndex : \A b \in gone : e[2] /= Number[b]}
    /\ UNCHANGED <<tip, candidates, snaps, pool, filters, nextId, ws, call, asks>>

(* A transaction reaches the mempool.                                      *)
Submit(x) ==
    /\ Event /\ x \notin pool
    /\ pool' = pool \cup {x}
    /\ UNCHANGED <<chainVars, filters, nextId, ws, call, asks>>

-----------------------------------------------------------------------------
(* A handler.  What it has read so far: the tip's number, the heights left *)
(* to load and the blocks loaded, the numbers the log index gave, the      *)
(* header and the state of a state query.  since, for the properties: the  *)
(* tips of the chain since the handler started.                            *)

AnyFilter == [addresses |-> Wild, topics |-> Wild]
Start(r) ==
    [at |-> "dispatch", req |-> r, from |-> 0, latest |-> 0, todo |-> <<>>, got |-> <<>>,
     expect |-> None, peers |-> 0, filter |-> AnyFilter, found |-> {}, fetched |-> 0,
     head |-> None, base |-> None, since |-> {tip}]

Done(c) == [c EXCEPT !.at = "done"]
Null(c) == [c EXCEPT !.at = "done", !.got = <<>>]
Failed(c) == [c EXCEPT !.at = "failed"]
Span(m, n) == [i \in 1 .. n - m + 1 |-> m + i - 1]

Set(t, c) == call' = [call EXCEPT ![t] = c]
At(t, step) == call[t].at = step
Asked(t, op) == At(t, "dispatch") /\ call[t].req.op = op
shared == <<chainVars, pool, filters, nextId, ws, asks, events>>

OnSocketOnly == {"websocket", "subscribe", "unsubscribe"}
Connections == Cardinality({t \in Rpc : call[t] /= Idle}) + (IF ws.open THEN 1 ELSE 0)
Made(r) == r \in asks /\ asks' = asks \ {r}

(* run_rpc_server and handle_connection: a connection slot is taken, the   *)
(* request is read and dispatched.  A client uses the filters it was given.*)
Known(r) == r.op \notin OnSocketOnly /\ ("id" \in DOMAIN r => r.id < nextId)
Accept(t, r) ==
    /\ call[t] = Idle /\ Connections < MaxConnections /\ Made(r) /\ Known(r)
    /\ Set(t, Start(r))
    /\ UNCHANGED <<chainVars, pool, filters, nextId, ws, events>>

(* While this node retrieves a stronger branch, reads are answered by an   *)
(* upstream node or not at all.  Whether it does is up to Recovery.        *)
Proxied(t) ==
    /\ At(t, "dispatch")
    /\ call[t].req.op \notin {"newFilter", "changes", "filterLogs", "uninstall"}
    /\ \E outcome \in {"proxied", "failed"} : Set(t, [call[t] EXCEPT !.at = outcome])
    /\ UNCHANGED shared

(* The response is written and the slot is released.                       *)
Return(t) ==
    /\ call[t].at \in {"done", "failed", "proxied"}
    /\ Set(t, Idle)
    /\ UNCHANGED shared

(* The next load of a handler, or what it does after the last one.         *)
ProceedUnchecked(c) ==
    IF c.todo /= <<>>
    THEN [c EXCEPT !.at = IF c.req.op \in LogOps THEN "scan" ELSE "body"]
    ELSE IF c.req.op \in StateOps THEN [c EXCEPT !.at = "replayed"]
    ELSE IF c.req.op \in {"changes", "subscription"} THEN [c EXCEPT !.at = "advance"]
    ELSE Done(c)
Proceed(c) ==
    IF c.todo /= <<>>
    THEN [c EXCEPT !.at = IF c.req.op \in LogOps THEN "scan" ELSE "body"]
    ELSE IF c.req.op \in CheckedOps /\ c.got[1] /= c.req.hash THEN Null(c)
    ELSE IF c.req.op \in StateOps THEN [c EXCEPT !.at = "replayed"]
    ELSE IF c.req.op \in {"changes", "subscription"} THEN [c EXCEPT !.at = "advance"]
    ELSE Done(c)

Taken(c, b) == Proceed([c EXCEPT !.got = Append(@, b), !.todo = Tail(@)])

(* load_rpc_block returned None: an error for logs, receipts and the block *)
(* of a replayed state, a zero timestamp for the parent of that block, and *)
(* null for the others.                                                    *)
Missing(c) ==
    IF c.req.op \in StateOps /\ Len(c.got) % 2 = 1 THEN Taken(c, None)
    ELSE IF c.req.op \in StateOps \cup LogOps \cup {"receipt"} THEN Failed(c)
    ELSE Null(c)

(* load_rpc_block: the body, else the header, else a body of that hash     *)
(* from one of the first peers.                                            *)
LoadBody(t) ==
    /\ At(t, "body")
    /\ LET b == BodyAt(Head(call[t].todo)) IN
       Set(t, IF b /= None THEN Taken(call[t], b) ELSE [call[t] EXCEPT !.at = "header"])
    /\ UNCHANGED shared

(* historical_peers: the peers that are known, if any, up to the limit.    *)
PeersToAsk == 0 .. MaxPeers
LoadHeader(t) ==
    /\ At(t, "header")
    /\ LET b == HeaderAt(Head(call[t].todo)) IN
       \E k \in PeersToAsk :
          Set(t, IF b = None \/ k = 0 THEN Missing(call[t])
                 ELSE [call[t] EXCEPT !.at = "fetch", !.expect = b, !.peers = k])
    /\ UNCHANGED shared

(* fetch_rpc_block_body: the block of the expected hash, or the next peer. *)
FetchBodyAgain(t) ==
    /\ At(t, "fetch")
    /\ \/ Set(t, Taken(call[t], call[t].expect))
       \/ Set(t, [call[t] EXCEPT !.at = "header"])
    /\ UNCHANGED shared
FetchBody(t) ==
    /\ At(t, "fetch")
    /\ \/ Set(t, Taken(call[t], call[t].expect))
       \/ Set(t, IF call[t].peers = 1 THEN Missing(call[t])
                 ELSE [call[t] EXCEPT !.peers = @ - 1])
    /\ UNCHANGED shared

-----------------------------------------------------------------------------
(* Blocks and transactions by number, hash and position.                   *)

(* parse_block_tag                                                         *)
Tagged(tag) == IF tag = Latest THEN Height ELSE tag

AskByNumber(t, op) ==
    /\ Asked(t, op)
    /\ LET n == Tagged(call[t].req.tag) IN
       Set(t, Proceed([call[t] EXCEPT !.latest = Height, !.todo = <<n>>]))
    /\ UNCHANGED shared
GetBlockByNumber(t) == AskByNumber(t, "blockByNumber")
GetBlockTransactionCountByNumber(t) == AskByNumber(t, "countByNumber")
GetTransactionByBlockNumberAndIndex(t) == AskByNumber(t, "txByNumber")
GetBlockReceipts(t) == AskByNumber(t, "receiptsByNumber")

AskByHash(t, op) ==
    /\ Asked(t, op)
    /\ LET b == HeaderByHash(call[t].req.hash) IN
       Set(t, IF b = None THEN Null(call[t])
              ELSE Proceed([call[t] EXCEPT !.todo = <<Number[b]>>]))
    /\ UNCHANGED shared
GetBlockByHash(t) == AskByHash(t, "blockByHash")
GetBlockTransactionCountByHash(t) == AskByHash(t, "countByHash")
GetTransactionByBlockHashAndIndex(t) == AskByHash(t, "txByBlockHash")
GetBlockReceiptsByHash(t) == AskByHash(t, "receiptsByHash")

(* rpc_fee_history: count blocks up to the newest, which must exist.       *)
FeeHistory(t) ==
    /\ Asked(t, "feeHistory")
    /\ LET newest == Tagged(call[t].req.tag)
           oldest == newest + 1 - call[t].req.count
       IN Set(t, IF newest > Height \/ oldest < 0 THEN Failed(call[t])
                 ELSE Proceed([call[t] EXCEPT !.todo = Span(oldest, newest)]))
    /\ UNCHANGED shared

(* rpc_get_transaction_by_hash: the receipt index, then, under the mutex   *)
(* again, the transaction alone.  A full node asks nobody else.            *)
GetTransactionByHash(t) ==
    /\ Asked(t, "tx")
    /\ Set(t, IF Indexed(call[t].req.tx)
              THEN Done([call[t] EXCEPT !.got = <<BlockOf(call[t].req.tx)>>])
              ELSE [call[t] EXCEPT !.at = "record"])
    /\ UNCHANGED shared
ReadTransaction(t) ==
    /\ At(t, "record")
    /\ Set(t, IF Indexed(call[t].req.tx)
              THEN Done([call[t] EXCEPT !.got = <<None>>]) ELSE Null(call[t]))
    /\ UNCHANGED shared

(* rpc_get_transaction_receipt: the receipt and its header, then the block *)
(* of that height for the gas used so far.                                 *)
GetTransactionReceipt(t) ==
    /\ Asked(t, "receipt")
    /\ Set(t, IF Indexed(call[t].req.tx)
              THEN LET b == BlockOf(call[t].req.tx) IN
                   Proceed([call[t] EXCEPT !.head = b, !.todo = <<Number[b]>>])
              ELSE Null(call[t]))
    /\ UNCHANGED shared

-----------------------------------------------------------------------------
(* Accounts, code, storage and calls, now or at an earlier block.          *)

(* resolve_state_block_tag                                                 *)
ResolveStateBlockTag(t, op) ==
    /\ Asked(t, op)
    /\ LET n == Tagged(call[t].req.tag) IN
       Set(t, IF n > Height THEN Failed(call[t])
              ELSE [call[t] EXCEPT !.latest = n, !.at =
                       IF n = Height THEN "live"
                       ELSE IF op \in {"call", "estimate"} THEN "stateHeader"
                       ELSE "snapshot"])
    /\ UNCHANGED shared
GetBalance(t) == ResolveStateBlockTag(t, "balance")
GetTransactionCount(t) == ResolveStateBlockTag(t, "nonce")
GetCode(t) == ResolveStateBlockTag(t, "code")
GetStorageAt(t) == ResolveStateBlockTag(t, "storageAt")
EthCall(t) == ResolveStateBlockTag(t, "call")
EstimateGas(t) == ResolveStateBlockTag(t, "estimate")

(* The state of the moment, and for a call the tip's header with it.       *)
ReadLiveState(t) ==
    /\ At(t, "live")
    /\ Set(t, Done([call[t] EXCEPT !.head = tip, !.base = tip]))
    /\ UNCHANGED shared

(* rpc_evm_state_at: the header of an earlier block.                       *)
ReadStateHeader(t) ==
    /\ At(t, "stateHeader")
    /\ LET b == HeaderAt(call[t].latest) IN
       Set(t, IF b = None THEN Failed(call[t])
              ELSE [call[t] EXCEPT !.head = b, !.at = "snapshot"])
    /\ UNCHANGED shared

(* load_historical_evm_state: the last snapshot that is not above, or the  *)
(* empty state; then every block after it, and the parent of each.         *)
ReadSnapshot(t) ==
    /\ At(t, "snapshot")
    /\ LET n == call[t].latest
           usable == SnapshotsUpTo(n)
           base == CHOOSE b \in usable \cup {Genesis} :
                       \A c \in usable : Number[c] <= Number[b]
           heights == [i \in 1 .. 2 * (n - Number[base]) |->
                           Number[base] + 1 + ((i - 1) \div 2) - ((i - 1) % 2)]
       IN Set(t, IF usable = {} /\ n > MaxReplay THEN Failed(call[t])
                 ELSE Proceed([call[t] EXCEPT !.base = base, !.todo = heights]))
    /\ UNCHANGED shared

(* The blocks loaded are applied in turn, with the time since the parent,  *)
(* which decides the reward.  A block may fail on a state that is not its  *)
(* parent's, and need not.                                                 *)
StateAfter(c) ==
    FoldLeft(LAMBDA s, i :
                 IF Parent[c.got[2 * i - 1]] = s /\ c.got[2 * i] = s
                 THEN c.got[2 * i - 1] ELSE Mixed,
             c.base, Span(1, Len(c.got) \div 2))
Replay(t) ==
    /\ At(t, "replayed")
    /\ \/ Set(t, Done([call[t] EXCEPT !.base = StateAfter(call[t])]))
       \/ StateAfter(call[t]) = Mixed /\ Set(t, Failed(call[t]))
    /\ UNCHANGED shared

-----------------------------------------------------------------------------
(* eth_getLogs: the heights, then the index, then each block.              *)

LogRange(c, f, m, n) ==
    IF n < m \/ n - m > MaxRange THEN Failed(c)
    ELSE [c EXCEPT !.filter = f, !.from = m, !.todo = Span(m, n), !.at = "index"]

GetLogs(t) ==
    /\ Asked(t, "logs")
    /\ LET r == call[t].req IN
       Set(t, LogRange([call[t] EXCEPT !.latest = Height], r.filter,
                       Tagged(r.from), Tagged(r.to)))
    /\ UNCHANGED shared

GetLogsByHash(t) ==
    /\ Asked(t, "logsByHash")
    /\ LET b == HeaderByHash(call[t].req.hash) IN
       Set(t, [call[t] EXCEPT !.filter = call[t].req.filter, !.at = "index",
                              !.todo = IF b = None THEN <<>> ELSE <<Number[b]>>])
    /\ UNCHANGED shared

ReadLogIndex(t) ==
    /\ At(t, "index")
    /\ LET q == call[t].todo IN
       Set(t, IF q = <<>> THEN Proceed(call[t])
              ELSE Proceed([call[t] EXCEPT !.found =
                       IndexedBlocks(call[t].filter, Head(q), Last(q))]))
    /\ UNCHANGED shared

(* A block that is stored and not indexed has no such log; one that is not *)
(* stored must be loaded.                                                  *)
ScanIndexedOnly(t) ==
    /\ At(t, "scan")
    /\ LET c == call[t]  n == Head(c.todo)  b == BodyAt(n) IN
       Set(t, IF n \notin c.found THEN Proceed([c EXCEPT !.todo = Tail(@)])
              ELSE IF b /= None THEN Taken(c, b)
              ELSE IF c.fetched >= MaxRemote THEN Failed(c)
              ELSE [c EXCEPT !.fetched = @ + 1, !.at = "body"])
    /\ UNCHANGED shared
ScanBlock(t) ==
    /\ At(t, "scan")
    /\ LET c == call[t]  n == Head(c.todo)  b == BodyAt(n) IN
       Set(t, IF b /= None
              THEN IF n \in c.found THEN Taken(c, b)
                   ELSE Proceed([c EXCEPT !.todo = Tail(@)])
              ELSE IF c.fetched >= MaxRemote THEN Failed(c)
              ELSE [c EXCEPT !.fetched = @ + 1, !.at = "body"])
    /\ UNCHANGED shared

-----------------------------------------------------------------------------
(* Filters.  A filter is fresh until its time to live has passed without   *)
(* access; any use of the table drops those that are not.  first, told and *)
(* steady are for the properties: the tip's number at the start, the       *)
(* heights handed out, and whether no reorganization came since.           *)

Watch(kind, f, last) ==
    [kind |-> kind, filter |-> f, last |-> last, fresh |-> TRUE, seen |-> {},
     parent |-> None, first |-> last, told |-> {}, steady |-> TRUE]
Keep(f, ids) == [i \in DOMAIN f \cap ids |-> f[i]]
Put(f, i, w) == [j \in DOMAIN f \cup {i} |-> IF j = i THEN w ELSE f[j]]

(* prune_expired_rpc_filters                                               *)
Pruned == Keep(filters, {i \in DOMAIN filters : filters[i].fresh})

(* The heights in the answer of a poll.                                    *)
Handed(c, w) ==
    IF w.kind = "blocks" THEN {Number[b] : b \in Range(c.got)}
    ELSE c.from .. c.latest
Advanced(w, c) == [w EXCEPT !.last = c.latest, !.told = @ \cup Handed(c, w)]

(* Time passes.                                                            *)
Expire(i) ==
    /\ Event /\ i \in DOMAIN filters /\ filters[i].fresh
    /\ filters' = [filters EXCEPT ![i].fresh = FALSE]
    /\ UNCHANGED <<chainVars, pool, nextId, ws, call, asks>>

private == <<chainVars, pool, ws, asks, events>>

(* rpc_new_filter, rpc_new_block_filter, rpc_new_pending_filter            *)
NewFilter(t) ==
    /\ Asked(t, "newFilter")
    /\ Set(t, [call[t] EXCEPT !.latest = Height, !.at = "insert"])
    /\ UNCHANGED shared

(* new_rpc_filter                                                          *)
InsertFilter(t) ==
    /\ At(t, "insert")
    /\ LET r == call[t].req  full == Cardinality(DOMAIN Pruned) >= MaxFilters IN
       /\ filters' = IF full THEN Pruned
                     ELSE Put(Pruned, nextId, Watch(r.kind, r.filter, call[t].latest))
       /\ nextId' = IF full THEN nextId ELSE nextId + 1
       /\ Set(t, IF full THEN Failed(call[t]) ELSE Done(call[t]))
    /\ UNCHANGED private

(* rpc_get_filter_changes reads the tip before the filter, and             *)
(* rpc_get_filter_logs after it.                                           *)
GetFilterChanges(t) ==
    /\ Asked(t, "changes")
    /\ Set(t, [call[t] EXCEPT !.latest = Height, !.at = "filter"])
    /\ UNCHANGED shared
GetFilterLogs(t) ==
    /\ Asked(t, "filterLogs")
    /\ Set(t, [call[t] EXCEPT !.at = "filter"])
    /\ UNCHANGED shared

(* What is new since a watch's last block, in a handler that has read the  *)
(* tip's number.                                                           *)
Changes(c, w) ==
    LET d == [c EXCEPT !.from = w.last + 1] IN
    IF w.kind = "logs" THEN LogRange(d, w.filter, w.last + 1, c.latest)
    ELSE [d EXCEPT !.at = w.kind]

(* rpc_filter_by_id                                                        *)
ReadFilter(t) ==
    /\ At(t, "filter")
    /\ filters' = Pruned
    /\ LET c == call[t]  id == c.req.id IN
       Set(t, IF id \notin DOMAIN Pruned THEN Failed(c)
              ELSE IF c.req.op = "filterLogs"
              THEN IF filters[id].kind /= "logs" THEN Failed(c)
                   ELSE [c EXCEPT !.filter = filters[id].filter, !.at = "filterLatest"]
              ELSE IF filters[id].last >= c.latest THEN Done(c)
              ELSE Changes(c, filters[id]))
    /\ UNCHANGED <<private, nextId>>

ReadFilterLatest(t) ==
    /\ At(t, "filterLatest")
    /\ Set(t, LogRange([call[t] EXCEPT !.latest = Height], call[t].filter, 0, Height))
    /\ UNCHANGED shared

(* The headers from..latest that are there.                                *)
ReadHeaders(t) ==
    /\ At(t, "blocks")
    /\ LET c == call[t]
           headers == [i \in 1 .. c.latest - c.from + 1 |-> HeaderAt(c.from + i - 1)]
       IN Set(t, [c EXCEPT !.got = SelectSeq(headers, LAMBDA b : b /= None),
                           !.at = "advance"])
    /\ UNCHANGED shared

ReadPending(t) ==
    /\ At(t, "pending") /\ call[t].req.op = "changes"
    /\ Set(t, [call[t] EXCEPT !.at = "advance"])
    /\ UNCHANGED shared

(* The filter, if it is still there, goes on after the number read first.  *)
AdvanceFilterToTip(t) ==
    /\ At(t, "advance") /\ call[t].req.op = "changes"
    /\ LET id == call[t].req.id IN
       filters' = IF id \notin DOMAIN Pruned THEN Pruned
                  ELSE Put(Pruned, id, [Advanced(filters[id], call[t]) EXCEPT !.last = Height])
    /\ Set(t, Done(call[t]))
    /\ UNCHANGED <<private, nextId>>
AdvanceFilter(t) ==
    /\ At(t, "advance") /\ call[t].req.op = "changes"
    /\ LET id == call[t].req.id IN
       filters' = IF id \notin DOMAIN Pruned THEN Pruned
                  ELSE Put(Pruned, id, Advanced(filters[id], call[t]))
    /\ Set(t, Done(call[t]))
    /\ UNCHANGED <<private, nextId>>

UninstallFilter(t) ==
    /\ Asked(t, "uninstall")
    /\ filters' = Keep(Pruned, DOMAIN filters \ {call[t].req.id})
    /\ Set(t, Done(call[t]))
    /\ UNCHANGED <<private, nextId>>

-----------------------------------------------------------------------------
(* A websocket connection (run_websocket_connection): a frame, or five     *)
(* seconds without one, then a round over the subscriptions.  An error in  *)
(* a round ends the connection.                                            *)

Closed == [open |-> FALSE, subs |-> <<>>, todo |-> <<>>]
Round(subs) == SetToSortSeq(DOMAIN subs, <)
Reads == ws.open /\ call[Socket] = Idle /\ ws.todo = <<>>
offline == <<chainVars, pool, filters>>

WsConnect(r) ==
    /\ r.op = "websocket" /\ Made(r)
    /\ ~ws.open /\ Connections < MaxConnections
    /\ ws' = [Closed EXCEPT !.open = TRUE]
    /\ UNCHANGED <<offline, nextId, call, events>>

WsSubscribe(s) ==
    /\ s.op = "subscribe" /\ Reads /\ Made(s)
    /\ LET last == IF s.kind = "mining" /\ Height > 0 THEN Height - 1 ELSE Height
           subs == Put(ws.subs, nextId, Watch(s.kind, s.filter, last))
       IN ws' = [ws EXCEPT !.subs = subs, !.todo = Round(subs)]
    /\ nextId' = nextId + 1
    /\ UNCHANGED <<offline, call, events>>

WsUnsubscribe(r) ==
    /\ r.op = "unsubscribe" /\ Reads /\ Made(r)
    /\ LET subs == Keep(ws.subs, DOMAIN ws.subs \ {r.id}) IN
       ws' = [ws EXCEPT !.subs = subs, !.todo = Round(subs)]
    /\ UNCHANGED <<offline, nextId, call, events>>

(* Any other method is handled as over HTTP, and the round follows.        *)
WsRequest(r) ==
    /\ Reads /\ Made(r) /\ Known(r)
    /\ Set(Socket, Start(r))
    /\ UNCHANGED <<offline, nextId, ws, events>>
WsReply ==
    /\ call[Socket].at \in {"done", "failed", "proxied"}
    /\ call[Socket].req.op /= "subscription"
    /\ Set(Socket, Idle)
    /\ ws' = [ws EXCEPT !.todo = Round(ws.subs)]
    /\ UNCHANGED <<offline, nextId, asks, events>>

WsReadTimesOut ==
    /\ Reads /\ ws.subs /= <<>>
    /\ ws' = [ws EXCEPT !.todo = Round(ws.subs)]
    /\ UNCHANGED <<offline, nextId, call, asks, events>>

(* The client closes, or nothing was sent either way for too long.         *)
WsClose ==
    /\ Reads
    /\ ws' = Closed
    /\ UNCHANGED <<offline, nextId, call, asks, events>>

(* websocket_subscription_result reads the tip's number ...                *)
Served(w) == ws' = [ws EXCEPT !.subs[Head(ws.todo)] = w, !.todo = Tail(@)]
WsServe ==
    /\ call[Socket] = Idle /\ ws.todo /= <<>>
    /\ LET i == Head(ws.todo)
           w == ws.subs[i]
           c == [Start([op |-> "subscription", id |-> i]) EXCEPT !.latest = Height]
       IN IF w.kind \in {"blocks", "logs"} /\ w.last >= Height
          THEN Served(w) /\ UNCHANGED call
          ELSE Set(Socket, Changes(c, w)) /\ UNCHANGED ws
    /\ UNCHANGED <<offline, nextId, asks, events>>

(* ... and then the headers or the logs, the mempool or a template.        *)
WsAdvance ==
    /\ At(Socket, "advance") /\ call[Socket].req.op = "subscription"
    /\ Served(Advanced(ws.subs[Head(ws.todo)], call[Socket]))
    /\ Set(Socket, Idle)
    /\ UNCHANGED <<offline, nextId, asks, events>>

WsPending ==
    /\ At(Socket, "pending") /\ call[Socket].req.op = "subscription"
    /\ Served([ws.subs[Head(ws.todo)] EXCEPT !.seen = @ \cup pool])
    /\ Set(Socket, Idle)
    /\ UNCHANGED <<offline, nextId, asks, events>>

(* The template is on the tip of now, or on an upstream's if one is asked, *)
(* or there is none.  Nothing is sent for none, nor for an upstream's with *)
(* the parent of the last one; the subscription goes on after the number   *)
(* read in any case.                                                       *)
WsMining ==
    /\ At(Socket, "mining")
    /\ LET w == ws.subs[Head(ws.todo)]
           latest == call[Socket].latest
       IN \E upstream \in BOOLEAN :
          IF latest < w.last \/ (latest = w.last /\ ~upstream)
          THEN Served([w EXCEPT !.last = latest])
          ELSE \E p \in {None, tip} \cup (IF upstream THEN candidates ELSE {}) :
               Served(IF p = None \/ (upstream /\ p = w.parent)
                      THEN [w EXCEPT !.last = latest]
                      ELSE [w EXCEPT !.last = latest, !.parent = p, !.told = @ \cup {latest}])
    /\ Set(Socket, Idle)
    /\ UNCHANGED <<offline, nextId, asks, events>>

WsFails ==
    /\ At(Socket, "failed") /\ call[Socket].req.op = "subscription"
    /\ ws' = Closed
    /\ Set(Socket, Idle)
    /\ UNCHANGED <<offline, nextId, asks, events>>

-----------------------------------------------------------------------------
Init ==
    /\ tip = First /\ candidates = {}
    /\ bodies = Canonical
    /\ receipts = Receipts(bodies) /\ logIndex = Locations(bodies)
    /\ snaps = {b \in bodies : Number[b] % Interval = 0}
    /\ pool = {} /\ filters = <<>> /\ nextId = 1
    /\ ws = Closed
    /\ call = [t \in Thread |-> Idle]
    /\ asks \in Asks /\ events = 0

Load(t) == LoadBody(t) \/ LoadHeader(t) \/ FetchBody(t)
BlockQuery(t) ==
    \/ GetBlockByNumber(t) \/ GetBlockTransactionCountByNumber(t)
    \/ GetTransactionByBlockNumberAndIndex(t) \/ GetBlockReceipts(t)
    \/ GetBlockByHash(t) \/ GetBlockTransactionCountByHash(t)
    \/ GetTransactionByBlockHashAndIndex(t) \/ GetBlockReceiptsByHash(t)
    \/ FeeHistory(t)
    \/ GetTransactionByHash(t) \/ ReadTransaction(t) \/ GetTransactionReceipt(t)
StateQuery(t) ==
    \/ GetBalance(t) \/ GetTransactionCount(t) \/ GetCode(t) \/ GetStorageAt(t)
    \/ EthCall(t) \/ EstimateGas(t)
    \/ ReadLiveState(t) \/ ReadStateHeader(t) \/ ReadSnapshot(t) \/ Replay(t)
LogQuery(t) == GetLogs(t) \/ GetLogsByHash(t) \/ ReadLogIndex(t) \/ ScanBlock(t)
FilterCall(t) ==
    \/ NewFilter(t) \/ InsertFilter(t) \/ GetFilterChanges(t) \/ GetFilterLogs(t)
    \/ ReadFilter(t) \/ ReadFilterLatest(t) \/ ReadHeaders(t) \/ ReadPending(t)
    \/ AdvanceFilter(t) \/ UninstallFilter(t)
Step(t) ==
    \/ Load(t) \/ BlockQuery(t) \/ StateQuery(t) \/ LogQuery(t) \/ FilterCall(t)
Serve == WsServe \/ WsAdvance \/ WsPending \/ WsMining \/ WsFails \/ WsReply

Chain ==
    \/ \E b \in Block : Extend(b) \/ StoreCandidate(b) \/ Reorganize(b)
    \/ \E n \in 0 .. Height : PruneOldBlocks(n)
    \/ \E x \in Tx : Submit(x)
    \/ \E i \in DOMAIN filters : Expire(i)
Websocket ==
    \/ \E r \in asks : WsConnect(r) \/ WsSubscribe(r) \/ WsUnsubscribe(r) \/ WsRequest(r)
    \/ WsReadTimesOut \/ WsClose \/ Serve

Next ==
    \/ Chain \/ Websocket
    \/ \E t \in Rpc : Return(t) \/ \E r \in asks : Accept(t, r)
    \/ \E t \in Thread : Step(t) \/ Proxied(t)

Spec == Init /\ [][Next]_vars

(* Every connection has a thread of its own, its mutexes are held briefly, *)
(* and every exchange with a peer and every websocket read has a timeout.  *)
FairSpec ==
    /\ Spec
    /\ \A t \in Rpc : WF_vars(Step(t) \/ Return(t))
    /\ WF_vars(Step(Socket) \/ Serve \/ WsReadTimesOut)

-----------------------------------------------------------------------------
(* Properties.                                                             *)

Answered(t) == call[t].at = "done"
On(c, b) == \E s \in c.since : IsAncestor(b, s)
Straight(c) == \A s, u \in c.since : IsAncestor(s, u) \/ IsAncestor(u, s)
Watches == {filters[i] : i \in DOMAIN filters} \cup {ws.subs[i] : i \in DOMAIN ws.subs}

(* Types; and the connection slots of try_acquire_connection and the table *)
(* of new_rpc_filter stay within their limits.                             *)
TypeOK ==
    /\ tip \in Block /\ candidates \subseteq Block /\ bodies \subseteq Block
    /\ snaps \subseteq Block /\ pool \subseteq Tx
    /\ Connections <= MaxConnections
    /\ Cardinality(DOMAIN filters) <= MaxFilters
    /\ \A i \in DOMAIN filters \cup DOMAIN ws.subs : i < nextId
    /\ DOMAIN filters \cap DOMAIN ws.subs = {}
    /\ Range(ws.todo) \subseteq DOMAIN ws.subs
    /\ ~ws.open => ws = Closed /\ call[Socket] = Idle
    /\ \A t \in Thread : call[t] /= Idle =>
          /\ tip \in call[t].since
          /\ Range(call[t].got) \subseteq Block \cup {None}
          /\ call[t].fetched <= MaxRemote /\ call[t].peers <= MaxPeers

(* The receipt index and the log index hold what the stored canonical      *)
(* bodies say and nothing else, whatever insert_block,                     *)
(* publish_canonical_suffix and prune_old_blocks did, and in what order;   *)
(* and the limits of TypeOK hold.                                          *)
IndexesMatchChain ==
    /\ TypeOK
    /\ bodies \subseteq Canonical
    /\ receipts = Receipts(bodies)
    /\ logIndex = Locations(bodies)

(* "Every response is still anchored to a local canonical header or        *)
(* transaction hash": a block, a receipt, a log or a fee row in an answer  *)
(* was canonical at its height while the request ran, although header,     *)
(* body and index are read under separate locks.  The block of the queries *)
(* that compare the hash (CheckedOps) has the hash asked for; the others   *)
(* are in AnswersByHash.                                                   *)
AnchoredAnswers ==
    \A t \in Thread : Answered(t) =>
        LET c == call[t]  op == c.req.op IN
        /\ op \in NumberOps \cup HashOps \cup {"feeHistory", "logs", "logsByHash"} =>
              \A b \in Range(c.got) : On(c, b)
        /\ op \in CheckedOps /\ c.got /= <<>> => c.got = <<c.req.hash>>
        /\ op \in NumberOps /\ c.got /= <<>> /\ c.req.tag /= Latest =>
              Number[c.got[1]] = c.req.tag
        /\ op = "feeHistory" /\ c.got /= <<>> =>
              /\ Len(c.got) = c.req.count
              /\ \A i \in 2 .. Len(c.got) : Number[c.got[i]] = Number[c.got[i - 1]] + 1
        /\ op = "tx" => \A b \in Range(c.got) \ {None} : c.req.tx \in TxsOf[b] /\ On(c, b)
        /\ op = "receipt" /\ c.got /= <<>> => c.req.tx \in TxsOf[c.head] /\ On(c, c.head)

(* eth_getLogs and eth_getFilterLogs return every matching log of the      *)
(* heights asked for, once and in order, if these were there at the start  *)
(* and the chain was not reorganized: with blocks arriving, and with       *)
(* bodies and their index entries pruned, between the reads of the index   *)
(* and of each block.                                                      *)
LogsAreExact ==
    \A t \in Thread :
        LET c == call[t]
            to == IF c.req.op = "filterLogs" \/ c.req.to = Latest THEN c.latest ELSE c.req.to
            hits(b) == {l \in LogsOf[b] : Matches(c.filter, l)}
        IN (Answered(t) /\ c.req.op \in {"logs", "filterLogs"} /\ Straight(c)
            /\ to <= c.latest) =>
               SelectSeq(c.got, LAMBDA b : hits(b) /= {}) =
               SelectSeq([i \in 1 .. to - c.from + 1 |-> Ancestor[tip][c.from + i - 1]],
                         LAMBDA b : hits(b) /= {})

(* A balance, a nonce, code, storage or the state of a call is that of the *)
(* block asked for (or of a later tip, if it was the tip), and a call runs *)
(* under the header of that state: rebuilt from whatever snapshot survives *)
(* earlier reorganizations, from blocks loaded one by one.  Provided no    *)
(* reorganization came during the request and no parent was unavailable.   *)
StateOfOneBlock ==
    \A t \in Thread :
        LET c == call[t] IN
        Answered(t) /\ c.req.op \in StateOps /\ Straight(c) /\ None \notin Range(c.got) =>
            /\ \/ c.base = Ancestor[tip][c.latest]
               \/ c.base \in c.since /\ \E s \in c.since : Number[s] = c.latest
            /\ c.req.op \in {"call", "estimate"} => c.head = c.base

(* A filter or subscription for blocks or logs hands out every height from *)
(* its start to its last block, unless the chain was reorganized: whatever *)
(* blocks arrive during a poll, and with two polls of one filter at once.  *)
NothingSkipped ==
    \A w \in Watches : w.steady /\ w.kind \in {"blocks", "logs"} =>
        w.first + 1 .. w.last \subseteq w.told

(* Every request is answered, with peers that fail and a chain that moves: *)
(* when no more come, every connection slot becomes free.                  *)
CallsReturn == []<>(\A t \in Rpc : call[t] = Idle)


(* A query by hash is answered from the block of that hash.                *)
AnswersByHash ==
    \A t \in Thread :
        Answered(t) /\ call[t].req.op \in HashOps \cup {"logsByHash"} =>
            Range(call[t].got) \subseteq {call[t].req.hash}
=============================================================================
