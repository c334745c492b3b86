-------------------------- MODULE Recovery_proofs ---------------------------
(***************************************************************************)
(* Proofs about forward recovery, for every block tree, every assignment   *)
(* of tips to the peers and any number of peers and faults: no step gives  *)
(* up work, the thread that stops leaves no unpublished job marked as      *)
(* replaying, and a spool is deleted only when nothing needs it.           *)
(***************************************************************************)
EXTENDS RecoveryOps_proofs

\* Zenon proves the steps that name no other prover.
USE Zenon

-----------------------------------------------------------------------------
(* The inductive invariant.                                                *)

\* A direct extension has no less work than the tip it was assembled on, and a
\* published tip stays on the chain until the thread has finished with it.
WorkerSound(n) ==
    LET w == n.worker IN
    /\ w.pc /= "idle" => w.tip \in Block
    /\ w.pc = "direct" => TotalWork[w.base] <= TotalWork[w.tip]
    /\ w.pc = "finalize" => IsAncestor(w.tip, n.best)

FaultKind == {"lost", "deferred", "uncleared", "crash"}

SessionsOK == sess \in [Peer -> Session] /\ lease \in Route

Inv ==
    /\ Valid(db) /\ WorkerSound(db) /\ SessionsOK
    /\ remote \in [Peer -> Seq(Block) \ {<<>>}]
    /\ faults \in Seq(FaultKind) /\ Len(faults) <= MaxFaults

-----------------------------------------------------------------------------
(* The steps of a session.                                                 *)

\* SpoolSurvives, for a step from n to m.
Survives(n, m) ==
    \A ns \in Block : n.spool[ns] /= {} /\ m.spool[ns] = {} =>
        \E t \in DOMAIN n.cur : LET c == n.cur[t] IN
            /\ c.ns = ns
            /\ \/ \E b \in {t} \cup n.spool[ns] \cup n.spool[t] : OnChain(m, b)
               \/ Started(c) /\ ~ OnChain(m, c.anc)

\* The chain stays or takes one more block.
ChainStep(n, m) ==
    m.best = n.best \/ (m.best \in Block /\ m.best /= Genesis /\ Parent[m.best] = n.best)

\* The recovery thread goes on, or is started.
ThreadStep(n, m) ==
    \/ m.worker = n.worker
    \/ /\ n.worker.pc = "idle" /\ m.worker.pc = "assemble"
       /\ m.worker.tip \in Block /\ m.worker.base = NoBlock

Goes(n, m) == Valid(m) /\ ChainStep(n, m) /\ ThreadStep(n, m) /\ Survives(n, m)

\* A call that may empty a spool, after calls that leave jobs and spools in place.
LEMMA GoesOn ==
    ASSUME NEW n, NEW q, NEW m, ChainStep(n, q), ThreadStep(n, q), q.spool = n.spool,
           Lineage(n, q), Proceeds(q, m), SpoolKept(q, m)
    PROVE  Goes(n, m)
<1>1. Valid(m) /\ m.best = q.best
  BY DEF Proceeds
<1>2. ChainStep(n, m)
  BY <1>1 DEF ChainStep
<1>3. ThreadStep(n, m)
  BY DEF Proceeds, ThreadStep
<1>4. ASSUME NEW k \in Block, n.spool[k] /= {}, m.spool[k] = {}
      PROVE  \E t \in DOMAIN n.cur : LET c == n.cur[t] IN
               /\ c.ns = k
               /\ \/ \E b \in {t} \cup n.spool[k] \cup n.spool[t] : OnChain(m, b)
                  \/ Started(c) /\ ~ OnChain(m, c.anc)
  <2>1. PICK t \in DOMAIN q.cur : Spent(q, t, k)
    BY <1>4 DEF SpoolKept
  <2>2. t \in DOMAIN n.cur /\ q.cur[t].ns = n.cur[t].ns /\ q.cur[t].anc = n.cur[t].anc
    BY DEF Lineage
  <2>3. \A b : OnChain(q, b) <=> OnChain(m, b)
    BY <1>1 DEF OnChain
  <2>4. Started(q.cur[t]) <=> Started(n.cur[t])
    BY <2>2 DEF Started
  <2> QED BY <2>1, <2>2, <2>3, <2>4 DEF Spent
<1> QED BY <1>1, <1>2, <1>3, <1>4 DEF Goes, Survives

\* A call that leaves chain, spools and thread alone adds nothing.
LEMMA GoesSame ==
    ASSUME NEW n, NEW q, NEW m, Goes(n, q), Valid(m), Same(q, m)
    PROVE  Goes(n, m)
<1>1. m.best = q.best /\ m.spool = q.spool /\ m.worker = q.worker
  BY DEF Same
<1>2. \A b : OnChain(q, b) <=> OnChain(m, b)
  BY <1>1 DEF OnChain
<1>3. ChainStep(n, m) /\ ThreadStep(n, m)
  BY <1>1 DEF Goes, ChainStep, ThreadStep
<1>4. Survives(n, m)
  BY <1>1, <1>2, ZenonT(30) DEF Goes, Survives
<1> QED BY <1>3, <1>4 DEF Goes

\* A step may leave the node alone.
LEMMA GoesSelf ==
    ASSUME NEW n, Valid(n)
    PROVE  Goes(n, n)
BY DEF Goes, ChainStep, ThreadStep, Survives

\* Writing the cursors or the spools to disk afterwards makes no difference.
LEMMA GoesFlush ==
    ASSUME NEW n, NEW q, Goes(n, q)
    PROVE  Goes(n, Flush(q)) /\ Goes(n, Persist(q))
<1>1. Valid(q)
  BY DEF Goes
<1>2. Valid(Flush(q)) /\ Same(q, Flush(q)) /\ Valid(Persist(q)) /\ Same(q, Persist(q))
  BY <1>1, FlushOK, PersistOK DEF Valid
<1> QED BY <1>2, GoesSame

\* start_candidate_recovery after other calls.
LEMMA GoesStart ==
    ASSUME NEW n, NEW q, Goes(n, q), NEW late, NEW first
    PROVE  Goes(n, StartRecovery(q, late, first))
<1> DEFINE m == StartRecovery(q, late, first)
<1>1. m = q \/ (q.worker.pc = "idle" /\ Starts(q, m))
  BY StartRecoveryOK DEF Goes
<1> HIDE DEF m
<1>2. CASE m = q
  BY <1>2 DEF m
<1>3. CASE q.worker.pc = "idle" /\ Starts(q, m)
  <2>1. Valid(m) /\ m.best = q.best /\ m.spool = q.spool
    BY <1>3 DEF Starts
  <2>2. \A b : OnChain(q, b) <=> OnChain(m, b)
    BY <2>1 DEF OnChain
  <2>3. ChainStep(n, m)
    BY <2>1 DEF Goes, ChainStep
  <2>4. ThreadStep(n, m)
    BY <1>3 DEF Goes, ThreadStep, Starts
  <2>5. Survives(n, m)
    BY <2>1, <2>2 DEF Goes, Survives
  <2> QED BY <2>1, <2>3, <2>4, <2>5 DEF Goes, m
<1> QED BY <1>1, <1>2, <1>3

\* What every handler of a session establishes.
Handles == Goes(db, db') /\ SessionsOK'

\* A session that goes on has consumed a frame and perhaps asked once more.
LEMMA ContinueOK ==
    ASSUME SessionsOK, NEW p \in Peer, NEW n, NEW ask \in Ask \cup {Nothing},
           NEW count \in Nat, Continue(p, n, ask, count)
    PROVE  db' = n /\ sess' \in [Peer -> Session]
<1> DEFINE s == sess[p]
           asks == IF ask = Nothing THEN s.asks ELSE Append(s.asks, ask)
           inbox == IF s.inbox = <<>> THEN <<>> ELSE Tail(s.inbox)
           new == [on |-> TRUE, count |-> count, asks |-> asks, inbox |-> inbox]
<1>1. s \in Session /\ s.asks \in Seq(Ask) /\ s.inbox \in Seq(Reply)
  BY DEF SessionsOK, Session
<1>2. db' = n /\ sess' = [sess EXCEPT ![p] = new]
  BY DEF Continue
<1>3. asks \in Seq(Ask) /\ inbox \in Seq(Reply)
  BY <1>1, SMTT(30)
<1> HIDE DEF asks, inbox
<1>4. new \in Session
  BY <1>3 DEF Session
<1> HIDE DEF new
<1> QED BY <1>2, <1>4 DEF SessionsOK

\* A closed session gives up the lease it had.
LEMMA CloseOK ==
    ASSUME SessionsOK, NEW p \in Peer, Close(p)
    PROVE  SessionsOK'
<1>1. Closed \in Session
  BY SMTT(30) DEF Closed, Session
<1> QED BY <1>1 DEF Close, SessionsOK, Route

\* A session that ends with its work saved.
LEMMA EndOK ==
    ASSUME SessionsOK, NEW p \in Peer, NEW n, Goes(db, n), End(p, n)
    PROVE  Handles
BY CloseOK, GoesFlush DEF End, Handles

\* A session that ends on an error, without saving.
LEMMA BailOK ==
    ASSUME SessionsOK, NEW p \in Peer, NEW n, Goes(db, n), Bail(p, n)
    PROVE  Handles
BY CloseOK DEF Bail, Handles

\* The bodies from a height on are requested.
LEMMA AskFromOK ==
    ASSUME SessionsOK, NEW p \in Peer, NEW n, Goes(db, n), NEW next \in Nat,
           NEW count \in Nat, AskFrom(p, n, next, count)
    PROVE  Goes(db, db') /\ sess' \in [Peer -> Session]
<1> DEFINE m == RecordRequest(n, p, next)
<1>1. Valid(m) /\ Same(n, m)
  BY RecordRequestOK DEF Goes
<1>2. Goes(db, m)
  BY <1>1, GoesSame
<1>3. AskRange(next) \in Ask
  BY AsksOK
<1>4. Continue(p, m, AskRange(next), count)
  BY DEF AskFrom
<1> HIDE DEF m
<1>5. db' = m /\ sess' \in [Peer -> Session]
  BY <1>3, <1>4, ContinueOK
<1> QED BY <1>2, <1>5

-----------------------------------------------------------------------------
(* A signed hello.                                                         *)

\* The peer that says hello becomes a provider of bodies.
LEMMA AsProviderOK ==
    ASSUME SessionsOK, NEW p \in Peer, NEW r, Goes(db, r.db), r.ask \in Ask \cup {Nothing},
           NEW active \in BOOLEAN, AsProvider(p, r, active)
    PROVE  Handles
<1>1. \/ End(p, r.db)
      \/ Continue(p, r.db, r.ask, 0) /\ lease' = IF active THEN p ELSE lease
  BY DEF AsProvider
<1>2. CASE End(p, r.db)
  BY <1>2, EndOK
<1>3. CASE Continue(p, r.db, r.ask, 0) /\ lease' = IF active THEN p ELSE lease
  <2>1. db' = r.db /\ sess' \in [Peer -> Session]
    BY <1>3, ContinueOK
  <2>2. lease' \in Route
    BY <1>3 DEF SessionsOK, Route
  <2> QED BY <2>1, <2>2 DEF Handles, SessionsOK
<1> QED BY <1>1, <1>2, <1>3

\* The witness of a completed job, gone elsewhere.
LEMMA UnblockedOK ==
    ASSUME NEW n, Valid(n), NEW p \in Peer, NEW k, NEW t, NEW late, NEW first
    PROVE  LET q == Unblocked(n, p, k, t, late, first)
           IN  /\ Valid(q) /\ ChainStep(n, q) /\ ThreadStep(n, q)
               /\ q.spool = n.spool /\ Lineage(n, q)
<1> DEFINE u == RemoveStaleWitness(n, p, k)
           m == StartRecovery(u, late, first)
           q == Unblocked(n, p, k, t, late, first)
<1>1. q = n \/ q = m
  BY DEF Unblocked
<1>2. Valid(u) /\ Same(n, u) /\ Lineage(n, u)
  BY RemoveStaleWitnessOK
<1> HIDE DEF u, q
<1>3. m = u \/ (u.worker.pc = "idle" /\ Starts(u, m))
  BY <1>2, StartRecoveryOK
<1> HIDE DEF m
<1>4. CASE q = n
  BY <1>4, SameTrans DEF q, ChainStep, ThreadStep
<1>5. CASE q = m /\ m = u
  BY <1>2, <1>5 DEF q, ChainStep, ThreadStep, Same
<1>6. CASE q = m /\ u.worker.pc = "idle" /\ Starts(u, m)
  <2>1. Valid(m) /\ m.best = u.best /\ m.spool = u.spool /\ Lineage(u, m) /\ ThreadStep(u, m)
    BY <1>6 DEF Starts, ThreadStep
  <2>2. u.best = n.best /\ u.spool = n.spool /\ u.worker = n.worker
    BY <1>2 DEF Same
  <2>3. Lineage(n, m)
    BY <1>2, <2>1, SameTrans
  <2> QED BY <1>6, <2>1, <2>2, <2>3 DEF q, ChainStep, ThreadStep
<1> QED BY <1>1, <1>3, <1>4, <1>5, <1>6

\* The peer that says hello is asked to witness for a job.
LEMMA WitnessingOK ==
    ASSUME SessionsOK, Valid(db), NEW p \in Peer, NEW k \in DOMAIN db.cur,
           Witnessing(p, k, RegisterWitness(db, p, k))
    PROVE  Handles
<1> DEFINE m == RegisterWitness(db, p, k)
           c == m.cur[k]
<1>1. Valid(m) /\ Same(db, m) /\ k \in DOMAIN m.cur
  BY RegisterWitnessOK
<1>2. AsWitness(p, m, c)
  BY DEF Witnessing
<1> HIDE DEF m
<1>3. Goes(db, m)
  BY <1>1, GoesSelf, GoesSame
<1>4. c \in Cursor /\ InReach(c)
  BY <1>1, CursorElim
<1> HIDE DEF c
<1>5. AskWitness(c) \in Ask
  BY <1>4, AsksOK
<1>6. \/ Continue(p, m, AskWitness(c), 0) /\ lease' = lease
      \/ End(p, m)
  BY <1>2 DEF AsWitness
<1>7. CASE End(p, m)
  BY <1>3, <1>7, EndOK
<1>8. CASE Continue(p, m, AskWitness(c), 0) /\ lease' = lease
  <2>1. db' = m /\ sess' \in [Peer -> Session]
    BY <1>5, <1>8, ContinueOK
  <2> QED BY <1>3, <1>8, <2>1 DEF Handles, SessionsOK
<1> QED BY <1>6, <1>7, <1>8

\* The Hello branch of sync_with_peer.
LEMMA HelloOK ==
    ASSUME Inv, NEW p \in Peer, NEW late, NEW first, Hello(p, late, first)
    PROVE  Handles
<1> DEFINE t == Head(remote[p])
           k == DurableKey(db, p, first)
           active == k \in DOMAIN db.cur /\ RequiresProvider(db.cur[k])
<1>1. Valid(db) /\ SessionsOK
  BY DEF Inv
<1>2. t \in Block
  <2>1. remote[p] \in Seq(Block) /\ remote[p] /= <<>>
    BY DEF Inv
  <2> QED BY <2>1, SMTT(30)
<1>3. HelloFor(p, t, k, active, late, first)
  BY DEF Hello, HelloOn
<1>4. active \in BOOLEAN
  OBVIOUS
<1> HIDE DEF t, k
<1>5. ASSUME NEW q, Valid(q), ChainStep(db, q), ThreadStep(db, q), q.spool = db.spool,
             Lineage(db, q), NEW a \in BOOLEAN,
             AsProvider(p, RequestBranch(q, p, t, late, first), a)
      PROVE  Handles
  <2> DEFINE r == RequestBranch(q, p, t, late, first)
  <2>1. Proceeds(q, r.db) /\ SpoolKept(q, r.db) /\ r.ask \in Ask \cup {Nothing}
    BY <1>2, <1>5, RequestBranchOK
  <2> HIDE DEF r
  <2>2. Goes(db, r.db)
    BY <1>5, <2>1, GoesOn
  <2>3. AsProvider(p, r, a)
    BY <1>5 DEF r
  <2> QED BY <1>1, <1>5, <2>1, <2>2, <2>3, AsProviderOK
<1>6. CASE AsProvider(p, RequestBranch(Unblocked(db, p, k, t, late, first),
                                       p, t, late, first), FALSE)
  <2> DEFINE q == Unblocked(db, p, k, t, late, first)
  <2>1. /\ Valid(q) /\ ChainStep(db, q) /\ ThreadStep(db, q)
        /\ q.spool = db.spool /\ Lineage(db, q)
    BY <1>1, UnblockedOK
  <2>2. AsProvider(p, RequestBranch(q, p, t, late, first), FALSE)
    BY <1>6
  <2> HIDE DEF q
  <2> QED BY <1>5, <2>1, <2>2
<1>7. CASE AsProvider(p, RequestBranch(RegisterPrimary(db, p, k), p, t, late, first), TRUE)
  <2> DEFINE q == RegisterPrimary(db, p, k)
  <2>1. Valid(q) /\ Same(db, q) /\ Lineage(db, q)
    BY <1>1, RegisterPrimaryOK
  <2>2. AsProvider(p, RequestBranch(q, p, t, late, first), TRUE)
    BY <1>7
  <2> HIDE DEF q
  <2>3. ChainStep(db, q) /\ ThreadStep(db, q) /\ q.spool = db.spool
    BY <2>1 DEF Same, ChainStep, ThreadStep
  <2> QED BY <1>5, <2>1, <2>2, <2>3
<1>8. CASE active /\ (IF t /= k THEN End(p, RemoveStaleWitness(db, p, k))
                      ELSE Witnessing(p, k, RegisterWitness(db, p, k)))
  <2>1. CASE t /= k
    <3>1. LET q == RemoveStaleWitness(db, p, k) IN Valid(q) /\ Same(db, q)
      BY <1>1, RemoveStaleWitnessOK
    <3>2. Goes(db, RemoveStaleWitness(db, p, k))
      BY <1>1, <3>1, GoesSelf, GoesSame
    <3> QED BY <1>1, <1>8, <2>1, <3>2, EndOK
  <2>2. CASE t = k
    BY <1>1, <1>8, <2>2, WitnessingOK
  <2> QED BY <2>1, <2>2
<1> QED BY <1>3, <1>6, <1>7, <1>8 DEF HelloFor

-----------------------------------------------------------------------------
(* What a peer answers.                                                    *)

\* The greatest of a set of heights.
LEMMA GreatestHeight ==
    ASSUME NEW k \in Nat, NEW T \in SUBSET (0..k), T /= {}
    PROVE  LET h == CHOOSE h \in T : \A m \in T : m <= h IN h \in T
<1> DEFINE U == {k - x : x \in T}
<1>0. \A x \in T : k - x \in Nat
  BY SMTT(30)
<1>1. U \in SUBSET Nat /\ U /= {}
  BY <1>0
<1>2. \A m \in T : k - m \in U /\ m \in Int
  BY SMTT(30)
<1>3. \A u \in U : \E h \in T : u = k - h
  OBVIOUS
<1> HIDE DEF U
<1>4. PICK u \in U : \A v \in U : u <= v
  BY <1>1, LeastNatural
<1>5. PICK h \in T : u = k - h
  BY <1>3
<1>6. \A m \in T : m <= h
  BY <1>2, <1>4, <1>5, SMTT(30)
<1> QED BY <1>6

\* The chain of a peer, from its genesis to its tip.
LEMMA PeerChainOK ==
    ASSUME Inv, NEW p \in Peer
    PROVE  /\ Head(remote[p]) \in Block
           /\ PeerChain(p) \in [0..Number[Head(remote[p])] -> Block]
           /\ PeerChain(p)[0] = Genesis
<1> DEFINE t == Head(remote[p])
<1>1. t \in Block
  <2>1. remote[p] \in Seq(Block) /\ remote[p] /= <<>>
    BY DEF Inv
  <2> QED BY <2>1, SMTT(30)
<1>2. PeerChain(p) = [h \in 0..Number[t] |-> Ancestor[t][h]]
  BY DEF PeerChain
<1> HIDE DEF t
<1>3. Number[t] \in Nat /\ \A h \in 0..Number[t] : Ancestor[t][h] \in Block
  BY <1>1, HeaderTypes, AncestorIsBlock
<1>4. Ancestor[t][0] = Genesis
  BY <1>1, BlockTreeAssumption
<1> QED BY <1>1, <1>2, <1>3, <1>4, SMTT(30) DEF t

\* FindCommonAncestor has an answer: both chains start with the same genesis.
LEMMA CommonAncestorOK ==
    ASSUME Inv, NEW p \in Peer, NEW tip \in Block
    PROVE  CommonAncestor(p, tip) \in Block
<1> DEFINE known == {h \in 0..Number[tip] :
                       Ancestor[tip][h] \in Range(PeerChain(p)) \cup PeerHolds[p]}
           g == CHOOSE h \in known : \A m \in known : m <= h
<1>1. Number[tip] \in Nat
  BY HeaderTypes
<1>2. 0 \in known
  <2>1. Ancestor[tip][0] = Genesis
    BY BlockTreeAssumption
  <2>2. Number[Head(remote[p])] \in Nat
    BY PeerChainOK, HeaderTypes
  <2>3. 0 \in DOMAIN PeerChain(p) /\ PeerChain(p)[0] = Genesis
    BY <2>2, PeerChainOK, SMTT(30)
  <2>4. Genesis \in Range(PeerChain(p))
    BY <2>3 DEF Range
  <2> QED BY <1>1, <2>1, <2>4, SMTT(30)
<1>3. known \in SUBSET (0..Number[tip])
  OBVIOUS
<1>4. CommonAncestor(p, tip) = Ancestor[tip][g]
  BY DEF CommonAncestor
<1> HIDE DEF known
<1>5. g \in known
  BY <1>1, <1>2, <1>3, GreatestHeight
<1> HIDE DEF g
<1> QED BY <1>3, <1>4, <1>5, AncestorIsBlock

\* GetBlockRange answers with bodies.
LEMMA BodiesOK ==
    ASSUME Inv, NEW p \in Peer, NEW from \in Nat
    PROVE  Bodies(p, from) \in Seq(Reply)
<1> DEFINE k == Number[Head(remote[p])]
           a == from + RangeSize - 1
           end == Min({a, k})
           len == IF end < from THEN 0 ELSE end - from + 1
           body(i) == [kind |-> "body", block |-> PeerChain(p)[from + i - 1]]
<1>1. k \in Nat /\ a \in Int
  BY PeerChainOK, HeaderTypes, RecoveryAssumption, SMTT(30)
<1>2. Bodies(p, from) = [i \in 1..len |-> body(i)]
  BY DEF Bodies
<1> HIDE DEF a
<1>3. end \in Int /\ end <= k
  <2>1. k \in Int
    BY <1>1, SMTT(30)
  <2>2. end \in {a, k} /\ end <= k
    BY <1>1, <2>1, LesserOf
  <2> HIDE DEF end, k
  <2> QED BY <1>1, <2>2, SMTT(30)
<1> HIDE DEF end
<1>4. len \in Nat /\ \A i \in 1..len : from + i - 1 \in 0..k
  BY <1>1, <1>3, SMTT(30)
<1> HIDE DEF len
<1>5. ASSUME NEW i \in 1..len
      PROVE  body(i) \in Reply
  <2>1. PeerChain(p)[from + i - 1] \in Block
    BY <1>4, PeerChainOK
  <2> QED BY <2>1 DEF Reply
<1> HIDE DEF body
<1>6. [i \in 1..len |-> body(i)] \in [1..len -> Reply]
  BY <1>5
<1> QED BY <1>2, <1>4, <1>6, SMTT(30)

\* What handle_p2p_message_from answers to a request.
LEMMA AnswerOK ==
    ASSUME Inv, NEW p \in Peer, NEW ask \in Ask
    PROVE  Answer(p, ask) \in Seq(Reply)
<1>1. CASE ask \in [kind : {"range"}, from : Nat]
  <2>1. ask.kind = "range" /\ ask.from \in Nat
    BY <1>1
  <2>2. Answer(p, ask) = Bodies(p, ask.from)
    BY <2>1 DEF Answer
  <2> QED BY <2>1, <2>2, BodiesOK
<1>2. CASE ask \in [kind : {"ancestor"}, tip : Block]
  <2>1. ask.kind = "ancestor" /\ ask.tip \in Block
    BY <1>2
  <2> DEFINE b == CommonAncestor(p, ask.tip)
             f == [kind |-> "ancestor", block |-> b]
  <2>2. Answer(p, ask) = <<f>>
    BY <2>1 DEF Answer
  <2>3. b \in Block
    BY <2>1, CommonAncestorOK
  <2> HIDE DEF b
  <2>4. f \in Reply
    BY <2>3 DEF Reply
  <2> HIDE DEF f
  <2> QED BY <2>2, <2>4, SMTT(30)
<1>3. CASE ask \in AskHeaders
  <2>1. /\ ask.kind = "witness" /\ ask.tip \in Block /\ ask.heights \subseteq Nat
        /\ \A h \in ask.heights : h <= Number[ask.tip]
    BY <1>3 DEF AskHeaders
  <2> DEFINE f == [kind |-> "headers", tip |-> ask.tip,
                   heads |-> {PeerChain(p)[h] : h \in ask.heights}]
             e == [kind |-> "eof"]
  <2>2. Answer(p, ask) = IF ask.tip = Head(remote[p]) THEN <<f>> ELSE <<e>>
    BY <2>1 DEF Answer
  <2>3. e \in Reply
    BY DEF Reply
  <2>4. ASSUME ask.tip = Head(remote[p])
        PROVE  f \in Reply
    <3>1. \A h \in ask.heights : h \in 0..Number[Head(remote[p])]
      BY <2>1, <2>4, HeaderTypes, SMTT(30)
    <3>2. {PeerChain(p)[h] : h \in ask.heights} \in SUBSET Block
      BY <3>1, PeerChainOK, ZenonT(30)
    <3> QED BY <2>1, <3>2 DEF Reply
  <2> HIDE DEF f, e
  <2> QED BY <2>2, <2>3, <2>4, SMTT(30)
<1> QED BY <1>1, <1>2, <1>3 DEF Ask

\* A peer answers a request; the node is left alone.
LEMMA PeerServesOK ==
    ASSUME Inv, NEW p \in Peer, PeerServes(p)
    PROVE  Inv'
<1> DEFINE s == sess[p]
           asks == Tail(s.asks)
           inbox == s.inbox \o Answer(p, Head(s.asks))
           new == [s EXCEPT !.asks = asks, !.inbox = inbox]
<1>1. s \in Session /\ s.asks \in Seq(Ask) /\ s.inbox \in Seq(Reply) /\ s.asks /= <<>>
  BY DEF Inv, SessionsOK, Session, PeerServes
<1>2. Head(s.asks) \in Ask /\ asks \in Seq(Ask)
  BY <1>1, SMTT(30)
<1>3. Answer(p, Head(s.asks)) \in Seq(Reply)
  BY <1>2, AnswerOK
<1>4. inbox \in Seq(Reply)
  BY <1>1, <1>3, SMTT(30)
<1>5. sess \in [Peer -> Session] /\ lease \in Route
  BY DEF Inv, SessionsOK
<1>6. sess' = [sess EXCEPT ![p] = new]
  BY <1>5 DEF PeerServes
<1> HIDE DEF asks, inbox
<1>7. new \in Session
  BY <1>1, <1>2, <1>4 DEF Session
<1> HIDE DEF new
<1>8. sess' \in [Peer -> Session]
  BY <1>5, <1>6, <1>7
<1> QED BY <1>5, <1>8 DEF Inv, SessionsOK, PeerServes

-----------------------------------------------------------------------------
(* The frames a session receives.                                          *)

\* The next frame of a session is of a kind that the session can read.
LEMMA FrameOK ==
    ASSUME SessionsOK, NEW p \in Peer, sess[p].inbox /= <<>>
    PROVE  /\ Frame(p).kind \in {"body", "ancestor"} => Frame(p).block \in Block
           /\ Frame(p).kind = "headers" => Frame(p).heads \in SUBSET Block
           /\ sess[p].count \in Nat
<1>1. sess[p].inbox \in Seq(Reply) /\ sess[p].count \in Nat
  BY DEF SessionsOK, Session
<1>2. Frame(p) \in Reply
  BY <1>1, SMTT(30) DEF Frame
<1> QED BY <1>1, <1>2 DEF Reply

\* The ancestor is found.
LEMMA JobAtOK ==
    ASSUME NEW c \in Cursor, InReach(c), NEW b \in Block
    PROVE  LET d == JobAt(c, b) IN d \in Cursor /\ InReach(d) /\ d.tip = c.tip
<1> DEFINE d == [c EXCEPT !.anc = b, !.parent = b, !.staged = Number[b],
                          !.state = "retrieving"]
<1>1. JobAt(c, b) = d
  BY DEF JobAt
<1>2. Number[b] \in Nat /\ b \in Maybe
  BY HeaderTypes DEF Maybe
<1>3. d \in Cursor /\ d.tip = c.tip /\ d.samples = c.samples
  BY <1>2 DEF Cursor, State
<1> HIDE DEF d
<1> QED BY <1>1, <1>3 DEF InReach

\* After the ancestor is known, the bodies above it are requested.
LEMMA BeginRangeOK ==
    ASSUME Inv, NEW p \in Peer, NEW n, Goes(db, n), Bound(n, p), BeginRange(p, n)
    PROVE  Handles
<1> DEFINE k == n.bind[p]
           q == RegisterPrimary(n, p, k)
           next == NextHeight(q.cur[q.bind[p]])
<1>1. SessionsOK /\ sess[p].count \in Nat /\ Valid(n)
  BY DEF Inv, SessionsOK, Session, Goes
<1>2. /\ Valid(q) /\ Same(n, q) /\ q.bind = n.bind /\ DOMAIN q.cur = DOMAIN n.cur
  BY <1>1, RegisterPrimaryOK
<1>3. \/ End(p, n)
      \/ AskFrom(p, q, next, sess[p].count) /\ lease' = p
  BY DEF BeginRange, AskNext
<1> HIDE DEF q
<1>4. next \in Nat
  <2>1. q.bind[p] \in DOMAIN q.cur
    BY <1>2 DEF Bound
  <2> QED BY <1>2, <2>1, CursorElim
<1> HIDE DEF next
<1>5. Goes(db, q)
  BY <1>2, GoesSame
<1>6. CASE End(p, n)
  BY <1>1, <1>6, EndOK
<1>7. CASE AskFrom(p, q, next, sess[p].count) /\ lease' = p
  <2>1. Goes(db, db') /\ sess' \in [Peer -> Session]
    BY <1>1, <1>4, <1>5, <1>7, AskFromOK
  <2> QED BY <1>7, <2>1 DEF Handles, SessionsOK, Route
<1> QED BY <1>3, <1>6, <1>7

\* The answer to a locator: the job starts at the ancestor, or joins another.
LEMMA FoundAncestorOK ==
    ASSUME Inv, NEW p \in Peer, NEW first, FoundAncestor(p, first)
    PROVE  Handles
<1> DEFINE b == Frame(p).block
           k == db.bind[p]
           c == JobAt(db.cur[k], b)
           q == Put(db, c)
           r == Coalesce(q, p, k, b, NoBlock, first)
           m == Persist(r)
<1>1. Valid(db) /\ SessionsOK /\ db \in Node /\ Routed(db)
  BY DEF Inv, Valid
<1>2. b \in Block
  <2>1. sess[p].inbox /= <<>> /\ Frame(p).kind = "ancestor"
    BY DEF FoundAncestor, Receives, Frame
  <2> QED BY <1>1, <2>1, FrameOK
<1>3. IF ~ OnChain(db, b) \/ ~ Bound(db, p) THEN Bail(p, db) ELSE BeginRange(p, m)
  BY DEF FoundAncestor
<1>4. CASE Bail(p, db)
  BY <1>1, <1>4, GoesSelf, BailOK
<1>5. CASE Bound(db, p) /\ BeginRange(p, m)
  <2>1. k \in DOMAIN db.cur /\ k \in Block
    BY <1>1, <1>5, CursorElim DEF Bound
  <2> HIDE DEF b
  <2>2. c \in Cursor /\ InReach(c) /\ c.tip = k
    BY <1>1, <1>2, <2>1, CursorElim, JobAtOK, SMTT(30)
  <2> HIDE DEF c
  <2>3. /\ q \in Node /\ Same(db, q) /\ Routed(q) /\ q.bind = db.bind
        /\ DOMAIN q.cur = DOMAIN db.cur \cup {c.tip}
    BY <1>1, <2>2, PutOK
  <2>4. Valid(q) /\ Bound(q, p)
    BY <2>1, <2>3 DEF Valid, Bound
  <2> HIDE DEF q
  <2>5. Valid(r) /\ Same(q, r) /\ Bound(r, p)
    BY <2>1, <2>4, CoalesceOK
  <2> HIDE DEF r
  <2>6. Valid(m) /\ Same(r, m) /\ Bound(m, p)
    BY <2>5, PersistOK DEF Valid, Bound
  <2> HIDE DEF m
  <2>7. Goes(db, m)
    <3>1. Same(db, m)
      BY <2>3, <2>5, <2>6, SameTrans
    <3> QED BY <1>1, <2>6, <3>1, GoesSelf, GoesSame
  <2> QED BY <1>5, <2>6, <2>7, BeginRangeOK
<1> QED BY <1>3, <1>4, <1>5

\* The session after a body of the range.
LEMMA AfterBodyOK ==
    ASSUME SessionsOK, NEW p \in Peer, NEW n, Goes(db, n), NEW c, NEW b \in Block, NEW last,
           NEW count \in Nat, NEW late, NEW first,
           AfterBody(p, n, c, b, last, count, late, first)
    PROVE  Handles
<1> DEFINE q == IF count % CheckpointSize = 0 THEN Flush(n) ELSE n
           s == StartRecovery(Flush(n), late, first)
           next == Number[b] + 1
<1>1. \/ Bail(p, n)
      \/ End(p, s)
      \/ lease' = lease /\ AskFrom(p, q, next, 0)
      \/ lease' = lease /\ Continue(p, q, Nothing, count)
  BY DEF AfterBody
<1>2. Goes(db, q) /\ Goes(db, s) /\ next \in Nat
  BY GoesFlush, GoesStart, HeaderTypes, SMTT(30)
<1> HIDE DEF q, s, next
<1>3. CASE Bail(p, n)
  BY <1>3, BailOK
<1>4. CASE End(p, s)
  BY <1>2, <1>4, EndOK
<1>5. CASE lease' = lease /\ AskFrom(p, q, next, 0)
  BY <1>2, <1>5, AskFromOK DEF Handles, SessionsOK
<1>6. CASE lease' = lease /\ Continue(p, q, Nothing, count)
  BY <1>2, <1>6, ContinueOK DEF Handles, SessionsOK
<1> QED BY <1>1, <1>3, <1>4, <1>5, <1>6

\* A body is written to the spool of its job.
LEMMA StoredOK ==
    ASSUME NEW n, Valid(n), NEW ns \in Block, NEW b \in Block
    PROVE  LET m == Stored(n, ns, b)
           IN  Goes(n, m) /\ m.cur = n.cur /\ m.bind = n.bind
<1> DEFINE S == Spooled(n.spool[ns], b)
           f == [n.spool EXCEPT ![ns] = S]
           m == [n EXCEPT !.spool = f]
<1>1. n \in Node /\ Routed(n) /\ n.spool \in [Block -> SUBSET Block]
  BY NodeElim DEF Valid
<1>2. S \in SUBSET Block /\ S /= {}
  BY <1>1 DEF Spooled
<1>3. Stored(n, ns, b) = m
  BY DEF Stored
<1> HIDE DEF S
<1>4. f \in [Block -> SUBSET Block] /\ \A k \in Block : n.spool[k] /= {} => f[k] /= {}
  BY <1>1, <1>2
<1> HIDE DEF f
<1>5. /\ m \in Node /\ m.best = n.best /\ m.worker = n.worker /\ m.spool = f
      /\ m.cur = n.cur /\ m.bind = n.bind
  BY <1>1, <1>4 DEF Node
<1> HIDE DEF m
<1>6. Valid(m)
  BY <1>1, <1>5 DEF Valid, Routed
<1>7. Goes(n, m)
  BY <1>4, <1>5, <1>6 DEF Goes, ChainStep, ThreadStep, Survives
<1> QED BY <1>3, <1>5, <1>7

\* A body of the range: import_recovery_block, then the cursor moves.
LEMMA RangeBodyOK ==
    ASSUME Inv, NEW p \in Peer, NEW late, NEW first, RangeBody(p, late, first)
    PROVE  Handles
<1> DEFINE b == Frame(p).block
           k == db.bind[p]
           c == db.cur[k]
           q == Stored(db, c.ns, b)
           r == Progress(q, c, b)
           u == CoalesceByRoot(r, p, first)
           v == SampledBody(u, p, b)
           last == Number[b] >= Number[c.tip]
<1>1. Valid(db) /\ SessionsOK
  BY DEF Inv
<1>2. b \in Block /\ sess[p].count + 1 \in Nat
  <2>1. sess[p].inbox /= <<>> /\ Frame(p).kind = "body"
    BY DEF RangeBody, Receives, Frame
  <2> QED BY <1>1, <2>1, FrameOK, SMTT(30)
<1>3. \/ Bail(p, db)
      \/ End(p, Persist(db))
      \/ Bound(db, p) /\ BodyOf(p, c, b, late, first)
  BY DEF RangeBody
<1> HIDE DEF b
<1>4. CASE Bail(p, db)
  BY <1>1, <1>4, GoesSelf, BailOK
<1>5. CASE End(p, Persist(db))
  BY <1>1, <1>5, GoesSelf, GoesFlush, EndOK
<1>6. CASE Bound(db, p) /\ BodyOf(p, c, b, late, first)
  <2>1. AfterBody(p, v, v.cur[v.bind[p]], b, last, sess[p].count + 1, late, first)
    BY <1>6 DEF BodyOf, Handled
  <2>2. k \in DOMAIN db.cur /\ c \in Cursor /\ InReach(c) /\ c.tip = k /\ c.ns \in Block
    <3>1. k \in DOMAIN db.cur
      BY <1>6 DEF Bound
    <3>2. c \in Cursor /\ InReach(c) /\ c.tip = k
      BY <1>1, <3>1, CursorElim
    <3> QED BY <3>1, <3>2 DEF Cursor
  <2> HIDE DEF c, last
  <2>3. Goes(db, q) /\ q.cur = db.cur /\ q.bind = db.bind
    BY <1>1, <1>2, <2>2, StoredOK
  <2> HIDE DEF q
  <2>4. Valid(r) /\ Same(q, r) /\ Bound(r, p)
    <3>1. Valid(q) /\ k \in DOMAIN q.cur
      BY <2>2, <2>3 DEF Goes
    <3>2. Valid(r) /\ Same(q, r) /\ r.bind = q.bind /\ DOMAIN r.cur = DOMAIN q.cur
      BY <1>2, <2>2, <3>1, ProgressOK
    <3> QED BY <2>3, <3>1, <3>2 DEF Bound
  <2> HIDE DEF r
  <2>5. Valid(u) /\ Same(r, u) /\ Bound(u, p)
    BY <2>4, CoalesceByRootOK
  <2> HIDE DEF u
  <2>6. Valid(v) /\ Same(u, v)
    <3> DEFINE d == u.cur[u.bind[p]]
               e == PrimarySample(d, b)
    <3>1. d \in Cursor /\ InReach(d) /\ d.tip = u.bind[p] /\ u.bind[p] \in DOMAIN u.cur
      BY <2>5, CursorElim DEF Bound
    <3>2. v = Persist(Put(u, e)) \/ v = u
      BY DEF SampledBody, Sampled
    <3> HIDE DEF d, v
    <3>3. e \in Cursor /\ InReach(e) /\ e.tip = u.bind[p]
      BY <1>2, <3>1, PrimarySampleOK
    <3> HIDE DEF e
    <3>4. LET m == Persist(Put(u, e)) IN Valid(m) /\ Same(u, m)
      BY <2>5, <3>1, <3>3, UpdateOK
    <3> QED BY <2>5, <3>2, <3>4, SameTrans DEF v
  <2> HIDE DEF v
  <2>7. Goes(db, v)
    BY <2>3, <2>4, <2>5, <2>6, SameTrans, GoesSame
  <2> QED BY <1>1, <1>2, <2>1, <2>7, AfterBodyOK
<1> QED BY <1>3, <1>4, <1>5, <1>6

\* A body that is not the next one of the job and not canonical either.
LEMMA UnrequestedBodyOK ==
    ASSUME Inv, NEW p \in Peer, UnrequestedBody(p)
    PROVE  Handles
<1> DEFINE q == ResetForFork(db, p)
           m == RecordFailure(q, p)
<1>1. Valid(db) /\ SessionsOK
  BY DEF Inv
<1>2. Bail(p, db) \/ End(p, m)
  BY DEF UnrequestedBody
<1>3. Valid(q) /\ Same(db, q)
  BY <1>1, ResetForForkOK
<1> HIDE DEF q
<1>4. Valid(m) /\ Same(q, m)
  BY <1>3, RecordFailureOK
<1> HIDE DEF m
<1>5. Goes(db, db) /\ Goes(db, m)
  BY <1>1, <1>3, <1>4, GoesSelf, GoesSame
<1> QED BY <1>1, <1>2, <1>5, EndOK, BailOK

\* import_network_block
LEMMA ImportedOK ==
    ASSUME NEW n, Valid(n), NEW b \in Block
    PROVE  LET m == Imported(n, b)
           IN  /\ Valid(m) /\ ChainStep(n, m) /\ m.worker = n.worker
               /\ m.spool = n.spool /\ m.cur = n.cur
<1> DEFINE x == [n EXCEPT !.best = b, !.cand = @ \ {b}]
           y == [n EXCEPT !.cand = @ \cup {b}]
           m == Imported(n, b)
<1>1. \/ IsCanonicalNext(n, b) /\ m = x
      \/ m = n
      \/ m = y
  BY SMTT(30) DEF Imported
<1> HIDE DEF m
<1>2. n \in Node /\ Routed(n)
  BY DEF Valid
<1>3. CASE IsCanonicalNext(n, b) /\ m = x
  <2>1. b /= Genesis /\ Parent[b] = n.best
    BY <1>3 DEF IsCanonicalNext
  <2>2. /\ x \in Node /\ x.best = b /\ x.worker = n.worker /\ x.spool = n.spool
        /\ x.cur = n.cur /\ x.bind = n.bind
    BY <1>2 DEF Node
  <2> HIDE DEF x
  <2>3. Valid(m) /\ ChainStep(n, m)
    BY <1>2, <1>3, <2>1, <2>2 DEF Valid, Routed, ChainStep
  <2> QED BY <1>3, <2>2, <2>3 DEF m
<1>4. CASE m = n
  BY <1>4 DEF m, ChainStep
<1>5. CASE m = y
  <2>1. /\ y \in Node /\ y.best = n.best /\ y.worker = n.worker /\ y.spool = n.spool
        /\ y.cur = n.cur /\ y.bind = n.bind
    BY <1>2 DEF Node
  <2> HIDE DEF y
  <2> QED BY <1>2, <1>5, <2>1 DEF m, Valid, Routed, ChainStep
<1> QED BY <1>1, <1>3, <1>4, <1>5

\* record_canonical_recovery_root, with the reconciliation after it.
LEMMA ProveRootOK ==
    ASSUME NEW n, Valid(n), NEW p \in Peer, NEW b \in Block
    PROVE  \E q : /\ Valid(q) /\ Same(n, q) /\ Lineage(n, q)
                  /\ Proceeds(q, ProveRoot(n, p, b)) /\ SpoolKept(q, ProveRoot(n, p, b))
<1> DEFINE k == n.bind[p]
           c == n.cur[k]
           d == [c EXCEPT !.root = b]
           f == [n.cur EXCEPT ![k] = d]
           u == [n EXCEPT !.cur = f]
           q == Persist(u)
           m == ProveRoot(n, p, b)
<1>1. \/ k \in DOMAIN n.cur /\ m = Reconcile(q, p)
      \/ m = n
  BY DEF ProveRoot, RootProved, Bound
<1> HIDE DEF m
<1>2. CASE m = n
  <2>1. Valid(n) /\ Same(n, n) /\ Lineage(n, n) /\ Proceeds(n, n) /\ SpoolKept(n, n)
    BY SameTrans DEF Proceeds, SpoolKept
  <2> QED BY <1>2, <2>1 DEF m
<1>3. CASE k \in DOMAIN n.cur /\ m = Reconcile(q, p)
  <2>1. c \in Cursor /\ c.tip = k /\ InReach(c)
    BY <1>3, CursorElim
  <2>2. \A t \in DOMAIN n.cur : n.cur[t] \in Cursor /\ n.cur[t].tip = t /\ InReach(n.cur[t])
    BY CursorElim
  <2> HIDE DEF c
  <2>3. /\ d \in Cursor /\ d.tip = k /\ d.samples = c.samples
        /\ d.ns = c.ns /\ d.anc = c.anc
    BY <2>1 DEF Cursor, Maybe
  <2> HIDE DEF d
  <2>4. InReach(d)
    BY <2>1, <2>3 DEF InReach
  <2>5. /\ n.cur \in [DOMAIN n.cur -> Cursor]
    BY NodeElim, JobsElim DEF Valid
  <2>6. /\ f \in [DOMAIN n.cur -> Cursor] /\ f[k] = d
        /\ \A t \in DOMAIN n.cur \ {k} : f[t] = n.cur[t]
    BY <1>3, <2>3, <2>5
  <2> HIDE DEF f
  <2>7. \A t \in DOMAIN n.cur : f[t].tip = t /\ InReach(f[t])
    BY <2>2, <2>3, <2>4, <2>6
  <2>8. Valid(u) /\ Same(n, u) /\ u.cur = f
    BY <2>6, <2>7, RewriteOK
  <2> HIDE DEF u
  <2>9. Valid(q) /\ Same(u, q) /\ q.cur = f
    BY <2>8, PersistOK DEF Valid
  <2> HIDE DEF q
  <2>10. Lineage(n, q)
    BY <2>3, <2>6, <2>9 DEF Lineage, c
  <2>11. Valid(m) /\ Keeps(q, m) /\ SpoolKept(q, m)
    BY <1>3, <2>9, ReconcileOK
  <2>12. Proceeds(q, m)
    BY <2>11 DEF Proceeds, Keeps
  <2>13. Same(n, q)
    BY <2>8, <2>9, SameTrans
  <2> QED BY <2>9, <2>10, <2>11, <2>12, <2>13 DEF m
<1> QED BY <1>1, <1>2, <1>3

\* A body that goes through import_network_block.
LEMMA OrdinaryBodyOK ==
    ASSUME Inv, NEW p \in Peer, OrdinaryBody(p)
    PROVE  Handles
<1> DEFINE b == Frame(p).block
           n == Imported(db, b)
           m == ProveRoot(n, p, b)
           next == Number[b] + 1
           count == sess[p].count + 1
<1>1. Valid(db) /\ SessionsOK
  BY DEF Inv
<1>2. b \in Block /\ count \in Nat
  <2>1. sess[p].inbox /= <<>> /\ Frame(p).kind = "body"
    BY DEF OrdinaryBody, Receives, Frame
  <2> QED BY <1>1, <2>1, FrameOK, SMTT(30)
<1>3. \/ End(p, db)
      \/ lease' = lease /\ AskFrom(p, m, next, 0)
      \/ lease' = lease /\ Continue(p, m, Nothing, count)
  BY DEF OrdinaryBody, AfterOrdinary
<1> HIDE DEF b, count
<1>4. /\ Valid(n) /\ ChainStep(db, n) /\ n.worker = db.worker
      /\ n.spool = db.spool /\ n.cur = db.cur
  BY <1>1, <1>2, ImportedOK
<1> HIDE DEF n
<1>5. PICK q : /\ Valid(q) /\ Same(n, q) /\ Lineage(n, q)
               /\ Proceeds(q, m) /\ SpoolKept(q, m)
  BY <1>2, <1>4, ProveRootOK
<1> HIDE DEF m
<1>6. Goes(db, m)
  <2>1. q.best = n.best /\ q.spool = db.spool /\ q.worker = db.worker
    BY <1>4, <1>5 DEF Same
  <2>2. ChainStep(db, q) /\ ThreadStep(db, q)
    BY <1>4, <2>1 DEF ChainStep, ThreadStep
  <2>3. Lineage(db, q)
    BY <1>4, <1>5 DEF Lineage
  <2> QED BY <1>5, <2>1, <2>2, <2>3, GoesOn
<1>7. next \in Nat
  BY <1>2, HeaderTypes, SMTT(30)
<1> HIDE DEF next
<1>8. CASE End(p, db)
  BY <1>1, <1>8, GoesSelf, EndOK
<1>9. CASE lease' = lease /\ AskFrom(p, m, next, 0)
  BY <1>1, <1>6, <1>7, <1>9, AskFromOK DEF Handles, SessionsOK
<1>10. CASE lease' = lease /\ Continue(p, m, Nothing, count)
  BY <1>1, <1>2, <1>6, <1>10, ContinueOK DEF Handles, SessionsOK
<1> QED BY <1>3, <1>8, <1>9, <1>10

\* WitnessHeadersResponse
LEMMA WitnessAnswersOK ==
    ASSUME Inv, NEW p \in Peer, NEW late, NEW first, WitnessAnswers(p, late, first)
    PROVE  Handles
<1> DEFINE t == Frame(p).tip
           heads == Frame(p).heads
           c == db.cur[t]
           d == WitnessSample(c, heads)
           q == Put(db, d)
<1>1. Valid(db) /\ SessionsOK /\ db \in Node /\ Routed(db)
  BY DEF Inv, Valid
<1>2. heads \in SUBSET Block
  <2>1. sess[p].inbox /= <<>> /\ Frame(p).kind = "headers"
    BY DEF WitnessAnswers, Receives, Frame
  <2> QED BY <1>1, <2>1, FrameOK
<1>3. \/ Bail(p, db)
      \/ t \in DOMAIN db.cur /\ Compared(p, c, heads, late, first)
  BY DEF WitnessAnswers
<1> HIDE DEF t, heads
<1>4. CASE Bail(p, db)
  BY <1>1, <1>4, GoesSelf, BailOK
<1>5. CASE t \in DOMAIN db.cur /\ Compared(p, c, heads, late, first)
  <2>1. c \in Cursor /\ InReach(c) /\ c.tip = t
    BY <1>1, <1>5, CursorElim
  <2>2. \/ End(p, StartRecovery(Persist(q), late, first)) \/ End(p, Persist(q))
        \/ Bail(p, Persist(q)) \/ Bail(p, q)
    BY <1>5 DEF Compared, Witnessed
  <2> HIDE DEF c
  <2>3. d \in Cursor /\ InReach(d)
    BY <1>2, <2>1, WitnessSampleOK
  <2> HIDE DEF d
  <2>4. Valid(q) /\ Same(db, q)
    BY <1>1, <2>3, PutOK DEF Valid
  <2> HIDE DEF q
  <2>5. /\ Goes(db, q) /\ Goes(db, Persist(q))
        /\ Goes(db, StartRecovery(Persist(q), late, first))
    BY <1>1, <2>4, GoesSelf, GoesSame, GoesFlush, GoesStart
  <2> QED BY <1>1, <2>2, <2>5, EndOK, BailOK
<1> QED BY <1>3, <1>4, <1>5

\* The session ends without a frame.
LEMMA SessionEndsOK ==
    ASSUME Inv, NEW p \in Peer, PeerCloses(p) \/ ReadTimeout(p) \/ SessionLost(p)
    PROVE  Handles
<1> DEFINE m == RecordFailure(db, p)
<1>1. Valid(db) /\ SessionsOK
  BY DEF Inv
<1>2. End(p, db) \/ End(p, m)
  BY DEF PeerCloses, ReadTimeout, SessionLost
<1>3. Valid(m) /\ Same(db, m)
  BY <1>1, RecordFailureOK
<1> HIDE DEF m
<1>4. Goes(db, db) /\ Goes(db, m)
  BY <1>1, <1>3, GoesSelf, GoesSame
<1> QED BY <1>1, <1>2, <1>4, EndOK

-----------------------------------------------------------------------------
(* Every step keeps the invariant and what the action properties say.      *)

ClearsMark ==
    db.worker.pc /= "idle" /\ db'.worker.pc = "idle" =>
        \A t \in DOMAIN db'.cur \cap {db.worker.tip} :
            LET c == db'.cur[t] IN
            Started(c) /\ Finished(c) /\ c.state = "replaying" =>
                OnChain(db', t) /\ faults' = Append(faults, "uncleared")

SpoolStep ==
    faults' /= Append(faults, "crash") =>
        \A ns \in Block : db.spool[ns] /= {} /\ db'.spool[ns] = {} =>
            \E t \in DOMAIN db.cur : LET c == db.cur[t] IN
                /\ c.ns = ns
                /\ \/ \E b \in {t} \cup db.spool[ns] \cup db.spool[t] : OnChain(db', b)
                   \/ Started(c) /\ ~ OnChain(db', c.anc)

WorkStep == TotalWork[db'.best] >= TotalWork[db.best]

Sound == Inv' /\ WorkStep /\ ClearsMark /\ SpoolStep

FaultsOK == faults \in Seq(FaultKind) /\ Len(faults) <= MaxFaults

RemoteOK == remote \in [Peer -> Seq(Block) \ {<<>>}]

\* Faults stay within their bound.
LEMMA FaultOK ==
    ASSUME FaultsOK, NEW kind \in FaultKind, Fault(kind)
    PROVE  FaultsOK'
<1>1. MaxFaults \in Nat
  BY RecoveryAssumption
<1>2. Len(faults) < MaxFaults /\ faults' = Append(faults, kind)
  BY DEF Fault
<1>3. Append(faults, kind) \in Seq(FaultKind)
      /\ Len(Append(faults, kind)) = Len(faults) + 1 /\ Len(faults) \in Nat
  BY SMTT(30) DEF FaultsOK
<1> QED BY <1>1, <1>2, <1>3, SMTT(30) DEF FaultsOK

\* A block on top of the chain keeps the ancestors and adds work.
LEMMA ChainStepOK ==
    ASSUME NEW n, NEW m, n.best \in Block, ChainStep(n, m)
    PROVE  /\ TotalWork[m.best] >= TotalWork[n.best]
           /\ \A b \in Block : IsAncestor(b, n.best) => IsAncestor(b, m.best)
<1>1. CASE m.best = n.best
  BY <1>1, HeaderTypes, SMTT(30)
<1>2. CASE m.best \in Block /\ m.best /= Genesis /\ Parent[m.best] = n.best
  <2>1. TotalWork[m.best] = TotalWork[n.best] + Work[m.best]
    BY <1>2, HeaderStep
  <2>2. TotalWork[n.best] \in Nat /\ Work[m.best] \in Nat
    BY <1>2, HeaderTypes
  <2>3. IsAncestor(n.best, m.best)
    BY <1>2, ParentAncestor
  <2>4. \A b \in Block : IsAncestor(b, n.best) => IsAncestor(b, m.best)
    BY <1>2, <2>3, AncestorOrder
  <2> QED BY <2>1, <2>2, <2>4, SMTT(30)
<1> QED BY <1>1, <1>2 DEF ChainStep

\* A step of the node that handles a frame keeps the invariant, the work, the
\* mark of the thread and the spools that are needed.
LEMMA GoesSound ==
    ASSUME Inv, Goes(db, db'), SessionsOK', RemoteOK', FaultsOK'
    PROVE  Sound
<1>1. Valid(db) /\ Valid(db') /\ ChainStep(db, db') /\ ThreadStep(db, db')
  BY DEF Inv, Goes
<1>2. db.best \in Block /\ WorkerSound(db)
  BY <1>1, NodeElim DEF Inv, Valid
<1>3. /\ TotalWork[db'.best] >= TotalWork[db.best]
      /\ \A b \in Block : IsAncestor(b, db.best) => IsAncestor(b, db'.best)
  BY <1>1, <1>2, ChainStepOK
<1>4. WorkerSound(db')
  <2>1. CASE db'.worker = db.worker
    BY <1>2, <1>3, <2>1 DEF WorkerSound
  <2>2. CASE db'.worker.pc = "assemble" /\ db'.worker.tip \in Block
    BY <2>2 DEF WorkerSound
  <2> QED BY <1>1, <2>1, <2>2 DEF ThreadStep
<1>5. Inv'
  BY <1>1, <1>4 DEF Inv, RemoteOK, FaultsOK, Valid, Routed, WorkerSound
<1>6. ClearsMark
  BY <1>1 DEF ThreadStep, ClearsMark
<1>7. SpoolStep
  BY DEF Goes, Survives, SpoolStep
<1> QED BY <1>3, <1>5, <1>6, <1>7 DEF Sound, WorkStep

\* What the proofs of the steps take from the invariant.
LEMMA InvParts == Inv => /\ Valid(db) /\ db \in Node /\ WorkerSound(db) /\ SessionsOK
                         /\ RemoteOK /\ FaultsOK /\ db.worker \in Worker /\ db.best \in Block
BY NodeElim DEF Inv, Valid, RemoteOK, FaultsOK

\* A frame is handled.
LEMMA SessionStepOK ==
    ASSUME Inv, NEW p \in Peer, SessionStep(p)
    PROVE  Sound
<1>1. Handles
  BY HelloOK, RangeBodyOK, WitnessAnswersOK, FoundAncestorOK, UnrequestedBodyOK,
     OrdinaryBodyOK, SessionEndsOK DEF SessionStep
<1>2. remote' = remote /\ faults' = faults
  BY DEF SessionStep, Hello, RangeBody, WitnessAnswers, FoundAncestor, UnrequestedBody,
         OrdinaryBody, PeerCloses, ReadTimeout, Receives
<1>3. RemoteOK' /\ FaultsOK'
  BY <1>2, InvParts DEF RemoteOK, FaultsOK
<1> QED BY <1>1, <1>3, GoesSound DEF Handles

\* A connection is lost.
LEMMA SessionLostOK ==
    ASSUME Inv, NEW p \in Peer, SessionLost(p)
    PROVE  Sound
<1>1. Handles
  BY SessionEndsOK
<1>2. RemoteOK' /\ FaultsOK'
  BY InvParts, FaultOK DEF SessionLost, RemoteOK, FaultKind
<1> QED BY <1>1, <1>2, GoesSound DEF Handles

\* A peer's own chain grows.
LEMMA PeerMovesOK ==
    ASSUME Inv, NEW p \in Peer, PeerMoves(p)
    PROVE  Sound
<1>1. /\ Valid(db) /\ SessionsOK /\ FaultsOK /\ RemoteOK
  BY InvParts
<1>2. RemoteOK'
  <2>1. remote[p] \in Seq(Block) /\ Len(remote[p]) > 1
    BY <1>1 DEF RemoteOK, PeerMoves
  <2>2. Tail(remote[p]) \in Seq(Block) /\ Len(Tail(remote[p])) = Len(remote[p]) - 1
    BY <2>1, SMTT(30)
  <2>3. Tail(remote[p]) /= <<>>
    <3>1. Len(<<>>) = 0
      OBVIOUS
    <3>2. Len(Tail(remote[p])) /= 0
      <4> DEFINE k == Len(remote[p])
      <4>1. k > 1 /\ k \in Nat
        BY <2>1, SMTT(30)
      <4> HIDE DEF k
      <4>2. k - 1 /= 0
        BY <4>1, SMTT(30)
      <4> QED BY <2>2, <4>2 DEF k
    <3> QED BY <3>1, <3>2
  <2> QED BY <1>1, <2>2, <2>3 DEF RemoteOK, PeerMoves
<1>3. db' = db /\ SessionsOK' /\ FaultsOK'
  BY <1>1 DEF PeerMoves, SessionsOK, FaultsOK
<1>4. Goes(db, db')
  BY <1>1, <1>3, GoesSelf
<1> QED BY <1>2, <1>3, <1>4, GoesSound

\* A peer answers, and the node has made no step.
LEMMA PeerServesSound ==
    ASSUME Inv, NEW p \in Peer, PeerServes(p)
    PROVE  Sound
<1>1. Inv'
  BY PeerServesOK
<1>2. db' = db
  BY DEF PeerServes
<1>3. Goes(db, db')
  BY <1>2, InvParts, GoesSelf
<1>4. SessionsOK' /\ RemoteOK' /\ FaultsOK'
  BY <1>1 DEF Inv, RemoteOK, FaultsOK, SessionsOK
<1> QED BY <1>3, <1>4, GoesSound

\* A block from gossip extends the chain.
LEMMA GossipOK ==
    ASSUME Inv, NEW b \in Gossiped, Gossip(b)
    PROVE  Sound
<1> DEFINE m == [db EXCEPT !.best = b, !.cand = @ \ {b}]
<1>1. b \in Block
  BY RecoveryAssumption
<1>2. db \in Node /\ Routed(db) /\ SessionsOK /\ RemoteOK /\ FaultsOK
  BY InvParts DEF Valid
<1>3. /\ db' = m /\ sess' = sess /\ lease' = lease /\ remote' = remote /\ faults' = faults
      /\ b /= Genesis /\ Parent[b] = db.best
  BY DEF Gossip, IsCanonicalNext
<1>4. /\ m \in Node /\ m.best = b /\ m.worker = db.worker /\ m.spool = db.spool
      /\ m.cur = db.cur /\ m.bind = db.bind
  BY <1>1, <1>2 DEF Node
<1> HIDE DEF m
<1>5. Goes(db, m)
  BY <1>1, <1>2, <1>3, <1>4 DEF Goes, Valid, Routed, ChainStep, ThreadStep, Survives
<1>6. SessionsOK' /\ RemoteOK' /\ FaultsOK'
  BY <1>2, <1>3 DEF SessionsOK, RemoteOK, FaultsOK
<1> QED BY <1>3, <1>5, <1>6, GoesSound

\* The process stops and starts again.
LEMMA CrashOK ==
    ASSUME Inv, NEW h, NEW late, NEW first, Crash(h, late, first)
    PROVE  Sound
<1> DEFINE m == StartRecovery(RestoredSpools(Restarted(Torn(db, h), Normalized(db.saved))),
                              late, first)
<1>1. /\ Valid(db) /\ SessionsOK /\ RemoteOK /\ FaultsOK /\ db.best \in Block
  BY InvParts
<1>2. /\ db' = m /\ sess' = [p \in Peer |-> Closed] /\ lease' = NoPeer
      /\ remote' = remote /\ Fault("crash") /\ faults' = Append(faults, "crash")
  BY DEF Crash, Fault
<1>3. /\ Valid(m) /\ m.best = db.best
      /\ \/ m.worker = Idle /\ \A t \in DOMAIN m.cur :
                Started(m.cur[t]) /\ Finished(m.cur[t]) => m.cur[t].state /= "replaying"
         \/ /\ m.worker.pc = "assemble" /\ m.worker.tip \in Block
            /\ m.worker.base = NoBlock
  BY <1>1, RestartOK
<1> HIDE DEF m
<1>4. WorkerSound(db') /\ Valid(db')
  BY <1>2, <1>3, SMTT(30) DEF WorkerSound, Idle
<1>5. SessionsOK'
  <2>1. Closed \in Session
    BY SMTT(30) DEF Closed, Session
  <2> QED BY <1>2, <2>1 DEF SessionsOK, Route
<1>6. RemoteOK' /\ FaultsOK'
  BY <1>1, <1>2, FaultOK DEF RemoteOK, FaultKind
<1>7. Inv'
  BY <1>4, <1>5, <1>6 DEF Inv, RemoteOK, FaultsOK, Valid, Routed, WorkerSound
<1>8. WorkStep
  BY <1>1, <1>2, <1>3, HeaderTypes, SMTT(30) DEF WorkStep
<1>9. ClearsMark
  BY <1>2, <1>3 DEF ClearsMark
<1>10. SpoolStep
  BY <1>2 DEF SpoolStep
<1> QED BY <1>7, <1>8, <1>9, <1>10 DEF Sound

\* The fork point of a branch has no more work than its tip.
LEMMA ForkPointOK ==
    ASSUME NEW n \in Node, NEW b \in Block
    PROVE  TotalWork[ForkPoint(n, b)] <= TotalWork[b]
<1> DEFINE shared == {h \in 0..Number[b] : OnChain(n, Ancestor[b][h])}
           g == CHOOSE h \in shared : \A m \in shared : m <= h
<1>1. Number[b] \in Nat /\ n.best \in Block
  BY HeaderTypes, NodeElim
<1>2. 0 \in shared
  <2>1. Ancestor[b][0] = Genesis
    BY BlockTreeAssumption
  <2>2. OnChain(n, Genesis)
    BY <1>1, GenesisAncestor, RecoveryAssumption DEF OnChain
  <2> QED BY <1>1, <2>1, <2>2, SMTT(30)
<1>3. shared \in SUBSET (0..Number[b])
  OBVIOUS
<1>4. ForkPoint(n, b) = Ancestor[b][g]
  BY DEF ForkPoint
<1> HIDE DEF shared
<1>5. g \in 0..Number[b]
  BY <1>1, <1>2, <1>3, GreatestHeight
<1> HIDE DEF g
<1>6. TotalWork[Ancestor[b][g]] \in Nat /\ TotalWork[b] \in Nat
  BY <1>5, AncestorIsBlock, HeaderTypes
<1>7. CASE g < Number[b]
  BY <1>4, <1>5, <1>6, <1>7, Ancestry, SMTT(30)
<1>8. CASE g = Number[b]
  BY <1>4, <1>6, <1>8, OwnAncestor, SMTT(30)
<1> QED BY <1>1, <1>5, <1>7, <1>8, SMTT(30)

\* What a step of the thread leaves alone.
LEMMA WorkerFrame ==
    ASSUME Inv, sess' = sess, lease' = lease, remote' = remote, FaultsOK',
           Valid(db'), WorkerSound(db')
    PROVE  Inv'
<1>1. SessionsOK' /\ RemoteOK'
  BY InvParts DEF SessionsOK, RemoteOK
<1> QED BY <1>1 DEF Inv, RemoteOK, FaultsOK, Valid, Routed, WorkerSound

\* The thread stops and sets the state of its job.
LEMMA WorkerStopsOK ==
    ASSUME Inv, sess' = sess, lease' = lease, remote' = remote, FaultsOK',
           faults' = faults \/ faults' = Append(faults, "deferred"),
           NEW n, Valid(n), n.best = db.best, n.spool = db.spool,
           db' = [n EXCEPT !.worker = Idle],
           db.worker.tip \in DOMAIN n.cur => n.cur[db.worker.tip].state /= "replaying"
    PROVE  Sound
<1>1. Idle \in Worker
  BY DEF Idle, Worker, Maybe
<1>2. /\ Valid(db') /\ db'.best = db.best /\ db'.spool = db.spool /\ db'.worker = Idle
      /\ db'.cur = n.cur
  BY <1>1, WithWorker
<1>3. WorkerSound(db')
  BY <1>2, SMTT(30) DEF WorkerSound, Idle
<1>4. Inv'
  BY <1>2, <1>3, WorkerFrame
<1>5. WorkStep
  BY <1>2, InvParts, HeaderTypes, SMTT(30) DEF WorkStep
<1>6. ClearsMark
  BY <1>2 DEF ClearsMark
<1>7. SpoolStep
  BY <1>2 DEF SpoolStep
<1> QED BY <1>4, <1>5, <1>6, <1>7 DEF Sound

\* The thread goes on from one of its steps to the next.
LEMMA WorkerGoesOnOK ==
    ASSUME Inv, sess' = sess, lease' = lease, remote' = remote, faults' = faults,
           NEW w \in Worker, db' = [db EXCEPT !.worker = w],
           w.pc \in {"direct", "replay", "publish"}, w.tip \in Block,
           w.pc = "direct" => TotalWork[w.base] <= TotalWork[w.tip]
    PROVE  Sound
<1>1. Valid(db) /\ FaultsOK /\ db.best \in Block
  BY InvParts
<1>2. FaultsOK'
  BY <1>1 DEF FaultsOK
<1>3. /\ Valid(db') /\ db'.best = db.best /\ db'.spool = db.spool /\ db'.worker = w
  BY <1>1, WithWorker
<1>4. w.pc /= "idle" /\ w.pc /= "finalize"
  BY SMTT(30)
<1>5. WorkerSound(db')
  BY <1>3, <1>4 DEF WorkerSound
<1>6. Inv'
  BY <1>2, <1>3, <1>5, WorkerFrame
<1>7. WorkStep
  BY <1>1, <1>3, HeaderTypes, SMTT(30) DEF WorkStep
<1>8. ClearsMark /\ SpoolStep
  BY <1>3, <1>4 DEF ClearsMark, SpoolStep
<1> QED BY <1>6, <1>7, <1>8 DEF Sound

\* The thread ends and gives its job another state.
LEMMA WorkerLeavesOK ==
    ASSUME Inv, sess' = sess, lease' = lease, remote' = remote, FaultsOK',
           faults' = faults \/ faults' = Append(faults, "deferred"),
           NEW s \in State, s /= "replaying", WorkerStops(s)
    PROVE  Sound
<1> DEFINE b == db.worker.tip
           n == SetState(db, b, s)
<1>1. Valid(db)
  BY InvParts
<1>2. db' = [n EXCEPT !.worker = Idle]
  BY DEF WorkerStops
<1>3. /\ Valid(n) /\ Same(db, n) /\ DOMAIN n.cur = DOMAIN db.cur
      /\ b \in DOMAIN db.cur => n.cur[b].state = s
  BY <1>1, SetStateOK
<1> HIDE DEF n
<1> QED BY <1>2, <1>3, WorkerStopsOK DEF Same

\* A branch with no less work than the chain becomes the chain.
LEMMA PublishedOK ==
    ASSUME Inv, sess' = sess, lease' = lease, remote' = remote, faults' = faults,
           db.worker.tip \in Block, TotalWork[db.worker.tip] >= TotalWork[db.best],
           Published(db.worker.tip)
    PROVE  Sound
<1> DEFINE b == db.worker.tip
           w == [db.worker EXCEPT !.pc = "finalize"]
           S == {x \in db.cand : ~ IsAncestor(x, b)}
<1>1. /\ Valid(db) /\ db \in Node /\ FaultsOK /\ db.worker \in Worker
  BY InvParts
<1>2. FaultsOK'
  BY <1>1 DEF FaultsOK
<1>3. db' = [db EXCEPT !.best = b, !.worker = w, !.cand = S]
  BY <1>1 DEF Published, Node, Worker
<1>4. w \in Worker /\ w.pc = "finalize" /\ w.tip = b
  BY <1>1 DEF Worker
<1>5. S \in SUBSET Block
  BY <1>1, NodeElim
<1> HIDE DEF w, S
<1>6. /\ db' \in Node /\ db'.best = b /\ db'.spool = db.spool /\ db'.worker = w
      /\ db'.cur = db.cur /\ db'.bind = db.bind
  BY <1>1, <1>3, <1>4, <1>5, ZenonT(30) DEF Node
<1>7. Valid(db')
  BY <1>1, <1>6 DEF Valid, Routed
<1>8. WorkerSound(db')
  BY <1>4, <1>6, SelfAncestor DEF WorkerSound
<1>9. Inv'
  BY <1>2, <1>7, <1>8, WorkerFrame
<1>10. WorkStep /\ ClearsMark /\ SpoolStep
  BY <1>4, <1>6 DEF WorkStep, ClearsMark, SpoolStep
<1> QED BY <1>9, <1>10 DEF Sound

\* The thread walks from the tip to the chain and notes the tip it found; a
\* direct extension of it has no less work.
LEMMA WorkerAssemblesOK ==
    ASSUME Inv, WorkerAssembles
    PROVE  Sound
<1> DEFINE b == db.worker.tip
           pc == IF ForkPoint(db, b) = db.best THEN "direct" ELSE "replay"
           w == [db.worker EXCEPT !.base = db.best, !.pc = pc]
<1>1. /\ db \in Node /\ WorkerSound(db) /\ FaultsOK /\ db.worker \in Worker
      /\ db.best \in Block
  BY InvParts
<1>2. /\ sess' = sess /\ lease' = lease /\ remote' = remote /\ faults' = faults
      /\ db.worker.pc = "assemble"
  BY DEF WorkerAssembles, WorkerIs
<1>3. b \in Block
  BY <1>1, <1>2 DEF WorkerSound
<1>4. CASE Assembles(db, b)
  <2>1. db' = [db EXCEPT !.worker = w]
    BY <1>1, <1>4 DEF WorkerAssembles, Node, Worker
  <2>2. /\ pc \in {"direct", "replay"}
        /\ pc = "direct" => TotalWork[db.best] <= TotalWork[b]
    BY <1>1, <1>3, ForkPointOK
  <2> HIDE DEF pc
  <2>3. w \in Worker /\ w.pc = pc /\ w.tip = b /\ w.base = db.best
    BY <1>1, <2>2 DEF Worker, Maybe
  <2> HIDE DEF w
  <2> QED BY <1>2, <1>3, <2>1, <2>2, <2>3, WorkerGoesOnOK
<1>5. CASE ~ Assembles(db, b)
  <2>1. WorkerStops("waiting-for-provider") /\ FaultsOK'
    BY <1>1, <1>2, <1>5 DEF WorkerAssembles, FaultsOK
  <2>2. "waiting-for-provider" \in State /\ "waiting-for-provider" /= "replaying"
    BY SMTT(30) DEF State
  <2> QED BY <1>2, <2>1, <2>2, WorkerLeavesOK
<1> QED BY <1>4, <1>5

\* A branch that cannot be published at once is complete.
LEMMA CompleteIsState == "complete" \in State /\ "complete" /= "replaying"
BY SMTT(30) DEF State

\* The direct import publishes on the tip it was assembled on, or not at all.
LEMMA WorkerExtendsOK ==
    ASSUME Inv, WorkerExtends
    PROVE  Sound
<1> DEFINE b == db.worker.tip
           w == [db.worker EXCEPT !.pc = "replay"]
<1>1. /\ db \in Node /\ WorkerSound(db) /\ FaultsOK /\ db.worker \in Worker
      /\ db.best \in Block
  BY InvParts
<1>2. /\ sess' = sess /\ lease' = lease /\ remote' = remote /\ faults' = faults
      /\ db.worker.pc = "direct"
  BY DEF WorkerExtends, WorkerIs
<1>3. b \in Block /\ TotalWork[db.worker.base] <= TotalWork[b]
  BY <1>1, <1>2, SMTT(30) DEF WorkerSound
<1>4. CASE db.worker.base = db.best /\ Published(b)
  <2>1. TotalWork[b] >= TotalWork[db.best]
    BY <1>1, <1>3, <1>4, HeaderTypes, SMTT(30)
  <2> QED BY <1>2, <1>3, <1>4, <2>1, PublishedOK
<1>5. CASE WorkerStops("complete")
  BY <1>1, <1>2, <1>5, CompleteIsState, WorkerLeavesOK DEF FaultsOK
<1>6. CASE db' = [db EXCEPT !.worker.pc = "replay"]
  <2>1. db' = [db EXCEPT !.worker = w]
    BY <1>1, <1>6 DEF Node, Worker
  <2>2. w \in Worker /\ w.pc = "replay" /\ w.tip = b
    BY <1>1 DEF Worker
  <2> HIDE DEF w
  <2>3. w.pc /= "direct"
    BY <2>2, SMTT(30)
  <2> QED BY <1>2, <1>3, <2>1, <2>2, <2>3, WorkerGoesOnOK
<1> QED BY <1>4, <1>5, <1>6 DEF WorkerExtends

\* The replay starts from the active tip.
LEMMA WorkerReplaysOK ==
    ASSUME Inv, WorkerReplays
    PROVE  Sound
<1> DEFINE w == [db.worker EXCEPT !.base = db.best, !.pc = "publish"]
<1>1. /\ db \in Node /\ WorkerSound(db) /\ db.worker \in Worker /\ db.best \in Block
  BY InvParts
<1>2. /\ sess' = sess /\ lease' = lease /\ remote' = remote /\ faults' = faults
      /\ db.worker.pc = "replay"
  BY DEF WorkerReplays, WorkerIs
<1>3. db.worker.tip \in Block
  BY <1>1, <1>2, SMTT(30) DEF WorkerSound
<1>4. db' = [db EXCEPT !.worker = w]
  BY <1>1 DEF WorkerReplays, Node, Worker
<1>5. w \in Worker /\ w.pc = "publish" /\ w.tip = db.worker.tip
  BY <1>1 DEF Worker, Maybe
<1> HIDE DEF w
<1>6. w.pc /= "direct"
  BY <1>5, SMTT(30)
<1> QED BY <1>2, <1>3, <1>4, <1>5, <1>6, WorkerGoesOnOK

\* The thread publishes the branch under the storage mutex, if it still prevails.
LEMMA WorkerPublishesOK ==
    ASSUME Inv, WorkerPublishes
    PROVE  Sound
<1> DEFINE b == db.worker.tip
           n == Reject(db, b)
<1>1. /\ Valid(db) /\ WorkerSound(db) /\ FaultsOK /\ db.best \in Block
  BY InvParts
<1>2. /\ sess' = sess /\ lease' = lease /\ remote' = remote /\ faults' = faults
      /\ db.worker.pc = "publish"
  BY DEF WorkerPublishes, WorkerIs
<1>3. b \in Block /\ FaultsOK'
  BY <1>1, <1>2, SMTT(30) DEF WorkerSound, FaultsOK
<1>4. CASE WorkerStops("complete")
  BY <1>2, <1>3, <1>4, CompleteIsState, WorkerLeavesOK
<1>5. CASE Outranks(b, db.best) /\ Published(b)
  <2>1. TotalWork[b] >= TotalWork[db.best]
    BY <1>1, <1>3, <1>5, HeaderTypes, SMTT(30) DEF Outranks
  <2> QED BY <1>2, <1>3, <1>5, <2>1, PublishedOK
<1>6. CASE db' = [n EXCEPT !.worker = Idle]
  <2>1. Valid(n) /\ Same(db, n) /\ b \notin DOMAIN n.cur
    BY <1>1, RejectOK
  <2> HIDE DEF n
  <2> QED BY <1>2, <1>3, <1>6, <2>1, WorkerStopsOK DEF Same
<1> QED BY <1>4, <1>5, <1>6 DEF WorkerPublishes

\* The thread gives up for now and leaves the job complete.
LEMMA WorkerDefersOK ==
    ASSUME Inv, WorkerDefers
    PROVE  Sound
<1>1. /\ sess' = sess /\ lease' = lease /\ remote' = remote
      /\ Fault("deferred") /\ WorkerStops("complete")
  BY DEF WorkerDefers, WorkerIs
<1>2. FaultsOK' /\ faults' = Append(faults, "deferred")
  BY <1>1, InvParts, FaultOK DEF Fault, FaultKind
<1> QED BY <1>1, <1>2, CompleteIsState, WorkerLeavesOK

\* finalize_published_recovery: the spool that goes is the one of a canonical tip.
LEMMA WorkerFinalizesOK ==
    ASSUME Inv, WorkerFinalizes
    PROVE  Sound
<1> DEFINE t == db.worker.tip
           q == ClearSpool(db, db.cur[t].ns)
           r == Forget(q, {t})
           u == Rebind(r, {t}, NoBlock)
           v == Persist(u)
<1>1. /\ Valid(db) /\ db \in Node /\ Routed(db) /\ WorkerSound(db) /\ FaultsOK
      /\ db.best \in Block
  BY InvParts DEF Valid
<1>2. /\ sess' = sess /\ lease' = lease /\ remote' = remote /\ faults' = faults
      /\ db.worker.pc = "finalize"
  BY DEF WorkerFinalizes, WorkerIs
<1>3. t \in Block /\ IsAncestor(t, db.best) /\ t /= NoBlock
  BY <1>1, <1>2, RecoveryAssumption DEF WorkerSound
<1>4. FaultsOK'
  BY <1>1, <1>2 DEF FaultsOK
<1>5. CASE t \notin DOMAIN db.cur
  <2>1. db' = [db EXCEPT !.worker = Idle]
    BY <1>5 DEF WorkerFinalizes
  <2> QED BY <1>1, <1>2, <1>4, <1>5, <2>1, WorkerStopsOK
<1>6. CASE t \in DOMAIN db.cur
  <2>1. db' = [v EXCEPT !.worker = Idle]
    BY <1>6 DEF WorkerFinalizes
  <2>2. db.cur[t].ns \in Block
    BY <1>1, <1>6, CursorElim DEF Cursor
  <2>3. /\ q \in Node /\ q.best = db.best /\ q.worker = db.worker
        /\ q.cur = db.cur /\ q.bind = db.bind
        /\ \A k \in Block \ {db.cur[t].ns} : q.spool[k] = db.spool[k]
    BY <1>1, <2>2, ClearSpoolOK
  <2> HIDE DEF q
  <2>4. /\ r \in Node /\ Same(q, r) /\ r.bind = q.bind /\ DOMAIN r.cur = DOMAIN q.cur \ {t}
    BY <2>3, ForgetOK
  <2> HIDE DEF r
  <2>5. /\ u \in Node /\ Same(r, u) /\ u.cur = r.cur
        /\ \A p \in Peer : u.bind[p] = IF r.bind[p] \in {t} THEN NoBlock ELSE r.bind[p]
    BY <2>4, RebindOK, SMTT(30) DEF Maybe
  <2> HIDE DEF u
  <2>6. Routed(u)
    BY <1>1, <2>3, <2>4, <2>5 DEF Routed
  <2>7. Valid(v) /\ Same(u, v) /\ v.cur = u.cur
    BY <2>5, <2>6, PersistOK DEF Valid
  <2> HIDE DEF v
  <2>8. v.best = db.best /\ v.spool = q.spool /\ t \notin DOMAIN v.cur
    BY <2>3, <2>4, <2>5, <2>7 DEF Same
  <2>9. Idle \in Worker
    BY DEF Idle, Worker, Maybe
  <2>10. /\ Valid(db') /\ db'.best = db.best /\ db'.spool = q.spool /\ db'.worker = Idle
         /\ db'.cur = v.cur
    BY <2>1, <2>7, <2>8, <2>9, WithWorker
  <2>11. WorkerSound(db')
    BY <2>10, SMTT(30) DEF WorkerSound, Idle
  <2>12. Inv'
    BY <1>2, <1>4, <2>10, <2>11, WorkerFrame
  <2>13. WorkStep
    BY <1>1, <2>10, HeaderTypes, SMTT(30) DEF WorkStep
  <2>14. ClearsMark
    BY <2>8, <2>10 DEF ClearsMark
  <2>15. SpoolStep
    <3>1. OnChain(db', t)
      BY <1>3, <2>10 DEF OnChain
    <3> QED BY <1>6, <2>3, <2>10, <3>1 DEF SpoolStep
  <2> QED BY <2>12, <2>13, <2>14, <2>15 DEF Sound
<1> QED BY <1>5, <1>6

\* clear_recovery_spool_for_tip fails: bodies that went are those of a canonical
\* tip, and the mark that stays is on a job whose tip is canonical.
LEMMA WorkerLeavesSpoolOK ==
    ASSUME Inv, NEW h, WorkerLeavesSpool(h)
    PROVE  Sound
<1> DEFINE t == db.worker.tip
           k == db.cur[t].ns
           S == {x \in db.spool[k] : Number[x] > h}
           sp == [db.spool EXCEPT ![k] = S]
<1>1. /\ Valid(db) /\ db \in Node /\ WorkerSound(db) /\ FaultsOK /\ db.best \in Block
  BY InvParts
<1>2. /\ sess' = sess /\ lease' = lease /\ remote' = remote /\ Fault("uncleared")
      /\ db.worker.pc = "finalize" /\ t \in DOMAIN db.cur
  BY DEF WorkerLeavesSpool, WorkerIs
<1>3. t \in Block /\ IsAncestor(t, db.best)
  BY <1>1, <1>2, SMTT(30) DEF WorkerSound
<1>4. FaultsOK' /\ faults' = Append(faults, "uncleared")
  BY <1>1, <1>2, FaultOK DEF Fault, FaultKind
<1>5. k \in Block /\ db.spool \in [Block -> SUBSET Block]
  BY <1>1, <1>2, CursorElim, NodeElim DEF Cursor
<1>6. db' = [db EXCEPT !.worker = Idle, !.spool = sp]
  BY <1>1 DEF WorkerLeavesSpool, Node
<1>7. sp \in [Block -> SUBSET Block] /\ \A x \in Block \ {k} : sp[x] = db.spool[x]
  BY <1>5
<1>8. Idle \in Worker
  BY DEF Idle, Worker, Maybe
<1> HIDE DEF sp
<1>9. /\ db' \in Node /\ db'.best = db.best /\ db'.spool = sp /\ db'.worker = Idle
      /\ db'.cur = db.cur /\ db'.bind = db.bind
  BY <1>1, <1>6, <1>7, <1>8 DEF Node
<1>10. Valid(db')
  BY <1>1, <1>9 DEF Valid, Routed
<1>11. WorkerSound(db')
  BY <1>9, SMTT(30) DEF WorkerSound, Idle
<1>12. Inv'
  BY <1>2, <1>4, <1>10, <1>11, WorkerFrame
<1>13. WorkStep
  BY <1>1, <1>9, HeaderTypes, SMTT(30) DEF WorkStep
<1>14. OnChain(db', t)
  BY <1>3, <1>9, RecoveryAssumption DEF OnChain
<1>15. ClearsMark
  BY <1>4, <1>14 DEF ClearsMark
<1>16. SpoolStep
  BY <1>2, <1>7, <1>9, <1>14 DEF SpoolStep
<1> QED BY <1>12, <1>13, <1>15, <1>16 DEF Sound

\* Every step, from a state of the invariant.
LEMMA StepSound ==
    ASSUME Inv, Next
    PROVE  Sound
BY SessionStepOK, PeerServesSound, PeerMovesOK, SessionLostOK, WorkerAssemblesOK,
   WorkerExtendsOK, WorkerReplaysOK, WorkerPublishesOK, WorkerFinalizesOK, WorkerDefersOK,
   WorkerLeavesSpoolOK, GossipOK, CrashOK
   DEF Next, WorkerStep

\* The node starts without jobs, sessions or a recovery thread.
LEMMA InitOK == Init => Inv
<1> SUFFICES ASSUME Init PROVE Inv
  OBVIOUS
<1> DEFINE none == [t \in {} |-> NewCursor(StartTip)]
<1>1. none \in Jobs /\ DOMAIN none = {}
  <2>1. none \in [{} -> Cursor] /\ DOMAIN none = {}
    OBVIOUS
  <2>2. {} \in SUBSET Block
    OBVIOUS
  <2> HIDE DEF none
  <2> QED BY <2>1, <2>2, JobsIntro
<1>2. StartTip \in Block /\ RemoteTips \subseteq [Peer -> Seq(Block) \ {<<>>}] /\ MaxFaults \in Nat
  BY RecoveryAssumption
<1>3. /\ db = [best |-> StartTip, cand |-> {},
               spool |-> [b \in Block |-> {}], disk |-> [b \in Block |-> {}],
               cur |-> none, saved |-> none,
               bind |-> [p \in Peer |-> NoBlock], worker |-> Idle]
      /\ sess = [p \in Peer |-> Closed] /\ lease = NoPeer /\ remote \in RemoteTips
      /\ faults = <<>>
  BY DEF Init
<1> HIDE DEF none
<1>4. Idle \in Worker /\ Closed \in Session
  BY SMTT(30) DEF Idle, Worker, Maybe, Closed, Session
<1>5. db \in Node
  BY <1>1, <1>2, <1>3, <1>4 DEF Node, Maybe
<1>6. Routed(db)
  BY <1>3 DEF Routed
<1>7. WorkerSound(db)
  BY <1>3 DEF WorkerSound, Idle
<1>8. SessionsOK
  BY <1>3, <1>4 DEF SessionsOK, Route
<1>9. faults \in Seq(FaultKind) /\ Len(faults) <= MaxFaults
  BY <1>2, <1>3, SMTT(30)
<1> QED BY <1>2, <1>3, <1>5, <1>6, <1>7, <1>8, <1>9 DEF Inv, Valid

\* The invariant speaks of the state only.
LEMMA Stutter == ASSUME Inv, UNCHANGED vars PROVE Inv'
<1>1. db' = db /\ sess' = sess /\ lease' = lease /\ remote' = remote /\ faults' = faults
  BY DEF vars
<1> QED BY <1>1 DEF Inv, Valid, Routed, WorkerSound, SessionsOK

\* For any peers, tips and faults, the states of the node keep the invariant.
THEOREM RecoveryInvariant == Spec => []Inv
<1>1. Inv /\ [Next]_vars => Inv'
  BY StepSound, Stutter DEF Sound
<1> QED BY <1>1, InitOK, PTL DEF Spec

\* A table of cursors has the type that TypeOK asks for.
LEMMA JobsTyped ==
    ASSUME NEW f \in Jobs
    PROVE  \A t \in DOMAIN f : JobType(f[t]) /\ f[t].tip = t
<1> SUFFICES ASSUME NEW t \in DOMAIN f
             PROVE  JobType(f[t]) /\ f[t].tip = t
  OBVIOUS
<1>1. f[t] \in Cursor /\ f[t].tip = t
  BY JobsElim
<1> QED BY <1>1 DEF Cursor, JobType, Maybe, Route

\* The variables have their types; every job, in memory and in the cursor file,
\* is filed under its own tip, and a route names a job that exists.
THEOREM RecoveryTypes == Spec => []TypeOK
<1>1. Inv => TypeOK
  <2> SUFFICES ASSUME Inv PROVE TypeOK
    OBVIOUS
  <2>1. db \in Node /\ Routed(db) /\ lease \in Route /\ Len(faults) <= MaxFaults
    BY DEF Inv, Valid, SessionsOK
  <2>2. /\ db.best \in Block /\ db.cand \subseteq Block
        /\ db.spool \in [Block -> SUBSET Block] /\ db.disk \in [Block -> SUBSET Block]
        /\ db.cur \in Jobs /\ db.saved \in Jobs /\ db.worker \in Worker
    BY <2>1, NodeElim
  <2>3. db.worker.pc \in {"idle", "assemble", "direct", "replay", "publish", "finalize"}
    BY <2>2 DEF Worker
  <2>4. /\ \A t \in DOMAIN db.cur : JobType(db.cur[t]) /\ db.cur[t].tip = t
        /\ \A t \in DOMAIN db.saved : JobType(db.saved[t]) /\ db.saved[t].tip = t
    BY <2>2, JobsTyped
  <2> QED BY <2>1, <2>2, <2>3, <2>4 DEF TypeOK, Routed, Route
<1> QED BY <1>1, RecoveryInvariant, PTL

\* Whatever peers, restarts, gossip and the recovery thread do in between, a
\* recovered branch never replaces one with more work (the second comparison in
\* start_candidate_recovery, under the storage lock).
THEOREM WorkKept == Spec => WorkNeverDecreases
<1>1. Inv /\ [Next]_vars => [WorkStep]_vars
  BY StepSound DEF Sound
<1> QED BY <1>1, RecoveryInvariant, PTL DEF Spec, WorkNeverDecreases, WorkStep

\* When the recovery thread has stopped, at an error, with the tip published or
\* in a crash, its job is not left marked as replaying with all its bodies there,
\* unless finalize_published_recovery could not clear the spool of a tip that is
\* canonical.
THEOREM MarkCleared == Spec => ThreadClearsMark
<1>1. Inv /\ [Next]_vars => [ClearsMark]_vars
  BY StepSound DEF Sound
<1> QED BY <1>1, RecoveryInvariant, PTL DEF Spec, ThreadClearsMark, ClearsMark

\* Short of a crash, a spool is emptied only for a job of its own whose tip or
\* body the chain has reached, or whose ancestor the chain has left
\* (reconcile_forward_recovery_spool, clear_canonical_recovery_cursor and
\* finalize_published_recovery).
THEOREM SpoolKeptWhileNeeded == Spec => SpoolSurvives
<1>1. Inv /\ [Next]_vars => [SpoolStep]_vars
  BY StepSound DEF Sound
<1> QED BY <1>1, RecoveryInvariant, PTL DEF Spec, SpoolSurvives, SpoolStep

=============================================================================
