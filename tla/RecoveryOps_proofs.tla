------------------------- MODULE RecoveryOps_proofs -------------------------
(***************************************************************************)
(* What the operations of forward recovery return, for every block tree:   *)
(* the updates of jobs, spools and candidates, the choices among them, the *)
(* requests of a session, and a restart.  Each lemma says that the result is *)
(* a state of the node again (Valid) and what it leaves alone.             *)
(***************************************************************************)
EXTENDS Recovery, BlockTree_proofs

\* Zenon proves the steps that name no other prover.
USE Zenon

-----------------------------------------------------------------------------
(* What the CHOOSEs of the model return.                                   *)

\* Blocks are finitely many, so a strict order on some of them has a maximal
\* element: max_by_key and the walks along a spool or a locator have a result.
\* The proof runs along a list of all blocks.
LEMMA MaximalElement ==
    ASSUME NEW S \in SUBSET Block, S /= {}, NEW R,
           \A x \in S : <<x, x>> \notin R,
           \A x, y, z \in S : <<x, y>> \in R /\ <<y, z>> \in R => <<x, z>> \in R
    PROVE  \E x \in S : \A y \in S : <<y, x>> \notin R
<1>1. PICK q \in Seq(Block) : \A b \in Block : \E i \in 1..Len(q) : q[i] = b
  BY RecoveryAssumption DEF IsFiniteSet
<1> DEFINE TopOf(x, n) == \A i \in 1..n : q[i] \in S => <<q[i], x>> \notin R
           bad == {n \in 0..Len(q) : \A x \in S : ~ TopOf(x, n)}
<1>2. ASSUME NEW m \in bad, \A k \in bad : m <= k
      PROVE  FALSE
  <2>1. Len(q) \in Nat /\ m \in Nat /\ m <= Len(q) /\ \A x \in S : ~ TopOf(x, m)
    BY SMTT(30)
  <2>2. \A x : TopOf(x, 0)
    BY SMTT(30)
  <2>3. m - 1 \in 0..Len(q) /\ m \in 1..m
    <3> HIDE DEF TopOf, bad
    <3> QED BY <2>1, <2>2, SMTT(30)
  <2>4. m - 1 \notin bad
    <3> HIDE DEF TopOf, bad
    <3> QED BY <1>2, <2>1, SMTT(30)
  <2>5. PICK y \in S : TopOf(y, m - 1)
    BY <2>3, <2>4
  <2>6. \A i \in 1..m : i = m \/ i \in 1..(m - 1)
    BY <2>1, SMTT(30)
  <2>7. PICK i \in 1..m : q[i] \in S /\ <<q[i], y>> \in R
    <3>1. ~ TopOf(y, m)
      BY <2>1
    <3> HIDE DEF bad
    <3> QED BY <3>1
  <2>8. q[m] \in S /\ <<q[m], y>> \in R
    BY <2>5, <2>6, <2>7
  <2>9. TopOf(q[m], m)
    <3> SUFFICES ASSUME NEW j \in 1..m, q[j] \in S, <<q[j], q[m]>> \in R
                 PROVE  FALSE
      OBVIOUS
    <3>1. j \in 1..(m - 1)
      BY <2>6, <2>8
    <3>2. <<q[j], y>> \notin R
      BY <2>5, <3>1
    <3> QED BY <2>8, <3>2
  <2> QED BY <2>1, <2>8, <2>9
<1>3. bad = {}
  <2>1. bad \in SUBSET Nat
    BY SMTT(30)
  <2> HIDE DEF bad
  <2> QED BY <1>2, <2>1, LeastNatural
<1>4. Len(q) \in 0..Len(q)
  BY SMTT(30)
<1>5. PICK x \in S : TopOf(x, Len(q))
  BY <1>3, <1>4
<1>6. ASSUME NEW y \in S
      PROVE  <<y, x>> \notin R
  <2>1. PICK i \in 1..Len(q) : q[i] = y
    BY <1>1
  <2> QED BY <1>5, <2>1
<1> QED BY <1>6

\* One of any blocks has the greatest value.
LEMMA GreatestValue ==
    ASSUME NEW S \in SUBSET Block, S /= {}, NEW f, \A x \in S : f[x] \in Int
    PROVE  \E x \in S : \A y \in S : f[y] <= f[x]
<1> DEFINE R == {e \in S \X S : f[e[1]] > f[e[2]]}
<1>1. \A x, y \in S : <<x, y>> \in R <=> f[x] > f[y]
  OBVIOUS
<1> HIDE DEF R
<1>2. \A x \in S : <<x, x>> \notin R
  BY <1>1, SMTT(30)
<1>3. \A x, y, z \in S : <<x, y>> \in R /\ <<y, z>> \in R => <<x, z>> \in R
  BY <1>1, SMTT(30)
<1>4. PICK x \in S : \A y \in S : <<y, x>> \notin R
  BY <1>2, <1>3, MaximalElement
<1>5. ASSUME NEW y \in S
      PROVE  f[y] <= f[x]
  <2>1. ~ (f[y] > f[x])
    BY <1>1, <1>4
  <2>2. f[x] \in Int /\ f[y] \in Int
    OBVIOUS
  <2> QED BY <2>1, <2>2, SMTT(30)
<1> QED BY <1>5

\* The lesser of two numbers.
LEMMA LesserOf ==
    ASSUME NEW a \in Int, NEW b \in Int
    PROVE  Min({a, b}) \in {a, b} /\ Min({a, b}) <= a /\ Min({a, b}) <= b
<1>1. \E x \in {a, b} : \A y \in {a, b} : x <= y
  BY SMTT(30)
<1> QED BY <1>1 DEF Min

-----------------------------------------------------------------------------
(* The types.                                                              *)

Maybe == Block \cup {NoBlock}
Route == Peer \cup {NoPeer}
State == {"pending-ancestor", "pending-retrieval", "retrieving", "waiting-for-provider",
          "waiting-for-witness", "complete", "replaying", "published", "rejected",
          "conflicting"}
Mode == {"single-provider", "waiting-for-witness", "cross-checked", "conflicting"}

Cursor ==
    [tip : Block, ns : Block, anc : Maybe, root : Maybe, parent : Maybe,
     staged : Nat, bodies : Nat, state : State, provider : Route, primary : Route,
     witness : Route, mode : Mode, samples : SUBSET Nat,
     mine : SUBSET Block, theirs : SUBSET Block, progressed : BOOLEAN]

\* A witness is asked for headers up to the tip of the job only.
InReach(c) == \A h \in c.samples : h <= Number[c.tip]

\* The cursors in memory or in the file, each under its own tip.
Jobs ==
    {f \in UNION {[D -> Cursor] : D \in SUBSET Block} :
        \A t \in DOMAIN f : f[t].tip = t /\ InReach(f[t])}

Worker ==
    [pc : {"idle", "assemble", "direct", "replay", "publish", "finalize"},
     tip : Maybe, base : Maybe]

Node ==
    [best : Block, cand : SUBSET Block,
     spool : [Block -> SUBSET Block], disk : [Block -> SUBSET Block],
     cur : Jobs, saved : Jobs, bind : [Peer -> Maybe], worker : Worker]

\* A route names a job that exists.
Routed(n) == \A p \in Peer : n.bind[p] \in DOMAIN n.cur \cup {NoBlock}

Valid(n) == n \in Node /\ Routed(n)

\* The chain, the candidates, the spool and the recovery thread are left alone.
Same(n, m) ==
    /\ m.best = n.best /\ m.cand = n.cand
    /\ m.spool = n.spool /\ m.worker = n.worker

\* What the table of branch sync cursors holds.
LEMMA JobsElim ==
    ASSUME NEW f \in Jobs
    PROVE  /\ DOMAIN f \subseteq Block /\ f \in [DOMAIN f -> Cursor]
           /\ \A t \in DOMAIN f : f[t] \in Cursor /\ f[t].tip = t /\ InReach(f[t])
<1>1. PICK D \in SUBSET Block : f \in [D -> Cursor]
  BY DEF Jobs
<1> QED BY <1>1 DEF Jobs

\* What makes a table of branch sync cursors.
LEMMA JobsIntro ==
    ASSUME NEW D \in SUBSET Block, NEW f \in [D -> Cursor],
           \A t \in D : f[t].tip = t /\ InReach(f[t])
    PROVE  f \in Jobs
BY DEF Jobs

\* The fields of a node.
LEMMA NodeElim ==
    ASSUME NEW n \in Node
    PROVE  /\ n.best \in Block /\ n.cand \subseteq Block
           /\ n.spool \in [Block -> SUBSET Block] /\ n.disk \in [Block -> SUBSET Block]
           /\ n.cur \in Jobs /\ n.saved \in Jobs
           /\ n.bind \in [Peer -> Maybe] /\ n.worker \in Worker
           /\ DOMAIN n.cur \subseteq Block
           /\ \A t \in DOMAIN n.cur : /\ n.cur[t] \in Cursor /\ n.cur[t].tip = t
                                      /\ InReach(n.cur[t])
<1>1. n.cur \in Jobs
  BY DEF Node
<1> QED BY <1>1, JobsElim DEF Node

\* Changing the cursors of a node.
LEMMA WithCur ==
    ASSUME NEW n \in Node, NEW f \in Jobs
    PROVE  LET m == [n EXCEPT !.cur = f]
           IN  /\ m \in Node /\ Same(n, m) /\ m.cur = f
               /\ m.bind = n.bind /\ m.disk = n.disk /\ m.saved = n.saved
BY DEF Node, Same

\* A change of the bindings of sessions to jobs is nothing else.
LEMMA WithBind ==
    ASSUME NEW n \in Node, NEW f \in [Peer -> Maybe]
    PROVE  LET m == [n EXCEPT !.bind = f]
           IN  /\ m \in Node /\ Same(n, m) /\ m.bind = f
               /\ m.cur = n.cur /\ m.disk = n.disk /\ m.saved = n.saved
BY DEF Node, Same

-----------------------------------------------------------------------------
(* The cursor table.                                                       *)

\* A cursor written back, under its tip.
LEMMA PutOK ==
    ASSUME NEW n \in Node, NEW c \in Cursor, InReach(c)
    PROVE  LET m == Put(n, c)
           IN  /\ m \in Node /\ Same(n, m)
               /\ m.bind = n.bind /\ m.disk = n.disk /\ m.saved = n.saved
               /\ DOMAIN m.cur = DOMAIN n.cur \cup {c.tip}
               /\ m.cur[c.tip] = c
               /\ \A t \in DOMAIN n.cur \ {c.tip} : m.cur[t] = n.cur[t]
               /\ Routed(n) => Routed(m)
<1> DEFINE D == DOMAIN n.cur \cup {c.tip}
           f == [t \in D |-> IF t = c.tip THEN c ELSE n.cur[t]]
<1>1. /\ DOMAIN n.cur \subseteq Block
      /\ \A t \in DOMAIN n.cur : n.cur[t] \in Cursor /\ n.cur[t].tip = t /\ InReach(n.cur[t])
  BY NodeElim
<1>2. D \in SUBSET Block /\ c.tip \in D
  BY <1>1 DEF Cursor
<1>3. /\ f \in [D -> Cursor] /\ f[c.tip] = c
      /\ \A t \in DOMAIN n.cur \ {c.tip} : f[t] = n.cur[t]
  BY <1>1, <1>2
<1>4. \A t \in D : f[t].tip = t /\ InReach(f[t])
  BY <1>1, <1>3
<1> HIDE DEF f
<1>5. f \in Jobs
  <2> HIDE DEF D
  <2> QED BY <1>2, <1>3, <1>4, JobsIntro
<1>6. Put(n, c) = [n EXCEPT !.cur = f]
  BY DEF Put, f
<1>7. DOMAIN f = D
  BY <1>3
<1> HIDE DEF D
<1>8. LET m == Put(n, c)
      IN  /\ m \in Node /\ Same(n, m) /\ m.cur = f
          /\ m.bind = n.bind /\ m.disk = n.disk /\ m.saved = n.saved
  BY <1>5, <1>6, WithCur, SMTT(30)
<1>9. Routed(n) => Routed(Put(n, c))
  BY <1>7, <1>8 DEF Routed, D
<1> QED BY <1>3, <1>7, <1>8, <1>9 DEF D

\* Cursors removed from the table.
LEMMA ForgetOK ==
    ASSUME NEW n \in Node, NEW K
    PROVE  LET m == Forget(n, K)
           IN  /\ m \in Node /\ Same(n, m)
               /\ m.bind = n.bind /\ m.disk = n.disk /\ m.saved = n.saved
               /\ DOMAIN m.cur = DOMAIN n.cur \ K
               /\ \A t \in DOMAIN n.cur \ K : m.cur[t] = n.cur[t]
<1> DEFINE D == DOMAIN n.cur \ K
           f == [t \in D |-> n.cur[t]]
<1>1. /\ DOMAIN n.cur \subseteq Block
      /\ \A t \in DOMAIN n.cur : n.cur[t] \in Cursor /\ n.cur[t].tip = t /\ InReach(n.cur[t])
  BY NodeElim
<1>2. /\ D \in SUBSET Block /\ f \in [D -> Cursor] /\ \A t \in D : f[t] = n.cur[t]
      /\ \A t \in D : f[t].tip = t /\ InReach(f[t])
  BY <1>1
<1>3. Forget(n, K) = [n EXCEPT !.cur = f]
  BY DEF Forget, Restrict
<1> HIDE DEF f
<1>4. f \in Jobs
  <2> HIDE DEF D
  <2> QED BY <1>2, JobsIntro
<1> QED BY <1>2, <1>3, <1>4, WithCur, SMTT(30)

\* Routes moved to another job.
LEMMA RebindOK ==
    ASSUME NEW n \in Node, NEW K, NEW k \in Maybe
    PROVE  LET m == Rebind(n, K, k)
           IN  /\ m \in Node /\ Same(n, m)
               /\ m.cur = n.cur /\ m.disk = n.disk /\ m.saved = n.saved
               /\ \A p \in Peer : m.bind[p] = IF n.bind[p] \in K THEN k ELSE n.bind[p]
<1> DEFINE f == [p \in Peer |-> IF n.bind[p] \in K THEN k ELSE n.bind[p]]
<1>1. f \in [Peer -> Maybe]
  BY NodeElim
<1>2. Rebind(n, K, k) = [n EXCEPT !.bind = f]
  BY DEF Rebind
<1>3. \A p \in Peer : f[p] = IF n.bind[p] \in K THEN k ELSE n.bind[p]
  OBVIOUS
<1> HIDE DEF f
<1> QED BY <1>1, <1>2, <1>3, WithBind, SMTT(30)

\* A route bound to a job.
LEMMA BindOK ==
    ASSUME NEW n \in Node, NEW p \in Peer, NEW k \in Maybe
    PROVE  LET m == Bind(n, p, k)
           IN  /\ m \in Node /\ Same(n, m)
               /\ m.cur = n.cur /\ m.disk = n.disk /\ m.saved = n.saved
               /\ m.bind[p] = k /\ \A q \in Peer \ {p} : m.bind[q] = n.bind[q]
BY DEF Bind, Node, Same

\* The cursor file, and the spool on disk.
LEMMA PersistOK ==
    ASSUME NEW n \in Node
    PROVE  LET m == Persist(n)
           IN  /\ m \in Node /\ Same(n, m)
               /\ m.cur = n.cur /\ m.bind = n.bind /\ m.disk = n.disk
               /\ Routed(n) => Routed(m)
BY DEF Persist, Node, Same, Routed

\* flush_sync_batch and end_sync_batch make the spools durable, no more.
LEMMA FlushOK ==
    ASSUME NEW n \in Node
    PROVE  LET m == Flush(n)
           IN  /\ m \in Node /\ Same(n, m)
               /\ m.cur = n.cur /\ m.bind = n.bind /\ m.saved = n.saved
               /\ Routed(n) => Routed(m)
BY DEF Flush, Node, Same, Routed

\* clear_recovery_blocks_for_tip empties the spool it is called for, and no other.
LEMMA ClearSpoolOK ==
    ASSUME NEW n \in Node, NEW ns \in Block
    PROVE  LET m == ClearSpool(n, ns)
           IN  /\ m \in Node /\ m.best = n.best /\ m.cand = n.cand /\ m.worker = n.worker
               /\ m.cur = n.cur /\ m.bind = n.bind /\ m.saved = n.saved
               /\ \A k \in Block \ {ns} : m.spool[k] = n.spool[k]
               /\ Routed(n) => Routed(m)
BY DEF ClearSpool, Node, Routed

\* The cursor of a job that exists, written back and saved.
LEMMA UpdateOK ==
    ASSUME NEW n, Valid(n), NEW t \in DOMAIN n.cur,
           NEW c \in Cursor, InReach(c), c.tip = t
    PROVE  LET m == Persist(Put(n, c))
           IN  /\ Valid(m) /\ Same(n, m) /\ m.bind = n.bind
               /\ DOMAIN m.cur = DOMAIN n.cur /\ m.cur[t] = c
               /\ \A u \in DOMAIN n.cur \ {t} : m.cur[u] = n.cur[u]
<1> DEFINE q == Put(n, c)
<1>1. /\ q \in Node /\ Same(n, q) /\ q.bind = n.bind /\ Routed(q)
      /\ DOMAIN q.cur = DOMAIN n.cur /\ q.cur[t] = c
      /\ \A u \in DOMAIN n.cur \ {t} : q.cur[u] = n.cur[u]
  <2>1. n \in Node /\ Routed(n)
    BY DEF Valid
  <2>2. /\ q \in Node /\ Same(n, q) /\ q.bind = n.bind /\ Routed(q)
        /\ DOMAIN q.cur = DOMAIN n.cur \cup {t} /\ q.cur[t] = c
        /\ \A u \in DOMAIN n.cur \ {t} : q.cur[u] = n.cur[u]
    BY <2>1, PutOK
  <2>3. DOMAIN n.cur \cup {t} = DOMAIN n.cur
    OBVIOUS
  <2> HIDE DEF q
  <2> QED BY <2>2, <2>3
<1> HIDE DEF q
<1>2. /\ Persist(q) \in Node /\ Same(q, Persist(q)) /\ Persist(q).cur = q.cur
      /\ Persist(q).bind = q.bind /\ Routed(Persist(q))
  BY <1>1, PersistOK
<1>3. Same(n, Persist(q))
  BY <1>1, <1>2 DEF Same
<1> QED BY <1>1, <1>2, <1>3 DEF Valid, q

\* Every cursor rewritten, none added or removed.
LEMMA RewriteOK ==
    ASSUME NEW n, Valid(n), NEW f \in [DOMAIN n.cur -> Cursor],
           \A t \in DOMAIN n.cur : f[t].tip = t /\ InReach(f[t])
    PROVE  LET m == [n EXCEPT !.cur = f]
           IN  Valid(m) /\ Same(n, m) /\ m.bind = n.bind /\ m.cur = f
<1>1. n \in Node /\ DOMAIN n.cur \in SUBSET Block
  BY NodeElim DEF Valid
<1>2. f \in Jobs
  BY <1>1, JobsIntro
<1>3. LET m == [n EXCEPT !.cur = f]
      IN  m \in Node /\ Same(n, m) /\ m.bind = n.bind /\ m.cur = f
  BY <1>1, <1>2, WithCur
<1>4. DOMAIN f = DOMAIN n.cur
  OBVIOUS
<1> QED BY <1>3, <1>4 DEF Valid, Routed

\* The cursor of a job.
LEMMA CursorElim ==
    ASSUME NEW n, Valid(n), NEW t \in DOMAIN n.cur
    PROVE  /\ n.cur[t] \in Cursor /\ n.cur[t].tip = t /\ InReach(n.cur[t]) /\ t \in Block
           /\ NextHeight(n.cur[t]) \in Nat
<1>1. n.cur[t] \in Cursor /\ n.cur[t].tip = t /\ InReach(n.cur[t]) /\ t \in Block
  BY NodeElim DEF Valid
<1>2. n.cur[t].parent \in Maybe
  BY <1>1 DEF Cursor
<1>3. NextHeight(n.cur[t]) \in Nat
  BY <1>2, HeaderTypes, SMTT(30) DEF NextHeight, Maybe
<1> QED BY <1>1, <1>3

\* The heights a witness is asked about are those of the job.
LEMMA SampleHeightsOK ==
    ASSUME NEW from \in Nat, NEW t \in Block
    PROVE  /\ SampleHeights(from, t) \in SUBSET Nat
           /\ \A h \in SampleHeights(from, t) : h <= Number[t]
<1> DEFINE x == from + RangeSize - 1
           end == Min({x, Number[t]})
<1>1. x \in Nat /\ Number[t] \in Nat
  BY HeaderTypes, RecoveryAssumption, SMTT(30)
<1> HIDE DEF x
<1>2. end \in Nat /\ end <= Number[t]
  <2>1. x \in Int /\ Number[t] \in Int
    BY <1>1, SMTT(30)
  <2>2. end \in {x, Number[t]} /\ end <= Number[t]
    BY <2>1, LesserOf
  <2> HIDE DEF end
  <2> QED BY <1>1, <2>2
<1>3. SampleHeights(from, t) = IF from > end THEN {} ELSE {from, end}
  BY DEF SampleHeights, x
<1> HIDE DEF end
<1> QED BY <1>1, <1>2, <1>3, SMTT(30)

\* record_recovery_request changes one cursor.
LEMMA RecordRequestOK ==
    ASSUME NEW n, Valid(n), NEW p \in Peer, NEW from \in Nat
    PROVE  LET m == RecordRequest(n, p, from)
           IN  Valid(m) /\ Same(n, m) /\ m.bind = n.bind /\ DOMAIN m.cur = DOMAIN n.cur
<1>1. CASE ~ Bound(n, p)
  <2>1. RecordRequest(n, p, from) = Persist(n)
    BY <1>1 DEF RecordRequest
  <2> QED BY <2>1, PersistOK DEF Valid
<1>2. CASE Bound(n, p)
  <2> DEFINE t == n.bind[p]
             c == n.cur[t]
             s == SampleHeights(from, c.tip)
             mode == IF c.witness = NoPeer THEN c.mode ELSE "waiting-for-witness"
             d == [c EXCEPT !.provider = p, !.state = "retrieving", !.samples = s,
                            !.mine = {}, !.theirs = {}, !.mode = mode]
  <2>1. t \in DOMAIN n.cur
    BY <1>2 DEF Bound
  <2>2. \/ RecordRequest(n, p, from) = n
        \/ RecordRequest(n, p, from) = Persist(Put(n, d))
    BY <1>2 DEF RecordRequest
  <2>3. c \in Cursor /\ c.tip = t /\ t \in Block
    BY <2>1, CursorElim
  <2>4. s \in SUBSET Nat /\ \A h \in s : h <= Number[t]
    BY <2>3, SampleHeightsOK
  <2>5. mode \in Mode
    BY <2>3 DEF Cursor, Mode
  <2> HIDE DEF c, s, mode, t
  <2>6. d \in Cursor /\ d.tip = t /\ d.samples = s
    BY <2>3, <2>4, <2>5 DEF Cursor, State, Route
  <2>7. InReach(d)
    BY <2>4, <2>6 DEF InReach
  <2> HIDE DEF d
  <2>8. CASE RecordRequest(n, p, from) = n
    BY <2>8 DEF Same
  <2>9. CASE RecordRequest(n, p, from) = Persist(Put(n, d))
    BY <2>1, <2>6, <2>7, <2>9, UpdateOK, SMTT(30)
  <2> QED BY <2>2, <2>8, <2>9
<1> QED BY <1>1, <1>2

\* No job is added, and the jobs that stay keep their spool and their ancestor.
Lineage(n, m) ==
    \A t \in DOMAIN m.cur :
        t \in DOMAIN n.cur /\ m.cur[t].ns = n.cur[t].ns /\ m.cur[t].anc = n.cur[t].anc

\* Leaving alone, and keeping the lineage of jobs, are transitive.
LEMMA SameTrans ==
    ASSUME NEW n, NEW m, NEW o
    PROVE  /\ Same(n, n) /\ Lineage(n, n)
           /\ Same(n, m) /\ Same(m, o) => Same(n, o)
           /\ Lineage(n, m) /\ Lineage(m, o) => Lineage(n, o)
BY DEF Same, Lineage

\* record_recovery_failure changes states only.
LEMMA RecordFailureOK ==
    ASSUME NEW n, Valid(n), NEW p \in Peer
    PROVE  LET m == RecordFailure(n, p) IN Valid(m) /\ Same(n, m)
<1> DEFINE keys == Charged(n, p)
           open == {t \in keys : /\ ~ Finished(n.cur[t])
                                 /\ n.cur[t].state \notin {"complete", "replaying", "published"}}
           f == [t \in DOMAIN n.cur |->
                   IF t \in open
                   THEN [n.cur[t] EXCEPT !.provider = p, !.state = "waiting-for-provider"]
                   ELSE n.cur[t]]
           q == [n EXCEPT !.cur = f]
<1>1. RecordFailure(n, p) = n \/ RecordFailure(n, p) = Persist(q)
  BY DEF RecordFailure
<1>2. ASSUME NEW t \in DOMAIN n.cur
      PROVE  f[t] \in Cursor /\ f[t].tip = t /\ InReach(f[t])
  <2> DEFINE c == n.cur[t]
             d == [c EXCEPT !.provider = p, !.state = "waiting-for-provider"]
  <2>1. c \in Cursor /\ c.tip = t /\ InReach(c)
    BY CursorElim
  <2>2. f[t] = c \/ f[t] = d
    OBVIOUS
  <2> HIDE DEF c, f
  <2>3. d \in Cursor /\ d.tip = c.tip /\ d.samples = c.samples
    BY <2>1 DEF Cursor, State, Route
  <2> HIDE DEF d
  <2>4. InReach(d)
    BY <2>1, <2>3 DEF InReach
  <2> QED BY <2>1, <2>2, <2>3, <2>4
<1>3. f \in [DOMAIN n.cur -> Cursor]
  BY <1>2
<1> HIDE DEF f
<1>4. Valid(q) /\ Same(n, q)
  BY <1>2, <1>3, RewriteOK
<1> HIDE DEF q
<1>5. Valid(Persist(q)) /\ Same(q, Persist(q))
  BY <1>4, PersistOK DEF Valid
<1> QED BY <1>1, <1>4, <1>5 DEF Same

\* reset_recovery_cursor_for_fork keeps the spool.
LEMMA ResetForForkOK ==
    ASSUME NEW n, Valid(n), NEW p \in Peer
    PROVE  LET m == ResetForFork(n, p) IN Valid(m) /\ Same(n, m)
<1> DEFINE keys == {t \in Charged(n, p) : Started(n.cur[t])}
           f == [t \in DOMAIN n.cur |->
                   IF t \in keys
                   THEN [n.cur[t] EXCEPT !.anc = NoBlock, !.parent = NoBlock,
                                         !.state = "pending-ancestor"]
                   ELSE n.cur[t]]
           q == [n EXCEPT !.cur = f]
           r == Rebind(q, keys, NoBlock)
<1>1. ResetForFork(n, p) = n \/ ResetForFork(n, p) = Persist(r)
  BY DEF ResetForFork
<1>2. ASSUME NEW t \in DOMAIN n.cur
      PROVE  f[t] \in Cursor /\ f[t].tip = t /\ InReach(f[t])
  <2> DEFINE c == n.cur[t]
             d == [c EXCEPT !.anc = NoBlock, !.parent = NoBlock, !.state = "pending-ancestor"]
  <2>1. c \in Cursor /\ c.tip = t /\ InReach(c)
    BY CursorElim
  <2>2. f[t] = c \/ f[t] = d
    OBVIOUS
  <2> HIDE DEF c, f
  <2>3. d \in Cursor /\ d.tip = c.tip /\ d.samples = c.samples
    BY <2>1 DEF Cursor, State, Maybe
  <2> HIDE DEF d
  <2>4. InReach(d)
    BY <2>1, <2>3 DEF InReach
  <2> QED BY <2>1, <2>2, <2>3, <2>4
<1>3. f \in [DOMAIN n.cur -> Cursor]
  BY <1>2
<1> HIDE DEF f, keys
<1>4. Valid(q) /\ Same(n, q)
  BY <1>2, <1>3, RewriteOK
<1> HIDE DEF q
<1>5. /\ r \in Node /\ Same(q, r) /\ r.cur = q.cur
      /\ \A x \in Peer : r.bind[x] = IF q.bind[x] \in keys THEN NoBlock ELSE q.bind[x]
  BY <1>4, RebindOK, SMTT(30) DEF Valid, Maybe
<1>6. Routed(r)
  BY <1>4, <1>5 DEF Valid, Routed
<1> HIDE DEF r
<1>7. Valid(Persist(r)) /\ Same(r, Persist(r))
  BY <1>5, <1>6, PersistOK DEF Valid
<1> QED BY <1>1, <1>4, <1>5, <1>7 DEF Same

\* A new cursor.
LEMMA NewCursorOK ==
    ASSUME NEW t \in Block
    PROVE  NewCursor(t) \in Cursor /\ NewCursor(t).tip = t /\ InReach(NewCursor(t))
BY DEF NewCursor, Cursor, State, Mode, Maybe, Route, InReach

\* An audit given up.
LEMMA NoAuditOK ==
    ASSUME NEW c \in Cursor
    PROVE  LET d == NoAudit(c)
           IN  /\ d \in Cursor /\ InReach(d) /\ d.tip = c.tip /\ d.ns = c.ns
               /\ d.anc = c.anc /\ d.state = c.state /\ d.parent = c.parent
BY DEF NoAudit, Cursor, Mode, Route, InReach

\* register_recovery_peer_role for a provider.
LEMMA RegisterPrimaryOK ==
    ASSUME NEW n, Valid(n), NEW p \in Peer, NEW t
    PROVE  LET m == RegisterPrimary(n, p, t)
           IN  /\ Valid(m) /\ Same(n, m) /\ Lineage(n, m) /\ m.bind = n.bind
               /\ DOMAIN m.cur = DOMAIN n.cur
<1>1. CASE t \notin DOMAIN n.cur
  BY <1>1, SameTrans DEF RegisterPrimary
<1>2. CASE t \in DOMAIN n.cur
  <2> DEFINE c == n.cur[t]
             d == [c EXCEPT !.primary = p, !.provider = p]
             e == CASE d.witness = p -> NoAudit(d)
                    [] d.witness = NoPeer -> [d EXCEPT !.mode = "single-provider"]
                    [] OTHER -> d
             e2 == [d EXCEPT !.mode = "single-provider"]
  <2>1. RegisterPrimary(n, p, t) = Persist(Put(n, e))
    BY <1>2 DEF RegisterPrimary
  <2>2. c \in Cursor /\ c.tip = t /\ InReach(c)
    BY <1>2, CursorElim
  <2> HIDE DEF c
  <2>3. e = NoAudit(d) \/ e = e2 \/ e = d
    <3> HIDE DEF d
    <3> QED BY SMTT(30)
  <2> HIDE DEF e
  <2>4. /\ d \in Cursor /\ d.tip = c.tip /\ d.samples = c.samples
        /\ d.ns = c.ns /\ d.anc = c.anc
    BY <2>2 DEF Cursor, Route
  <2> HIDE DEF d
  <2>5. /\ e2 \in Cursor /\ e2.tip = d.tip /\ e2.samples = d.samples
        /\ e2.ns = d.ns /\ e2.anc = d.anc
    BY <2>4 DEF Cursor, Mode
  <2> HIDE DEF e2
  <2>6. InReach(d) /\ InReach(e2)
    BY <2>2, <2>4, <2>5 DEF InReach
  <2>7. /\ e \in Cursor /\ InReach(e) /\ e.tip = t /\ e.ns = c.ns /\ e.anc = c.anc
    BY <2>2, <2>3, <2>4, <2>5, <2>6, NoAuditOK, ZenonT(30)
  <2>8. LET m == Persist(Put(n, e))
        IN  /\ Valid(m) /\ Same(n, m) /\ m.bind = n.bind
            /\ DOMAIN m.cur = DOMAIN n.cur /\ m.cur[t] = e
            /\ \A u \in DOMAIN n.cur \ {t} : m.cur[u] = n.cur[u]
    BY <1>2, <2>7, UpdateOK, SMTT(30)
  <2> QED BY <2>1, <2>7, <2>8 DEF Lineage, c
<1> QED BY <1>1, <1>2

\* register_recovery_peer_role for a witness.
LEMMA RegisterWitnessOK ==
    ASSUME NEW n, Valid(n), NEW p \in Peer, NEW t \in DOMAIN n.cur
    PROVE  LET m == RegisterWitness(n, p, t)
           IN  Valid(m) /\ Same(n, m) /\ t \in DOMAIN m.cur
<1> DEFINE c == n.cur[t]
           c2 == [c EXCEPT !.witness = p, !.mode = "waiting-for-witness"]
           d == IF p \in {c.primary, c.witness} THEN c ELSE c2
           s == SampleHeights(NextHeight(d), d.tip)
           d2 == [d EXCEPT !.samples = s]
           e == IF d.witness = p /\ d.samples = {} THEN d2 ELSE d
<1>1. RegisterWitness(n, p, t) = Persist(Put(n, e))
  BY DEF RegisterWitness
<1>2. c \in Cursor /\ c.tip = t /\ InReach(c) /\ t \in Block /\ NextHeight(c) \in Nat
  BY CursorElim
<1>3. e = d2 \/ e = d
  OBVIOUS
<1> HIDE DEF c, e
<1>4. /\ c2 \in Cursor /\ c2.tip = c.tip /\ c2.samples = c.samples
      /\ c2.parent = c.parent
  BY <1>2 DEF Cursor, Route, Mode
<1>5. d = c \/ d = c2
  OBVIOUS
<1> HIDE DEF c2
<1>6. InReach(c2) /\ NextHeight(c2) = NextHeight(c)
  BY <1>2, <1>4 DEF InReach, NextHeight
<1> HIDE DEF d
<1>7. d \in Cursor /\ d.tip = t /\ InReach(d) /\ NextHeight(d) \in Nat
  BY <1>2, <1>4, <1>5, <1>6
<1>8. s \in SUBSET Nat /\ \A h \in s : h <= Number[t]
  BY <1>2, <1>7, SampleHeightsOK
<1> HIDE DEF s
<1>9. d2 \in Cursor /\ d2.tip = t /\ d2.samples = s
  BY <1>7, <1>8 DEF Cursor
<1> HIDE DEF d2
<1>10. InReach(d2)
  BY <1>8, <1>9 DEF InReach
<1>11. e \in Cursor /\ e.tip = t /\ InReach(e)
  BY <1>3, <1>7, <1>9, <1>10
<1> QED BY <1>1, <1>11, UpdateOK, SMTT(30)

\* remove_stale_recovery_witness
LEMMA RemoveStaleWitnessOK ==
    ASSUME NEW n, Valid(n), NEW p, NEW t
    PROVE  LET m == RemoveStaleWitness(n, p, t)
           IN  Valid(m) /\ Same(n, m) /\ Lineage(n, m)
<1>1. CASE t \notin DOMAIN n.cur \/ n.cur[t].witness /= p
  BY <1>1, SameTrans DEF RemoveStaleWitness
<1>2. CASE t \in DOMAIN n.cur /\ n.cur[t].witness = p
  <2> DEFINE c == n.cur[t]
             d == NoAudit(c)
             s == IF Finished(c) THEN "complete" ELSE d.state
             e == [d EXCEPT !.state = s]
  <2>1. RemoveStaleWitness(n, p, t) = Persist(Put(n, e))
    BY <1>2 DEF RemoveStaleWitness
  <2>2. c \in Cursor /\ c.tip = t
    BY <1>2, CursorElim
  <2> HIDE DEF c
  <2>3. d \in Cursor /\ InReach(d) /\ d.tip = c.tip /\ d.ns = c.ns /\ d.anc = c.anc
    BY <2>2, NoAuditOK
  <2> HIDE DEF d
  <2>4. s \in State
    BY <2>3 DEF Cursor, State
  <2> HIDE DEF s
  <2>5. /\ e \in Cursor /\ e.tip = d.tip /\ e.samples = d.samples
        /\ e.ns = d.ns /\ e.anc = d.anc
    BY <2>3, <2>4 DEF Cursor
  <2> HIDE DEF e
  <2>6. InReach(e)
    BY <2>3, <2>5 DEF InReach
  <2>7. LET m == Persist(Put(n, e))
        IN  /\ Valid(m) /\ Same(n, m)
            /\ DOMAIN m.cur = DOMAIN n.cur /\ m.cur[t] = e
            /\ \A u \in DOMAIN n.cur \ {t} : m.cur[u] = n.cur[u]
    BY <1>2, <2>2, <2>3, <2>5, <2>6, UpdateOK, SMTT(30)
  <2> QED BY <2>1, <2>3, <2>5, <2>7 DEF Lineage, c
<1> QED BY <1>1, <1>2

\* No job is marked as replaying.
Unmarked(n) == \A t \in DOMAIN n.cur : n.cur[t].state /= "replaying"

\* set_recovery_state_for_tip
LEMMA SetStateOK ==
    ASSUME NEW n, Valid(n), NEW t, NEW s \in State
    PROVE  LET m == SetState(n, t, s)
           IN  /\ Valid(m) /\ Same(n, m) /\ Lineage(n, m)
               /\ DOMAIN m.cur = DOMAIN n.cur
               /\ t \in DOMAIN n.cur => m.cur[t].state = s
               /\ s /= "replaying" /\ Unmarked(n) => Unmarked(m)
<1>1. CASE t \notin DOMAIN n.cur
  <2>1. SetState(n, t, s) = Persist(n)
    BY <1>1 DEF SetState
  <2> QED BY <1>1, <2>1, PersistOK DEF Valid, Lineage, Unmarked
<1>2. CASE t \in DOMAIN n.cur
  <2> DEFINE c == n.cur[t]
             e == [c EXCEPT !.state = s]
  <2>1. SetState(n, t, s) = Persist(Put(n, e))
    BY <1>2 DEF SetState
  <2>2. c \in Cursor /\ c.tip = t /\ InReach(c)
    BY <1>2, CursorElim
  <2> HIDE DEF c
  <2>3. /\ e \in Cursor /\ e.tip = c.tip /\ e.samples = c.samples
        /\ e.ns = c.ns /\ e.anc = c.anc /\ e.state = s
    BY <2>2 DEF Cursor
  <2> HIDE DEF e
  <2>4. InReach(e)
    BY <2>2, <2>3 DEF InReach
  <2>5. LET m == Persist(Put(n, e))
        IN  /\ Valid(m) /\ Same(n, m)
            /\ DOMAIN m.cur = DOMAIN n.cur /\ m.cur[t] = e
            /\ \A u \in DOMAIN n.cur \ {t} : m.cur[u] = n.cur[u]
    BY <1>2, <2>2, <2>3, <2>4, UpdateOK, SMTT(30)
  <2> QED BY <1>2, <2>1, <2>3, <2>5 DEF Lineage, c, Unmarked
<1> QED BY <1>1, <1>2

\* prune_finalized_recovery_cursors
LEMMA PruneTerminalOK ==
    ASSUME NEW n, Valid(n)
    PROVE  LET m == PruneTerminal(n)
           IN  /\ Valid(m) /\ Same(n, m)
               /\ DOMAIN m.cur = {t \in DOMAIN n.cur :
                                    n.cur[t].state \notin {"published", "rejected"}}
               /\ \A t \in DOMAIN m.cur : m.cur[t] = n.cur[t]
<1> DEFINE gone == {t \in DOMAIN n.cur : n.cur[t].state \in {"published", "rejected"}}
           kept == Forget(n, gone)
           f == [p \in Peer |-> IF kept.bind[p] \in DOMAIN kept.cur THEN kept.bind[p]
                                ELSE NoBlock]
           q == [kept EXCEPT !.bind = f]
<1>0. n \in Node
  BY DEF Valid
<1>1. CASE gone = {}
  BY <1>1, SameTrans DEF PruneTerminal
<1>2. CASE gone /= {}
  <2>1. PruneTerminal(n) = Persist(q)
    BY <1>2 DEF PruneTerminal
  <2>2. DOMAIN n.cur \ gone = {t \in DOMAIN n.cur :
                                 n.cur[t].state \notin {"published", "rejected"}}
    OBVIOUS
  <2> HIDE DEF gone
  <2>3. /\ kept \in Node /\ Same(n, kept) /\ DOMAIN kept.cur = DOMAIN n.cur \ gone
        /\ \A t \in DOMAIN kept.cur : kept.cur[t] = n.cur[t]
    BY <1>0, ForgetOK, SMTT(30)
  <2> HIDE DEF kept
  <2>4. f \in [Peer -> Maybe] /\ \A p \in Peer : f[p] \in DOMAIN kept.cur \cup {NoBlock}
    BY <2>3, NodeElim DEF Maybe
  <2> HIDE DEF f
  <2>5. q \in Node /\ Same(kept, q) /\ q.bind = f /\ q.cur = kept.cur
    BY <2>3, <2>4, WithBind
  <2> HIDE DEF q
  <2>6. Routed(q)
    BY <2>4, <2>5 DEF Routed
  <2>7. Valid(Persist(q)) /\ Same(q, Persist(q)) /\ Persist(q).cur = q.cur
    BY <2>5, <2>6, PersistOK DEF Valid
  <2>8. Same(n, Persist(q))
    BY <2>3, <2>5, <2>7 DEF Same
  <2> QED BY <2>1, <2>2, <2>3, <2>5, <2>7, <2>8
<1> QED BY <1>1, <1>2

\* reject_completed_recovery
LEMMA RejectOK ==
    ASSUME NEW n, Valid(n), NEW t
    PROVE  LET m == Reject(n, t)
           IN  /\ Valid(m) /\ Same(n, m) /\ Lineage(n, m) /\ t \notin DOMAIN m.cur
               /\ Unmarked(n) => Unmarked(m)
<1> DEFINE q == SetState(n, t, "rejected")
           m == PruneTerminal(q)
<1>1. /\ Valid(q) /\ Same(n, q) /\ Lineage(n, q) /\ DOMAIN q.cur = DOMAIN n.cur
      /\ t \in DOMAIN n.cur => q.cur[t].state = "rejected"
      /\ Unmarked(n) => Unmarked(q)
  BY SetStateOK, SMTT(30) DEF State
<1> HIDE DEF q
<1>2. /\ Valid(m) /\ Same(q, m)
      /\ DOMAIN m.cur = {u \in DOMAIN q.cur : q.cur[u].state \notin {"published", "rejected"}}
      /\ \A u \in DOMAIN m.cur : m.cur[u] = q.cur[u]
  BY <1>1, PruneTerminalOK
<1> HIDE DEF m
<1>3. /\ Same(n, m) /\ Lineage(n, m)
  BY <1>1, <1>2 DEF Same, Lineage
<1>4. t \notin DOMAIN m.cur
  BY <1>1, <1>2
<1>5. Unmarked(n) => Unmarked(m)
  BY <1>1, <1>2 DEF Unmarked
<1>6. Reject(n, t) = m
  BY DEF Reject, m, q
<1> QED BY <1>2, <1>3, <1>4, <1>5, <1>6

-----------------------------------------------------------------------------
(* The reconciliation of a cursor with its spool.                          *)

\* The walk along a spool ends in its start or in a block above it.
LEMMA ContinuedToOK ==
    ASSUME NEW S \in SUBSET Block, NEW a \in Block
    PROVE  LET r == ContinuedTo(S, a)
           IN  r \in Block /\ (r = a \/ Number[r] > Number[a])
<1> DEFINE reach == {x \in S : /\ IsAncestor(a, x)
                               /\ \A m \in Number[a]+1..Number[x] : Ancestor[x][m] \in S}
           T == reach \cup {a}
           r == CHOOSE x \in T : \A y \in reach : Number[y] <= Number[x]
<1>1. T \subseteq Block /\ T /= {} /\ reach \subseteq T
  OBVIOUS
<1>2. \A x \in reach : IsAncestor(a, x)
  OBVIOUS
<1>3. ContinuedTo(S, a) = r
  BY DEF ContinuedTo
<1> HIDE DEF reach
<1>4. T = reach \cup {a}
  OBVIOUS
<1> HIDE DEF T
<1>5. \A x \in T : Number[x] \in Int
  BY <1>1, HeaderTypes, SMTT(30)
<1>6. \E x \in T : \A y \in T : Number[y] <= Number[x]
  BY <1>1, <1>5, GreatestValue
<1>7. \E x \in T : \A y \in reach : Number[y] <= Number[x]
  BY <1>1, <1>6
<1>8. r \in T
  BY <1>7
<1> HIDE DEF r
<1>9. CASE r \in reach
  <2>1. IsAncestor(a, r) /\ r \in Block
    BY <1>1, <1>2, <1>8, <1>9
  <2>2. Number[a] \in Nat /\ Number[r] \in Nat /\ Ancestor[r][Number[r]] = r
    BY <2>1, HeaderTypes, OwnAncestor
  <2> QED BY <1>3, <2>1, <2>2, SMTT(30) DEF IsAncestor
<1>10. CASE r = a
  BY <1>3, <1>10
<1> QED BY <1>4, <1>8, <1>9, <1>10

\* The last canonical block a job may count as its own.
LEMMA PrefixOK ==
    ASSUME NEW n \in Node, NEW c \in Cursor, c.anc \in Block, NEW top \in Nat,
           top <= Number[n.best]
    PROVE  LET r == Prefix(n, c, top)
           IN  r \in Block /\ (r = c.anc \/ Number[r] > Number[c.anc])
<1> DEFINE r == Prefix(n, c, top)
<1>1. n.best \in Block /\ Number[n.best] \in Nat /\ Number[c.anc] \in Nat
  BY NodeElim, HeaderTypes
<1>2. top \in 0..Number[n.best]
  BY <1>1, SMTT(30)
<1>3. r = c.anc \/ (top > Number[c.anc] /\ r = Ancestor[n.best][top])
  BY DEF Prefix
<1>4. Ancestor[n.best][top] \in Block /\ Number[Ancestor[n.best][top]] = top
  BY <1>1, <1>2, AncestorIsBlock
<1> QED BY <1>3, <1>4

\* The block after the ancestor of a job, if the chain has one, is on the chain.
LEMMA LocalRootOK ==
    ASSUME NEW n \in Node, NEW c \in Cursor, c.anc \in Block, LocalRoot(n, c) /= NoBlock
    PROVE  LocalRoot(n, c) \in Block /\ OnChain(n, LocalRoot(n, c))
<1> DEFINE h == Number[c.anc] + 1
<1>1. n.best \in Block /\ Number[n.best] \in Nat /\ Number[c.anc] \in Nat
  BY NodeElim, HeaderTypes
<1>2. h \in 0..Number[n.best] /\ LocalRoot(n, c) = Ancestor[n.best][h]
  BY <1>1, SMTT(30) DEF LocalRoot
<1> HIDE DEF h
<1>3. Ancestor[n.best][h] \in Block /\ Number[Ancestor[n.best][h]] = h
  BY <1>1, <1>2, AncestorIsBlock
<1> QED BY <1>1, <1>2, <1>3, SMTT(30) DEF OnChain, IsAncestor

\* The cursor derived from the chain and the spool.
LEMMA DerivedOK ==
    ASSUME NEW c \in Cursor, InReach(c), c.anc \in Block,
           NEW last \in Block, last = c.anc \/ Number[last] > Number[c.anc]
    PROVE  Derived(c, last) \in Cursor /\ InReach(Derived(c, last))
<1> DEFINE advanced == Number[last] > Number[c.tip]
           tip == IF advanced THEN last ELSE c.tip
           bodies == Number[last] - Number[c.anc]
           repaired == c.parent /= last \/ c.bodies /= bodies \/ advanced
           root == IF last = c.anc THEN NoBlock ELSE Ancestor[last][Number[c.anc] + 1]
           state == IF ~ repaired THEN c.state
                    ELSE IF Number[last] >= Number[tip] THEN "complete" ELSE "retrieving"
           staged == Number[last]
           d == [c EXCEPT !.parent = last, !.staged = staged, !.bodies = bodies,
                          !.root = root, !.tip = tip, !.state = state]
<1>1. Derived(c, last) = d
  BY DEF Derived
<1>2. /\ Number[last] \in Nat /\ Number[c.anc] \in Nat /\ c.tip \in Block
      /\ Number[c.tip] \in Nat /\ c.state \in State
  BY HeaderTypes DEF Cursor
<1>3. tip \in Block /\ Number[tip] >= Number[c.tip]
  BY <1>2, SMTT(30)
<1>4. bodies \in Nat /\ staged \in Nat
  BY <1>2, SMTT(30)
<1>5. root \in Maybe
  BY <1>2, AncestorIsBlock, SMTT(30) DEF Maybe
<1>6. state \in State
  BY <1>2 DEF State
<1>7. last \in Maybe
  BY DEF Maybe
<1> HIDE DEF advanced, tip, bodies, repaired, root, state, staged
<1>8. d \in Cursor /\ d.tip = tip /\ d.samples = c.samples
  BY <1>3, <1>4, <1>5, <1>6, <1>7 DEF Cursor
<1> HIDE DEF d
<1>9. c.samples \subseteq Nat /\ Number[tip] \in Nat
  BY <1>3, HeaderTypes DEF Cursor
<1>10. InReach(d)
  BY <1>2, <1>3, <1>8, <1>9, SMTT(30) DEF InReach
<1> QED BY <1>1, <1>8, <1>10

\* As Same, but bodies may leave the spool.
Keeps(n, m) == m.best = n.best /\ m.cand = n.cand /\ m.worker = n.worker

\* The spool k is one of the job t, and it is no longer needed for that job.
Spent(n, t, k) ==
    /\ n.cur[t].ns = k
    /\ \/ \E b \in {t} \cup n.spool[k] \cup n.spool[t] : OnChain(n, b)
       \/ Started(n.cur[t]) /\ ~ OnChain(n, n.cur[t].anc)

SpoolKept(n, m) ==
    \A k \in Block : n.spool[k] /= {} /\ m.spool[k] = {} =>
        \E t \in DOMAIN n.cur : Spent(n, t, k)

\* The job under "key" is filed again, under the tip of c.
LEMMA ReplaceOK ==
    ASSUME NEW n, Valid(n), NEW key, NEW c \in Cursor, InReach(c)
    PROVE  LET m == Replace(n, key, c) IN Valid(m) /\ Same(n, m)
<1> DEFINE q == Forget(n, {key})
           r == Put(q, c)
           s == Rebind(r, {key}, c.tip)
<1>1. n \in Node /\ Routed(n)
  BY DEF Valid
<1>2. /\ q \in Node /\ Same(n, q) /\ q.bind = n.bind
      /\ DOMAIN q.cur = DOMAIN n.cur \ {key}
  BY <1>1, ForgetOK
<1> HIDE DEF q
<1>3. /\ r \in Node /\ Same(q, r) /\ r.bind = q.bind
      /\ DOMAIN r.cur = DOMAIN q.cur \cup {c.tip}
  BY <1>2, PutOK
<1> HIDE DEF r
<1>4. c.tip \in Maybe
  BY DEF Cursor, Maybe
<1>5. /\ s \in Node /\ Same(r, s) /\ s.cur = r.cur
      /\ \A p \in Peer : s.bind[p] = IF r.bind[p] \in {key} THEN c.tip ELSE r.bind[p]
  BY <1>3, <1>4, RebindOK, SMTT(30)
<1> HIDE DEF s
<1>6. Routed(s)
  BY <1>1, <1>2, <1>3, <1>5 DEF Routed
<1>7. Valid(Persist(s)) /\ Same(s, Persist(s))
  BY <1>5, <1>6, PersistOK DEF Valid
<1>8. Replace(n, key, c) = Persist(s)
  BY DEF Replace, s, r, q
<1> QED BY <1>2, <1>3, <1>5, <1>7, <1>8 DEF Same

\* The branch for an ancestor that is no longer canonical.
LEMMA DropStaleAncestorOK ==
    ASSUME NEW n, Valid(n), NEW t \in DOMAIN n.cur,
           Started(n.cur[t]), ~ OnChain(n, n.cur[t].anc)
    PROVE  LET m == DropStaleAncestor(n, n.cur[t])
           IN  Valid(m) /\ Keeps(n, m) /\ SpoolKept(n, m)
<1> DEFINE c == n.cur[t]
           d == [c EXCEPT !.anc = NoBlock, !.root = NoBlock, !.parent = NoBlock,
                          !.staged = 0, !.bodies = 0, !.state = "pending-retrieval"]
           q == ClearSpool(n, c.ns)
           m == Persist(Put(q, d))
<1>1. c \in Cursor /\ c.tip = t /\ InReach(c) /\ c.ns \in Block /\ n \in Node
  BY CursorElim DEF Cursor, Valid
<1>2. DropStaleAncestor(n, c) = m
  BY DEF DropStaleAncestor
<1>3. Started(c) /\ ~ OnChain(n, c.anc) /\ c = n.cur[t]
  OBVIOUS
<1> HIDE DEF c
<1>4. d \in Cursor /\ d.tip = c.tip /\ d.samples = c.samples
  BY <1>1, ZenonT(30) DEF Cursor, State, Maybe
<1> HIDE DEF d
<1>5. InReach(d)
  BY <1>1, <1>4 DEF InReach
<1>6. /\ q \in Node /\ Keeps(n, q) /\ q.cur = n.cur /\ (Routed(n) => Routed(q))
      /\ \A k \in Block \ {c.ns} : q.spool[k] = n.spool[k]
  BY <1>1, ClearSpoolOK DEF Keeps
<1> HIDE DEF q
<1>7. Valid(q) /\ t \in DOMAIN q.cur
  BY <1>6 DEF Valid
<1>8. Valid(m) /\ Same(q, m)
  BY <1>1, <1>4, <1>5, <1>7, UpdateOK
<1> HIDE DEF m
<1>9. SpoolKept(n, m)
  <2>1. \A k \in Block : n.spool[k] /= {} /\ m.spool[k] = {} => k = c.ns
    BY <1>6, <1>8 DEF Same
  <2>2. Spent(n, t, c.ns)
    BY <1>3 DEF Spent
  <2> QED BY <2>1, <2>2 DEF SpoolKept
<1>10. Keeps(n, m)
  BY <1>6, <1>8 DEF Same, Keeps
<1> QED BY <1>2, <1>8, <1>9, <1>10 DEF c

\* The bodies filed under a moving tip join the spool of the job.
LEMMA MergedOK ==
    ASSUME NEW n, Valid(n), NEW t \in DOMAIN n.cur
    PROVE  LET c == n.cur[t]
               m == Merged(n, c)
           IN  /\ Valid(m) /\ Keeps(n, m) /\ m.cur = n.cur
               /\ \A k \in Block \ {c.ns} : m.spool[k] = n.spool[k]
               /\ m.spool[c.ns] \subseteq n.spool[c.ns] \cup n.spool[t]
               /\ n.spool[c.ns] /= {} => m.spool[c.ns] /= {}
<1> DEFINE c == n.cur[t]
           S == {x \in n.spool[c.ns] : \A y \in n.spool[t] : Number[x] /= Number[y]}
                   \cup n.spool[t]
           q == [n EXCEPT !.spool[c.ns] = S]
           m == Merged(n, c)
<1>1. c \in Cursor /\ c.tip = t /\ c.ns \in Block /\ t \in Block /\ n \in Node
  BY CursorElim DEF Cursor, Valid
<1>2. CASE c.tip = c.ns \/ n.spool[c.tip] = {}
  <2>1. m = n
    BY <1>2 DEF Merged
  <2> HIDE DEF m
  <2> QED BY <2>1 DEF Keeps, m
<1>3. CASE ~ (c.tip = c.ns \/ n.spool[c.tip] = {})
  <2>1. m = Flush(q) /\ n.spool[t] /= {}
    BY <1>1, <1>3 DEF Merged
  <2>2. S \in SUBSET Block /\ S \subseteq n.spool[c.ns] \cup n.spool[t] /\ S /= {}
    BY <1>1, <2>1, NodeElim
  <2> HIDE DEF S, m, c
  <2>3. /\ q \in Node /\ Keeps(n, q) /\ q.cur = n.cur /\ q.bind = n.bind /\ q.spool[c.ns] = S
        /\ \A k \in Block \ {c.ns} : q.spool[k] = n.spool[k]
    BY <1>1, <2>2 DEF Node, Keeps
  <2>4. Routed(q)
    BY <2>3 DEF Valid, Routed
  <2> HIDE DEF q
  <2>5. Valid(Flush(q)) /\ Same(q, Flush(q)) /\ Flush(q).cur = q.cur
    BY <2>3, <2>4, FlushOK DEF Valid
  <2> QED BY <2>1, <2>2, <2>3, <2>5 DEF Same, Keeps, m, c
<1> QED BY <1>2, <1>3

\* A spool is cleared when it starts with the chain's own branch.
LEMMA RepairOK ==
    ASSUME NEW n, Valid(n), NEW t \in DOMAIN n.cur, n.cur[t].anc \in Block,
           NEW prefix \in Block, prefix = n.cur[t].anc \/ Number[prefix] > Number[n.cur[t].anc]
    PROVE  LET c == n.cur[t]
               m == Repair(n, t, c, prefix)
           IN  /\ Valid(m) /\ Keeps(n, m)
               /\ \A k \in Block : n.spool[k] /= {} /\ m.spool[k] = {} =>
                     k = c.ns /\ \E b \in n.spool[k] : OnChain(n, b)
<1> DEFINE c == n.cur[t]
           last == ContinuedTo(n.spool[c.ns], prefix)
           q == ClearSpool(n, c.ns)
           r == IF n.spool[c.ns] /= {} THEN Flush(n) ELSE n
           m == Repair(n, t, c, prefix)
<1>1. c \in Cursor /\ c.tip = t /\ InReach(c) /\ c.ns \in Block /\ n \in Node /\ Routed(n)
  BY CursorElim DEF Cursor, Valid
<1>2. c.anc \in Block /\ (prefix = c.anc \/ Number[prefix] > Number[c.anc])
  OBVIOUS
<1> HIDE DEF c
<1>3. CASE StalePrefix(n, c, prefix)
  <2>1. m = Replace(q, t, Derived(c, c.anc))
    BY <1>3 DEF Repair
  <2>2. Derived(c, c.anc) \in Cursor /\ InReach(Derived(c, c.anc))
    BY <1>1, <1>2, DerivedOK
  <2>3. /\ Valid(q) /\ Keeps(n, q)
        /\ \A k \in Block \ {c.ns} : q.spool[k] = n.spool[k]
    BY <1>1, ClearSpoolOK DEF Keeps, Valid
  <2> HIDE DEF q, m
  <2>4. Valid(m) /\ Same(q, m)
    BY <2>1, <2>2, <2>3, ReplaceOK
  <2>5. LocalRoot(n, c) \in n.spool[c.ns] /\ OnChain(n, LocalRoot(n, c))
    <3>1. LocalRoot(n, c) \in n.spool[c.ns]
      BY <1>3 DEF StalePrefix
    <3>2. n.spool[c.ns] \subseteq Block
      BY <1>1, NodeElim
    <3>3. LocalRoot(n, c) /= NoBlock
      BY <3>1, <3>2, RecoveryAssumption
    <3> QED BY <1>1, <1>2, <3>1, <3>3, LocalRootOK
  <2> QED BY <2>3, <2>4, <2>5 DEF Same, Keeps, m, c
<1>4. CASE ~ StalePrefix(n, c, prefix)
  <2>1. m = Replace(r, t, Derived(c, last))
    BY <1>4 DEF Repair
  <2>2. n.spool[c.ns] \in SUBSET Block
    BY <1>1, NodeElim
  <2>3. last \in Block /\ (last = prefix \/ Number[last] > Number[prefix])
    BY <2>2, ContinuedToOK
  <2> HIDE DEF last, m
  <2>4. /\ Number[last] \in Nat /\ Number[prefix] \in Nat /\ Number[c.anc] \in Nat
    BY <1>2, <2>3, HeaderTypes
  <2>5. last = c.anc \/ Number[last] > Number[c.anc]
    BY <1>2, <2>3, <2>4, SMTT(30)
  <2>6. Derived(c, last) \in Cursor /\ InReach(Derived(c, last))
    BY <1>1, <1>2, <2>3, <2>5, DerivedOK
  <2>7. Valid(r) /\ Same(n, r)
    BY <1>1, FlushOK, SameTrans DEF Valid
  <2> HIDE DEF r
  <2>8. Valid(m) /\ Same(r, m)
    BY <2>1, <2>6, <2>7, ReplaceOK
  <2> QED BY <2>7, <2>8 DEF Same, Keeps, m, c
<1> QED BY <1>3, <1>4

\* reconcile_forward_recovery_spool
LEMMA ReconcileJobOK ==
    ASSUME NEW n, Valid(n), NEW t \in DOMAIN n.cur
    PROVE  LET m == ReconcileJob(n, t, n.cur[t])
           IN  Valid(m) /\ Keeps(n, m) /\ SpoolKept(n, m)
<1> DEFINE c == n.cur[t]
           top == Min({Number[n.best], Number[c.tip]})
           prefix == Prefix(n, c, top)
           q == Merged(n, c)
           m == ReconcileJob(n, t, c)
<1>1. c \in Cursor /\ c.tip = t /\ t \in Block /\ n \in Node /\ n.best \in Block
  BY CursorElim, NodeElim DEF Valid
<1>2. CASE ~ Started(c)
  <2>1. m = n
    BY <1>2 DEF ReconcileJob
  <2> HIDE DEF m
  <2> QED BY <2>1 DEF Keeps, SpoolKept, m
<1>3. CASE Started(c) /\ ~ OnChain(n, c.anc)
  <2>1. m = DropStaleAncestor(n, c)
    BY <1>3 DEF ReconcileJob
  <2> QED BY <1>3, <2>1, DropStaleAncestorOK
<1>4. CASE Started(c) /\ OnChain(n, c.anc)
  <2>1. m = Repair(q, t, c, prefix)
    BY <1>4 DEF ReconcileJob
  <2>2. c.anc \in Block
    BY <1>1, <1>4 DEF Started, Cursor, Maybe
  <2>3. /\ Valid(q) /\ Keeps(n, q) /\ q.cur = n.cur
        /\ \A k \in Block \ {c.ns} : q.spool[k] = n.spool[k]
        /\ q.spool[c.ns] \subseteq n.spool[c.ns] \cup n.spool[t]
        /\ n.spool[c.ns] /= {} => q.spool[c.ns] /= {}
    BY MergedOK
  <2>4. top \in Nat /\ top <= Number[n.best]
    <3>1. Number[n.best] \in Nat /\ Number[c.tip] \in Nat
      BY <1>1, HeaderTypes
    <3>2. Number[n.best] \in Int /\ Number[c.tip] \in Int
      BY <3>1, SMTT(30)
    <3>3. top \in {Number[n.best], Number[c.tip]} /\ top <= Number[n.best]
      BY <3>2, LesserOf
    <3> HIDE DEF top
    <3> QED BY <3>1, <3>3
  <2> HIDE DEF top
  <2>5. prefix \in Block /\ (prefix = c.anc \/ Number[prefix] > Number[c.anc])
    BY <1>1, <2>2, <2>4, PrefixOK
  <2> HIDE DEF prefix, q, m
  <2>6. /\ Valid(m) /\ Keeps(q, m)
        /\ \A k \in Block : q.spool[k] /= {} /\ m.spool[k] = {} =>
              k = c.ns /\ \E b \in q.spool[k] : OnChain(q, b)
    BY <2>1, <2>2, <2>3, <2>5, RepairOK, SMTT(30)
  <2>7. SpoolKept(n, m)
    <3> SUFFICES ASSUME NEW k \in Block, n.spool[k] /= {}, m.spool[k] = {}
                 PROVE  Spent(n, t, k)
      BY DEF SpoolKept
    <3>1. q.spool[k] /= {}
      BY <2>3
    <3>2. k = c.ns /\ \E b \in q.spool[k] : OnChain(q, b)
      BY <2>6, <3>1
    <3>3. PICK b \in q.spool[k] : OnChain(q, b)
      BY <3>2
    <3>4. b \in n.spool[k] \cup n.spool[t] /\ OnChain(n, b)
      BY <2>3, <3>2, <3>3 DEF OnChain, Keeps
    <3> QED BY <3>2, <3>4 DEF Spent
  <2> QED BY <2>3, <2>6, <2>7 DEF Keeps, m
<1> QED BY <1>2, <1>3, <1>4

\* Reconciling the job of a session, if it has one, keeps every spool.
LEMMA ReconcileOK ==
    ASSUME NEW n, Valid(n), NEW p \in Peer
    PROVE  LET m == Reconcile(n, p)
           IN  Valid(m) /\ Keeps(n, m) /\ SpoolKept(n, m)
<1>1. CASE Bound(n, p)
  BY <1>1, ReconcileJobOK DEF Reconcile, Bound
<1>2. CASE ~ Bound(n, p)
  BY <1>2 DEF Reconcile, Keeps, SpoolKept
<1> QED BY <1>1, <1>2

-----------------------------------------------------------------------------
(* The choice among jobs and candidates.                                   *)

\* Jobs are finitely many, so one of them is the last in the key order.
LEMMA LastInOrder ==
    ASSUME NEW T \in SUBSET Block, T /= {}
    PROVE  \E x \in T : \A y \in T : HashRank[y] <= HashRank[x]
<1>1. \A x \in T : HashRank[x] \in Int
  BY HeaderTypes, SMTT(30)
<1> QED BY <1>1, GreatestValue

\* max_by_key returns one of the jobs it is given.
LEMMA MostAdvancedOK ==
    ASSUME NEW n, Valid(n), NEW S \in SUBSET DOMAIN n.cur, S /= {}, NEW first
    PROVE  MostAdvanced(n, S, first) \in S
<1> DEFINE R == {e \in S \X S : FurtherThan(n.cur[e[1]], n.cur[e[2]])}
           top == {t \in S : \A u \in S : ~ FurtherThan(n.cur[u], n.cur[t])}
           r == CHOOSE t \in top : \A u \in top : HashRank[u] <= HashRank[t]
<1>1. S \subseteq Block /\ \A t \in S : n.cur[t] \in Cursor
  BY CursorElim
<1>2. \A t \in S : StateRank(n.cur[t].state) \in Nat /\ n.cur[t].staged \in Nat
  <2>1. \A s : StateRank(s) \in Nat
    BY DEF StateRank
  <2> QED BY <1>1, <2>1 DEF Cursor
<1>3. \A x, y \in S : <<x, y>> \in R <=> FurtherThan(n.cur[x], n.cur[y])
  OBVIOUS
<1> HIDE DEF R
<1>4. \A x \in S : <<x, x>> \notin R
  BY <1>2, <1>3, SMTT(30) DEF FurtherThan
<1>5. \A x, y, z \in S : <<x, y>> \in R /\ <<y, z>> \in R => <<x, z>> \in R
  BY <1>2, <1>3, SMTT(30) DEF FurtherThan
<1>6. \E x \in S : \A y \in S : <<y, x>> \notin R
  BY <1>1, <1>4, <1>5, MaximalElement
<1>7. top \in SUBSET Block /\ top /= {} /\ top \subseteq S
  BY <1>1, <1>3, <1>6
<1>8. MostAdvanced(n, S, first) = IF first \in top THEN first ELSE r
  BY DEF MostAdvanced
<1> HIDE DEF top
<1>9. r \in top
  BY <1>7, LastInOrder
<1> QED BY <1>7, <1>8, <1>9

\* The job that has staged most is one of the jobs.
LEMMA FurthestOK ==
    ASSUME NEW n, Valid(n), NEW S \in SUBSET DOMAIN n.cur, S /= {}, NEW first
    PROVE  Furthest(n, S, first) \in S
<1> DEFINE f == [k \in S |-> n.cur[k].staged]
           top == {k \in S : \A j \in S : n.cur[j].staged <= n.cur[k].staged}
           r == CHOOSE k \in top : \A j \in top : HashRank[j] <= HashRank[k]
<1>1. S \subseteq Block /\ \A t \in S : n.cur[t].staged \in Nat
  BY CursorElim DEF Cursor
<1>3. \A k \in S : f[k] = n.cur[k].staged /\ f[k] \in Int
  BY <1>1, SMTT(30)
<1> HIDE DEF f
<1>4. \E x \in S : \A y \in S : f[y] <= f[x]
  BY <1>1, <1>3, GreatestValue
<1>5. top \in SUBSET Block /\ top /= {} /\ top \subseteq S
  BY <1>1, <1>3, <1>4
<1>6. Furthest(n, S, first) = IF first \in top THEN first ELSE r
  BY DEF Furthest
<1> HIDE DEF top
<1>7. r \in top
  BY <1>5, LastInOrder
<1> QED BY <1>5, <1>6, <1>7

\* latest_candidate_tip returns a candidate.
LEMMA HeaviestOK ==
    ASSUME NEW S \in SUBSET Block, S /= {}
    PROVE  Heaviest(S) \in S
<1> DEFINE R == {e \in S \X S : Outranks(e[1], e[2])}
<1>1. \A x, y \in S : <<x, y>> \in R <=> Outranks(x, y)
  OBVIOUS
<1> HIDE DEF R
<1>2. \A x \in S : <<x, x>> \notin R
  BY <1>1, OutranksOrder
<1>3. \A x, y, z \in S : <<x, y>> \in R /\ <<y, z>> \in R => <<x, z>> \in R
  BY <1>1, OutranksOrder
<1>4. PICK x \in S : \A y \in S : <<y, x>> \notin R
  BY <1>2, <1>3, MaximalElement
<1>5. ASSUME NEW y \in S \ {x}
      PROVE  Outranks(x, y)
  <2>1. /\ TotalWork[x] \in Nat /\ TotalWork[y] \in Nat
        /\ HashRank[x] \in Nat /\ HashRank[y] \in Nat
    BY HeaderTypes
  <2>2. HashRank[x] /= HashRank[y]
    BY BlockTreeAssumption
  <2>3. ~ Outranks(y, x)
    BY <1>1, <1>4
  <2> QED BY <2>1, <2>2, <2>3, SMTT(30) DEF Outranks
<1> QED BY <1>5 DEF Heaviest

-----------------------------------------------------------------------------
(* A job that takes a newer tip.                                           *)

\* The job "old" takes the tip t, and every route on it follows.
LEMMA JoinedOK ==
    ASSUME NEW n, Valid(n), NEW p \in Peer, NEW t \in Block, NEW old \in DOMAIN n.cur
    PROVE  LET m == Joined(n, p, t, old, {old, n.bind[p]} \ {NoBlock})
           IN  Valid(m) /\ Same(n, m) /\ m.bind[p] \in DOMAIN m.cur
<1> DEFINE gone == {old, n.bind[p]} \ {NoBlock}
           c == n.cur[old]
           s == IF Number[c.parent] < Number[t] THEN "retrieving" ELSE c.state
           d == [c EXCEPT !.tip = t, !.provider = p, !.primary = p, !.samples = {},
                          !.mine = {}, !.theirs = {}, !.state = s]
           q == Forget(n, gone)
           r == Put(q, d)
           u == Rebind(r, gone, t)
           m == Bind(u, p, t)
<1>1. n \in Node /\ Routed(n) /\ c \in Cursor /\ t \in Maybe
  BY CursorElim DEF Valid, Maybe
<1>2. s \in State
  BY <1>1 DEF Cursor, State
<1>3. Joined(n, p, t, old, gone) = m
  BY DEF Joined
<1> HIDE DEF c, s, gone
<1>4. d \in Cursor /\ d.tip = t /\ d.samples = {}
  BY <1>1, <1>2 DEF Cursor, Route
<1> HIDE DEF d
<1>5. InReach(d)
  BY <1>4 DEF InReach
<1>6. /\ q \in Node /\ Same(n, q) /\ q.bind = n.bind /\ DOMAIN q.cur = DOMAIN n.cur \ gone
  BY <1>1, ForgetOK
<1> HIDE DEF q
<1>7. /\ r \in Node /\ Same(q, r) /\ r.bind = q.bind /\ DOMAIN r.cur = DOMAIN q.cur \cup {t}
  BY <1>4, <1>5, <1>6, PutOK
<1> HIDE DEF r
<1>8. /\ u \in Node /\ Same(r, u) /\ u.cur = r.cur
      /\ \A x \in Peer : u.bind[x] = IF r.bind[x] \in gone THEN t ELSE r.bind[x]
  BY <1>1, <1>7, RebindOK, SMTT(30)
<1> HIDE DEF u
<1>9. /\ m \in Node /\ Same(u, m) /\ m.cur = u.cur /\ m.bind[p] = t
      /\ \A x \in Peer \ {p} : m.bind[x] = u.bind[x]
  BY <1>1, <1>8, BindOK
<1> HIDE DEF m
<1>10. Same(n, m)
  BY <1>6, <1>7, <1>8, <1>9 DEF Same
<1>11. Routed(m)
  BY <1>1, <1>6, <1>7, <1>8, <1>9 DEF Routed
<1> QED BY <1>3, <1>7, <1>8, <1>9, <1>10, <1>11 DEF Valid, gone

\* coalesce_advancing_recovery_job
LEMMA CoalesceOK ==
    ASSUME NEW n, Valid(n), NEW p \in Peer, NEW t \in Block, NEW anc, NEW root, NEW first
    PROVE  LET m == Coalesce(n, p, t, anc, root, first)
           IN  Valid(m) /\ Same(n, m) /\ (Bound(n, p) => Bound(m, p))
<1> DEFINE S == SameJob(n, p, t, anc, root)
           old == Furthest(n, S, first)
           m == Coalesce(n, p, t, anc, root, first)
<1>1. S \in SUBSET DOMAIN n.cur
  BY DEF SameJob
<1>2. CASE S = {}
  <2>1. m = n
    BY <1>2 DEF Coalesce, JoinOneOf
  <2> HIDE DEF m
  <2> QED BY <2>1, SameTrans DEF m
<1>3. CASE S /= {}
  <2>1. m = Joined(n, p, t, old, {old, n.bind[p]} \ {NoBlock})
    BY <1>3 DEF Coalesce, JoinOneOf
  <2>2. old \in DOMAIN n.cur
    <3> HIDE DEF S
    <3> QED BY <1>1, <1>3, FurthestOK
  <2> HIDE DEF old, m
  <2> QED BY <2>1, <2>2, JoinedOK, SMTT(30) DEF Bound, m
<1> QED BY <1>2, <1>3

\* coalesce_recovery_job_after_branch_root
LEMMA CoalesceByRootOK ==
    ASSUME NEW n, Valid(n), NEW p \in Peer, NEW first
    PROVE  LET m == CoalesceByRoot(n, p, first)
           IN  Valid(m) /\ Same(n, m) /\ (Bound(n, p) => Bound(m, p))
<1> DEFINE c == n.cur[n.bind[p]]
           m == CoalesceByRoot(n, p, first)
<1>1. CASE m = n
  BY <1>1, SameTrans
<1>2. CASE m /= n
  <2>1. Bound(n, p) /\ m = Coalesce(n, p, c.tip, c.anc, c.root, first)
    BY <1>2 DEF CoalesceByRoot
  <2>2. c.tip \in Block
    BY <2>1, CursorElim DEF Bound, Cursor
  <2> HIDE DEF c, m
  <2> QED BY <2>1, <2>2, CoalesceOK DEF m
<1> QED BY <1>1, <1>2

-----------------------------------------------------------------------------
(* start_candidate_recovery, up to the spawn of its worker.                *)

\* A change of the candidates is nothing else.
LEMMA WithCand ==
    ASSUME NEW n, Valid(n), NEW S \in SUBSET Block
    PROVE  LET m == [n EXCEPT !.cand = S]
           IN  /\ Valid(m) /\ m.best = n.best /\ m.spool = n.spool /\ m.worker = n.worker
               /\ m.cur = n.cur /\ m.bind = n.bind /\ m.cand = S
BY DEF Valid, Node, Routed

\* A change of the recovery thread is nothing else.
LEMMA WithWorker ==
    ASSUME NEW n, Valid(n), NEW w \in Worker
    PROVE  LET m == [n EXCEPT !.worker = w]
           IN  /\ Valid(m) /\ m.best = n.best /\ m.spool = n.spool /\ m.worker = w
               /\ m.cur = n.cur /\ m.bind = n.bind /\ m.cand = n.cand
BY DEF Valid, Node, Routed

(***************************************************************************)
(* What start_candidate_recovery may change: candidates go, jobs go, and   *)
(* the recovery thread is started.  Where it is not, no job is marked.     *)
(***************************************************************************)
Starts(n, m) ==
    /\ Valid(m) /\ m.best = n.best /\ m.spool = n.spool /\ Lineage(n, m)
    /\ \/ m.worker = n.worker /\ Unmarked(m)
       \/ m.worker.pc = "assemble" /\ m.worker.tip \in Block /\ m.worker.base = NoBlock

\* The thread is spawned for the block it is given, or none is.
LEMMA LaunchOK ==
    ASSUME NEW n, Valid(n), Unmarked(n), NEW b \in Maybe, NEW asked
    PROVE  Starts(n, Launch(n, b, asked))
<1> DEFINE m == Launch(n, b, asked)
           none == [n EXCEPT !.cand = {}]
           out == Reject(n, b)
           gone == [out EXCEPT !.cand = {}]
           q == SetState(n, b, "replaying")
           w == [pc |-> "assemble", tip |-> b, base |-> NoBlock]
           on == [q EXCEPT !.worker = w]
<1>1. \/ m \in {n, none, gone}
      \/ b \in Block /\ m = on
  BY DEF Launch, Maybe
<1> HIDE DEF m
<1>2. Starts(n, n)
  BY SameTrans DEF Starts
<1>3. Starts(n, none)
  <2>1. {} \in SUBSET Block
    OBVIOUS
  <2>2. /\ Valid(none) /\ none.best = n.best /\ none.spool = n.spool
        /\ none.worker = n.worker /\ none.cur = n.cur
    BY <2>1, WithCand
  <2> HIDE DEF none
  <2> QED BY <2>2 DEF Starts, Lineage, Unmarked
<1>4. Starts(n, gone)
  <2>1. {} \in SUBSET Block
    OBVIOUS
  <2>2. Valid(out) /\ Same(n, out) /\ Lineage(n, out) /\ Unmarked(out)
    BY RejectOK
  <2> HIDE DEF out
  <2>3. /\ Valid(gone) /\ gone.best = out.best /\ gone.spool = out.spool
        /\ gone.worker = out.worker /\ gone.cur = out.cur
    BY <2>1, <2>2, WithCand
  <2> HIDE DEF gone
  <2> QED BY <2>2, <2>3 DEF Starts, Lineage, Unmarked, Same
<1>5. ASSUME b \in Block
      PROVE  Starts(n, on)
  <2>1. Valid(q) /\ Same(n, q) /\ Lineage(n, q)
    BY SetStateOK DEF State
  <2> HIDE DEF q
  <2>2. w \in Worker /\ w.pc = "assemble" /\ w.tip = b /\ w.base = NoBlock
    BY DEF Worker, Maybe
  <2> HIDE DEF w
  <2>3. /\ Valid(on) /\ on.best = q.best /\ on.spool = q.spool
        /\ on.worker = w /\ on.cur = q.cur
    BY <2>1, <2>2, WithWorker
  <2> HIDE DEF on
  <2> QED BY <1>5, <2>1, <2>2, <2>3 DEF Starts, Lineage, Same
<1> QED BY <1>1, <1>2, <1>3, <1>4, <1>5 DEF m

\* A step that leaves chain, spool and thread alone, then the launch.
LEMMA StartsAfter ==
    ASSUME NEW n, NEW q, NEW m, Starts(q, m), Lineage(n, q),
           q.best = n.best, q.spool = n.spool, q.worker = n.worker
    PROVE  Starts(n, m)
BY SameTrans DEF Starts

\* The thread is spawned for the heaviest candidate, if any.
LEMMA LaunchHeaviestOK ==
    ASSUME NEW n, Valid(n), Unmarked(n), NEW asked
    PROVE  Starts(n, LaunchHeaviest(n, asked))
<1>1. n.cand \in SUBSET Block
  BY NodeElim DEF Valid
<1>2. Heaviest(n.cand) \in Maybe
  <2>1. CASE n.cand = {}
    BY <2>1 DEF Heaviest, Maybe
  <2>2. CASE n.cand /= {}
    BY <1>1, <2>2, HeaviestOK DEF Maybe
  <2> QED BY <2>1, <2>2
<1> QED BY <1>2, LaunchOK DEF LaunchHeaviest

\* A complete spool is restored as candidates, and the thread spawned for it.
LEMMA RestoredOK ==
    ASSUME NEW n, Valid(n), Unmarked(n), NEW t \in DOMAIN n.cur
    PROVE  Starts(n, Restored(n, t, RestoredTip(n, t)))
<1> DEFINE b == RestoredTip(n, t)
<1>1. n \in Node /\ Routed(n) /\ t \in Block /\ n.cur[t].ns \in Block
  BY CursorElim DEF Valid, Cursor
<1>2. b \in Maybe
  BY <1>1 DEF RestoredTip, Maybe
<1> HIDE DEF b
<1>3. CASE b = NoBlock \/ ~ Assembles(n, b)
  <2> DEFINE q == Forget(n, {t})
             r == Rebind(q, {t}, NoBlock)
             s == Persist(r)
  <2>1. Restored(n, t, b) = LaunchHeaviest(s, t)
    BY <1>3 DEF Restored
  <2>2. /\ q \in Node /\ Same(n, q) /\ q.bind = n.bind /\ DOMAIN q.cur = DOMAIN n.cur \ {t}
        /\ \A u \in DOMAIN q.cur : q.cur[u] = n.cur[u]
    BY <1>1, ForgetOK, SMTT(30)
  <2> HIDE DEF q
  <2>3. /\ r \in Node /\ Same(q, r) /\ r.cur = q.cur
        /\ \A p \in Peer : r.bind[p] = IF q.bind[p] \in {t} THEN NoBlock ELSE q.bind[p]
    BY <2>2, RebindOK, SMTT(30) DEF Maybe
  <2> HIDE DEF r
  <2>4. Routed(r)
    BY <1>1, <2>2, <2>3 DEF Routed
  <2>5. Valid(s) /\ Same(r, s) /\ s.cur = r.cur
    BY <2>3, <2>4, PersistOK DEF Valid
  <2> HIDE DEF s
  <2>6. Same(n, s) /\ Lineage(n, s) /\ Unmarked(s)
    BY <2>2, <2>3, <2>5, SMTT(30) DEF Same, Lineage, Unmarked
  <2>7. Starts(s, LaunchHeaviest(s, t))
    BY <2>5, <2>6, LaunchHeaviestOK
  <2>8. Starts(n, LaunchHeaviest(s, t))
    BY <2>6, <2>7, StartsAfter DEF Same
  <2> QED BY <2>1, <2>8 DEF b
<1>4. CASE ~ (b = NoBlock \/ ~ Assembles(n, b))
  <2> DEFINE S == n.cand \cup {b}
             q == [n EXCEPT !.cand = S]
  <2>1. Restored(n, t, b) = Launch(q, b, t)
    BY <1>4 DEF Restored
  <2>2. S \in SUBSET Block
    BY <1>1, <1>2, <1>4, NodeElim DEF Maybe
  <2> HIDE DEF S
  <2>3. /\ Valid(q) /\ q.best = n.best /\ q.spool = n.spool
        /\ q.worker = n.worker /\ q.cur = n.cur
    BY <2>2, WithCand
  <2> HIDE DEF q
  <2>4. Unmarked(q) /\ Lineage(n, q)
    BY <2>3 DEF Unmarked, Lineage
  <2>5. Starts(q, Launch(q, b, t))
    BY <1>2, <2>3, <2>4, LaunchOK
  <2>6. Starts(n, Launch(q, b, t))
    BY <2>3, <2>4, <2>5, StartsAfter
  <2> QED BY <2>1, <2>6 DEF b
<1> QED BY <1>3, <1>4

\* A complete job is evaluated: restored, or left to wait for a witness.
LEMMA EvaluateOK ==
    ASSUME NEW n, Valid(n), Unmarked(n), NEW t \in DOMAIN n.cur
    PROVE  Starts(n, Evaluate(n, t))
<1>1. CASE Publishable(n.cur[t])
  BY <1>1, RestoredOK DEF Evaluate
<1>2. CASE ~ Publishable(n.cur[t])
  <2>1. Evaluate(n, t) = SetState(n, t, "waiting-for-witness")
    BY <1>2 DEF Evaluate
  <2> QED BY <2>1, SetStateOK, SMTT(30) DEF Starts, Same, State
<1> QED BY <1>1, <1>2

\* start_candidate_recovery does nothing, or starts an idle thread.
LEMMA StartRecoveryOK ==
    ASSUME NEW n, Valid(n), NEW late, NEW first
    PROVE  LET m == StartRecovery(n, late, first)
           IN  m = n \/ (n.worker.pc = "idle" /\ Starts(n, m))
<1> DEFINE m == StartRecovery(n, late, first)
           S == CompletedTips(n)
           t == MostAdvanced(n, S, first)
           c == n.cur[t]
           d == RepairedWitness(c, late)
           q == Repaired(n, t, d)
<1>1. CASE m = n
  BY <1>1
<1>2. CASE m /= n
  <2>1. n.worker.pc = "idle" /\ Unmarked(n)
    BY <1>2 DEF StartRecovery, Unmarked
  <2>2. \/ S = {} /\ m = LaunchHeaviest(n, NoBlock)
        \/ S /= {} /\ m = Evaluate(q, t)
    BY <1>2 DEF StartRecovery, Prefer
  <2>3. CASE S = {} /\ m = LaunchHeaviest(n, NoBlock)
    BY <2>1, <2>3, LaunchHeaviestOK
  <2>4. CASE S /= {} /\ m = Evaluate(q, t)
    <3>1. S \in SUBSET DOMAIN n.cur
      BY DEF CompletedTips
    <3> HIDE DEF S, m
    <3>2. t \in DOMAIN n.cur
      BY <2>4, <3>1, MostAdvancedOK
    <3> HIDE DEF t
    <3>3. c \in Cursor /\ c.tip = t /\ InReach(c)
      BY <3>2, CursorElim
    <3>4. c.state /= "replaying"
      BY <2>1, <3>2 DEF Unmarked
    <3>5. d = c \/ d = NoAudit(c)
      BY DEF RepairedWitness
    <3>6. q = n \/ q = Persist(Put(n, d))
      BY DEF Repaired
    <3>7. c = n.cur[t]
      OBVIOUS
    <3> HIDE DEF c
    <3>8. /\ d \in Cursor /\ InReach(d) /\ d.tip = t /\ d.ns = c.ns
          /\ d.anc = c.anc /\ d.state = c.state
      BY <3>3, <3>5, NoAuditOK
    <3> HIDE DEF d
    <3>9. LET o == Persist(Put(n, d))
          IN  /\ Valid(o) /\ Same(n, o) /\ DOMAIN o.cur = DOMAIN n.cur /\ o.cur[t] = d
              /\ \A u \in DOMAIN n.cur \ {t} : o.cur[u] = n.cur[u]
      BY <3>2, <3>8, UpdateOK, SMTT(30)
    <3>10. Valid(q) /\ Same(n, q) /\ Lineage(n, q) /\ Unmarked(q) /\ t \in DOMAIN q.cur
      BY <2>1, <3>2, <3>4, <3>6, <3>7, <3>8, <3>9, SameTrans, SMTT(30) DEF Lineage, Unmarked
    <3> HIDE DEF q
    <3>11. Starts(q, m)
      BY <2>4, <3>10, EvaluateOK
    <3>12. Starts(n, m)
      BY <3>10, <3>11, StartsAfter DEF Same
    <3> QED BY <2>1, <3>12 DEF m
  <2> QED BY <2>2, <2>3, <2>4
<1> QED BY <1>1, <1>2

-----------------------------------------------------------------------------
(* What a session asks and receives.                                       *)

AskHeaders ==
    {a \in [kind : {"witness"}, tip : Block, heights : SUBSET Nat] :
        \A h \in a.heights : h <= Number[a.tip]}

Ask == [kind : {"range"}, from : Nat] \cup [kind : {"ancestor"}, tip : Block]
           \cup AskHeaders

Reply == [kind : {"body", "ancestor"}, block : Block]
             \cup [kind : {"headers"}, tip : Block, heads : SUBSET Block]
             \cup [kind : {"eof"}]

Session == [on : BOOLEAN, asks : Seq(Ask), inbox : Seq(Reply), count : Nat]

\* The chain stays, and the recovery thread goes on or is started.
Proceeds(n, m) ==
    /\ Valid(m) /\ m.best = n.best
    /\ \/ m.worker = n.worker
       \/ /\ n.worker.pc = "idle" /\ m.worker.pc = "assemble"
          /\ m.worker.tip \in Block /\ m.worker.base = NoBlock

\* clear_canonical_recovery_cursor clears the spools of canonical tips.
LEMMA ClearCanonicalOK ==
    ASSUME NEW n, Valid(n)
    PROVE  LET m == ClearCanonical(n) IN Proceeds(n, m) /\ SpoolKept(n, m)
<1> DEFINE done == {t \in DOMAIN n.cur : OnChain(n, t)}
           unstarted == {t \in DOMAIN n.cur \ done : LET c == n.cur[t] IN
                           /\ Number[t] < Number[n.best] /\ ~ Started(c)
                           /\ c.staged = 0 /\ c.bodies = 0}
           gone == done \cup unstarted
           spools == {n.cur[t].ns : t \in done}
           f == [k \in Block |-> IF k \in spools THEN {} ELSE n.spool[k]]
           g == [k \in Block |-> IF k \in spools THEN {} ELSE n.disk[k]]
           o == [n EXCEPT !.spool = f, !.disk = g]
           q == Forget(o, gone)
           r == Rebind(q, gone, NoBlock)
           s == Persist(r)
           m == ClearCanonical(n)
<1>1. m = n \/ m = s
  BY DEF ClearCanonical
<1>2. n \in Node /\ Routed(n)
  BY DEF Valid
<1>3. /\ f \in [Block -> SUBSET Block] /\ g \in [Block -> SUBSET Block]
      /\ \A k \in Block \ spools : f[k] = n.spool[k]
  BY <1>2, NodeElim
<1>4. \A k \in spools : \E t \in DOMAIN n.cur : Spent(n, t, k)
  BY DEF Spent
<1> HIDE DEF m, f, g, gone, spools
<1>5. /\ o \in Node /\ o.best = n.best /\ o.worker = n.worker /\ o.spool = f
      /\ o.cur = n.cur /\ o.bind = n.bind
  BY <1>2, <1>3 DEF Node
<1> HIDE DEF o
<1>6. /\ q \in Node /\ Same(o, q) /\ q.bind = o.bind /\ DOMAIN q.cur = DOMAIN o.cur \ gone
  BY <1>5, ForgetOK
<1> HIDE DEF q
<1>7. /\ r \in Node /\ Same(q, r) /\ r.cur = q.cur
      /\ \A p \in Peer : r.bind[p] = IF q.bind[p] \in gone THEN NoBlock ELSE q.bind[p]
  BY <1>6, RebindOK, SMTT(30) DEF Maybe
<1> HIDE DEF r
<1>8. Routed(r)
  BY <1>2, <1>5, <1>6, <1>7 DEF Routed
<1>9. Valid(s) /\ Same(r, s)
  BY <1>7, <1>8, PersistOK DEF Valid
<1> HIDE DEF s
<1>10. Proceeds(n, s) /\ s.spool = f
  BY <1>5, <1>6, <1>7, <1>9 DEF Same, Proceeds
<1>11. SpoolKept(n, s)
  BY <1>3, <1>4, <1>10 DEF SpoolKept
<1>12. Proceeds(n, n) /\ SpoolKept(n, n)
  BY DEF Proceeds, SpoolKept
<1> QED BY <1>1, <1>10, <1>11, <1>12 DEF m

\* The requests of a job.
LEMMA AsksOK ==
    /\ \A from \in Nat : AskRange(from) \in Ask
    /\ \A n \in Node : AskAncestor(n) \in Ask
    /\ \A c \in Cursor : InReach(c) => AskWitness(c) \in Ask
<1>1. \A from \in Nat : AskRange(from) \in Ask
  BY DEF AskRange, Ask
<1>2. ASSUME NEW n \in Node
      PROVE  AskAncestor(n) \in Ask
  BY NodeElim DEF AskAncestor, Ask
<1>3. ASSUME NEW c \in Cursor, InReach(c)
      PROVE  AskWitness(c) \in Ask
  <2>1. c.tip \in Block /\ c.samples \in SUBSET Nat /\ \A h \in c.samples : h <= Number[c.tip]
    BY <1>3 DEF Cursor, InReach
  <2> QED BY <2>1 DEF AskWitness, Ask, AskHeaders
<1> QED BY <1>1, <1>2, <1>3

\* A request for the job p is bound to.
LEMMA RequestForOK ==
    ASSUME NEW n, Valid(n), NEW p \in Peer, Bound(n, p)
    PROVE  LET r == RequestFor(n, p)
           IN  Valid(r.db) /\ Same(n, r.db) /\ r.ask \in Ask
<1> DEFINE c == n.cur[n.bind[p]]
           h == NextHeight(c)
<1>1. c \in Cursor /\ h \in Nat /\ n \in Node
  BY CursorElim DEF Bound, Valid
<1>2. \/ RequestFor(n, p) = [db |-> RecordRequest(n, p, h), ask |-> AskRange(h)]
      \/ RequestFor(n, p) = [db |-> RecordRequest(n, p, 0), ask |-> AskAncestor(n)]
  BY DEF RequestFor, Requested
<1> HIDE DEF c, h
<1>3. /\ Valid(RecordRequest(n, p, h)) /\ Same(n, RecordRequest(n, p, h))
      /\ Valid(RecordRequest(n, p, 0)) /\ Same(n, RecordRequest(n, p, 0))
  BY <1>1, RecordRequestOK
<1>4. AskRange(h) \in Ask /\ AskAncestor(n) \in Ask
  BY <1>1, AsksOK
<1> QED BY <1>2, <1>3, <1>4, SMTT(30)

\* The retained job continues.
LEMMA ResumedOK ==
    ASSUME NEW c \in Cursor, InReach(c), NEW p \in Peer, NEW b \in Block
    PROVE  LET d == Resumed(c, p, b) IN d \in Cursor /\ InReach(d) /\ d.tip = c.tip
<1> DEFINE x == IF NextHeight(c) <= Number[b] THEN b ELSE c.parent
           d == [c EXCEPT !.parent = x, !.provider = p, !.state = "retrieving"]
<1>1. x \in Maybe
  BY DEF Cursor, Maybe
<1>2. Resumed(c, p, b) = d
  BY DEF Resumed
<1> HIDE DEF x
<1>3. d \in Cursor /\ d.tip = c.tip /\ d.samples = c.samples
  BY <1>1 DEF Cursor, Route, State
<1> HIDE DEF d
<1> QED BY <1>2, <1>3 DEF InReach

\* The job of a hello is resumed or created, and a request made for it.
LEMMA OpenedOK ==
    ASSUME NEW n, Valid(n), NEW p \in Peer, NEW t \in Block, NEW k
    PROVE  LET r == Opened(n, p, t, k)
           IN  Valid(r.db) /\ Same(n, r.db) /\ r.ask \in Ask
<1> DEFINE d == Resumed(n.cur[k], p, n.best)
           q1 == Bind(Put(n, d), p, k)
           q2 == Bind(IF t \in DOMAIN n.cur THEN n ELSE Put(n, NewCursor(t)), p, t)
           q == IF k \in DOMAIN n.cur /\ Started(n.cur[k]) THEN q1 ELSE q2
           s == Persist(q)
<1>0. n \in Node /\ Routed(n) /\ n.best \in Block
  BY NodeElim DEF Valid
<1>1. Opened(n, p, t, k) = RequestFor(s, p)
  BY DEF Opened
<1>2. Valid(q) /\ Same(n, q) /\ Bound(q, p)
  <2>1. CASE k \in DOMAIN n.cur /\ Started(n.cur[k])
    <3> DEFINE u == Put(n, d)
    <3>1. q = q1
      BY <2>1
    <3>2. d \in Cursor /\ InReach(d) /\ d.tip = k /\ k \in Maybe
      BY <1>0, <2>1, CursorElim, ResumedOK, SMTT(30) DEF Maybe
    <3> HIDE DEF d, q
    <3>3. /\ u \in Node /\ Same(n, u) /\ Routed(u) /\ k \in DOMAIN u.cur
      BY <1>0, <2>1, <3>2, PutOK, SMTT(30)
    <3> HIDE DEF u
    <3>4. LET v == Bind(u, p, k)
          IN  /\ v \in Node /\ Same(u, v) /\ v.cur = u.cur /\ v.bind[p] = k
              /\ \A x \in Peer \ {p} : v.bind[x] = u.bind[x]
      BY <3>2, <3>3, BindOK
    <3> QED BY <3>1, <3>3, <3>4 DEF u, Valid, Routed, Same, Bound
  <2>2. CASE ~ (k \in DOMAIN n.cur /\ Started(n.cur[k]))
    <3> DEFINE u == IF t \in DOMAIN n.cur THEN n ELSE Put(n, NewCursor(t))
    <3>1. q = q2
      BY <2>2
    <3>2. NewCursor(t) \in Cursor /\ NewCursor(t).tip = t /\ InReach(NewCursor(t))
      BY NewCursorOK
    <3> HIDE DEF q
    <3>3. /\ u \in Node /\ Same(n, u) /\ Routed(u) /\ t \in DOMAIN u.cur
      BY <1>0, <3>2, PutOK, SameTrans
    <3> HIDE DEF u
    <3>4. LET v == Bind(u, p, t)
          IN  /\ v \in Node /\ Same(u, v) /\ v.cur = u.cur /\ v.bind[p] = t
              /\ \A x \in Peer \ {p} : v.bind[x] = u.bind[x]
      BY <3>3, BindOK, SMTT(30) DEF Maybe
    <3> QED BY <3>1, <3>3, <3>4 DEF u, Valid, Routed, Same, Bound
  <2> QED BY <2>1, <2>2
<1> HIDE DEF q
<1>3. Valid(s) /\ Same(q, s) /\ Bound(s, p)
  BY <1>2, PersistOK DEF Valid, Bound
<1> HIDE DEF s
<1>4. Same(n, s)
  BY <1>2, <1>3, SameTrans
<1>5. LET r == RequestFor(s, p) IN Valid(r.db) /\ Same(s, r.db) /\ r.ask \in Ask
  BY <1>3, RequestForOK
<1> QED BY <1>1, <1>4, <1>5, SameTrans

\* request_peer_branch_cursor
LEMMA RequestBranchOK ==
    ASSUME NEW n, Valid(n), NEW p \in Peer, NEW t \in Block, NEW late, NEW first
    PROVE  LET r == RequestBranch(n, p, t, late, first)
           IN  /\ Proceeds(n, r.db) /\ SpoolKept(n, r.db)
               /\ r.ask \in Ask \cup {Nothing}
<1> DEFINE r == RequestBranch(n, p, t, late, first)
           q == Reconcile(n, p)
           u == PruneTerminal(q)
           k == DurableKey(u, p, first)
           j == Coalesce(u, p, t, u.cur[k].anc, u.cur[k].root, first)
<1>1. \/ r = [db |-> ClearCanonical(n), ask |-> Nothing]
      \/ r = [db |-> StartRecovery(q, late, first), ask |-> Nothing]
      \/ r = Opened(j, p, t, j.bind[p])
      \/ r = Opened(u, p, t, k)
  BY DEF RequestBranch, Reconciled, Chosen, Retargeted, OpenedJoined
<1> HIDE DEF r
<1>2. Valid(q) /\ Keeps(n, q) /\ SpoolKept(n, q)
  BY ReconcileOK
<1> HIDE DEF q
<1>3. Valid(u) /\ Same(q, u)
  BY <1>2, PruneTerminalOK
<1> HIDE DEF u
<1>4. Valid(j) /\ Same(u, j)
  BY <1>3, CoalesceOK
<1> HIDE DEF j, k
<1>5. CASE r = [db |-> ClearCanonical(n), ask |-> Nothing]
  BY <1>5, ClearCanonicalOK, SMTT(30) DEF r
<1>6. CASE r = [db |-> StartRecovery(q, late, first), ask |-> Nothing]
  <2> DEFINE m == StartRecovery(q, late, first)
  <2>1. m = q \/ (q.worker.pc = "idle" /\ Starts(q, m))
    BY <1>2, StartRecoveryOK
  <2> HIDE DEF m
  <2>2. Proceeds(n, m) /\ m.spool = q.spool
    BY <1>2, <2>1 DEF Proceeds, Keeps, Starts
  <2>3. SpoolKept(n, m)
    BY <1>2, <2>2 DEF SpoolKept
  <2> QED BY <1>6, <2>2, <2>3, SMTT(30) DEF m, r
<1>7. ASSUME NEW m, Valid(m), Same(u, m)
      PROVE  Proceeds(n, m) /\ SpoolKept(n, m)
  BY <1>2, <1>3, <1>7 DEF Proceeds, Keeps, Same, SpoolKept
<1>8. CASE r = Opened(u, p, t, k)
  <2>1. Valid(r.db) /\ Same(u, r.db) /\ r.ask \in Ask
    BY <1>3, <1>8, OpenedOK
  <2> QED BY <1>7, <2>1 DEF r
<1>9. CASE r = Opened(j, p, t, j.bind[p])
  <2>1. Valid(r.db) /\ Same(j, r.db) /\ r.ask \in Ask
    BY <1>4, <1>9, OpenedOK
  <2>2. Same(u, r.db)
    BY <1>4, <2>1, SameTrans
  <2> QED BY <1>7, <2>1, <2>2 DEF r
<1> QED BY <1>1, <1>5, <1>6, <1>8, <1>9

-----------------------------------------------------------------------------
(* Bodies and witness samples.                                             *)

\* The count of bodies stays a natural number.
LEMMA CountedOK ==
    ASSUME NEW n \in Nat
    PROVE  Counted(n) \in Nat
<1> DEFINE S == {Number[b] : b \in Block}
           d == Max(S)
<1>1. PICK b \in Block : \A x \in Block : Number[x] <= Number[b]
  <2>1. Block \in SUBSET Block /\ Block /= {} /\ \A x \in Block : Number[x] \in Int
    BY HeaderTypes, SMTT(30)
  <2> QED BY <2>1, GreatestValue
<1>2. Number[b] \in S /\ \A y \in S : Number[b] >= y
  BY <1>1, HeaderTypes
<1>3. d \in S
  <2> HIDE DEF S
  <2> QED BY <1>2 DEF Max
<1>4. d \in Nat
  BY <1>3, HeaderTypes
<1>5. CheckpointSize \in Nat
  BY RecoveryAssumption
<1>6. Counted(n) = IF n < d + CheckpointSize THEN n + 1 ELSE n + 1 - CheckpointSize
  BY DEF Counted
<1> HIDE DEF d
<1> QED BY <1>4, <1>5, <1>6, SMTT(30)

\* record_forward_recovery_progress
LEMMA ProgressOK ==
    ASSUME NEW n, Valid(n), NEW t \in DOMAIN n.cur, NEW c \in Cursor, c.tip = t,
           InReach(c), NEW b \in Block
    PROVE  LET m == Progress(n, c, b)
           IN  Valid(m) /\ Same(n, m) /\ m.bind = n.bind /\ DOMAIN m.cur = DOMAIN n.cur
<1> DEFINE root == IF c.root = NoBlock /\ Number[b] = Number[c.anc] + 1 THEN b ELSE c.root
           s == IF Number[b] >= Number[c.tip] THEN "complete" ELSE "retrieving"
           bodies == Counted(c.bodies)
           d == [c EXCEPT !.root = root, !.bodies = bodies, !.staged = Number[b],
                          !.parent = b, !.progressed = TRUE, !.state = s]
           q == Put(n, d)
<1>1. root \in Maybe /\ s \in State /\ bodies \in Nat /\ Number[b] \in Nat /\ b \in Maybe
  BY CountedOK, HeaderTypes DEF Cursor, Maybe, State
<1>2. Progress(n, c, b) = Checkpoint(n, d)
  BY DEF Progress
<1> HIDE DEF root, s, bodies
<1>3. d \in Cursor /\ d.tip = t /\ d.samples = c.samples
  BY <1>1 DEF Cursor
<1> HIDE DEF d
<1>4. InReach(d)
  BY <1>3 DEF InReach
<1>5. /\ q \in Node /\ Same(n, q) /\ Routed(q) /\ q.bind = n.bind
      /\ DOMAIN q.cur = DOMAIN n.cur
  <2>1. DOMAIN n.cur \cup {t} = DOMAIN n.cur
    OBVIOUS
  <2>2. n \in Node /\ Routed(n)
    BY DEF Valid
  <2>3. /\ q \in Node /\ Same(n, q) /\ Routed(q) /\ q.bind = n.bind
        /\ DOMAIN q.cur = DOMAIN n.cur \cup {d.tip}
    BY <1>3, <1>4, <2>2, PutOK
  <2> QED BY <1>3, <2>1, <2>3
<1>6. Progress(n, c, b) = Persist(q) \/ Progress(n, c, b) = q
  BY <1>2 DEF Checkpoint
<1> HIDE DEF q
<1>7. /\ Valid(Persist(q)) /\ Same(q, Persist(q)) /\ Persist(q).bind = q.bind
      /\ Persist(q).cur = q.cur
  BY <1>5, PersistOK DEF Valid
<1> QED BY <1>5, <1>6, <1>7, SameTrans, SMTT(30) DEF Valid

\* What an audit changes of a cursor.
LEMMA CursorFields ==
    ASSUME NEW c \in Cursor
    PROVE  /\ c.mine \in SUBSET Block /\ c.theirs \in SUBSET Block
           /\ c.mode \in Mode /\ c.state \in State
BY DEF Cursor

\* record_primary_witness_sample
LEMMA PrimarySampleOK ==
    ASSUME NEW c \in Cursor, InReach(c), NEW b \in Block
    PROVE  LET d == PrimarySample(c, b) IN d \in Cursor /\ InReach(d) /\ d.tip = c.tip
<1> DEFINE A == Spooled(c.mine, b)
           d == [c EXCEPT !.mine = A]
           e == [d EXCEPT !.mode = "cross-checked"]
           f == [d EXCEPT !.mode = "conflicting", !.state = "conflicting"]
           g == [d EXCEPT !.state = "complete"]
           h == [e EXCEPT !.state = "complete"]
           r == PrimarySample(c, b)
<1>1. r \in {c, d, e, f, g, h}
  BY DEF PrimarySample, Conflict
<1>2. A \in SUBSET Block
  BY CursorFields DEF Spooled
<1> HIDE DEF A, r
<1>3. d \in Cursor /\ d.tip = c.tip /\ d.samples = c.samples
  BY <1>2 DEF Cursor
<1> HIDE DEF d
<1>4. e \in Cursor /\ e.tip = c.tip /\ e.samples = c.samples
  BY <1>3 DEF Cursor, Mode
<1>5. f \in Cursor /\ f.tip = c.tip /\ f.samples = c.samples
  BY <1>3 DEF Cursor, Mode, State
<1>6. g \in Cursor /\ g.tip = c.tip /\ g.samples = c.samples
  BY <1>3 DEF Cursor, State
<1> HIDE DEF e, f, g
<1>7. h \in Cursor /\ h.tip = c.tip /\ h.samples = c.samples
  BY <1>4 DEF Cursor, State
<1> HIDE DEF h
<1>8. r \in Cursor /\ r.tip = c.tip /\ r.samples = c.samples
  BY <1>1, <1>3, <1>4, <1>5, <1>6, <1>7
<1> QED BY <1>8 DEF InReach, r

\* record_witness_headers
LEMMA WitnessSampleOK ==
    ASSUME NEW c \in Cursor, InReach(c), NEW heads \in SUBSET Block
    PROVE  LET d == WitnessSample(c, heads) IN d \in Cursor /\ InReach(d) /\ d.tip = c.tip
<1> DEFINE bad == Offending(c, heads)
           taken == {b \in heads : \A x \in bad : Number[b] < Number[x]}
           B == {x \in c.theirs : \A b \in taken : Number[x] /= Number[b]} \cup taken
           d == [c EXCEPT !.theirs = B]
           s == IF Finished(d) THEN "complete" ELSE d.state
           e == [d EXCEPT !.mode = "cross-checked", !.state = s]
           f == [d EXCEPT !.mode = "conflicting", !.state = "conflicting"]
           r == WitnessSample(c, heads)
<1>1. r \in {d, e, f}
  BY DEF WitnessSample, Conflict
<1>2. B \in SUBSET Block
  BY CursorFields
<1> HIDE DEF B, r
<1>3. d \in Cursor /\ d.tip = c.tip /\ d.samples = c.samples
  BY <1>2 DEF Cursor
<1> HIDE DEF d
<1>4. s \in State
  BY <1>3, CursorFields DEF State
<1> HIDE DEF s
<1>5. e \in Cursor /\ e.tip = c.tip /\ e.samples = c.samples
  BY <1>3, <1>4 DEF Cursor, Mode
<1>6. f \in Cursor /\ f.tip = c.tip /\ f.samples = c.samples
  BY <1>3 DEF Cursor, Mode, State
<1> HIDE DEF e, f
<1>7. r \in Cursor /\ r.tip = c.tip /\ r.samples = c.samples
  BY <1>1, <1>3, <1>5, <1>6
<1> QED BY <1>7 DEF InReach, r

-----------------------------------------------------------------------------
(* The restart.                                                            *)

\* A job that has all its bodies is complete.
Settled(f) ==
    \A t \in DOMAIN f : Started(f[t]) /\ Finished(f[t]) => f[t].state = "complete"

\* normalize_branch_sync_cursors
LEMMA NormalizedOK ==
    ASSUME NEW cur \in Jobs
    PROVE  Normalized(cur) \in Jobs /\ Settled(Normalized(cur))
<1> DEFINE done == [t \in DOMAIN cur |->
                      IF Started(cur[t]) /\ Finished(cur[t])
                      THEN [cur[t] EXCEPT !.state = "complete"] ELSE cur[t]]
           D == {t \in DOMAIN cur : \A u \in DOMAIN cur : ~ Duplicate(done[t], done[u])}
           f == [t \in D |-> done[t]]
<1>1. Normalized(cur) = f
  BY DEF Normalized, Restrict
<1>2. D \in SUBSET Block /\ D \subseteq DOMAIN cur
  BY JobsElim
<1>3. ASSUME NEW t \in DOMAIN cur
      PROVE  /\ done[t] \in Cursor /\ done[t].tip = t /\ InReach(done[t])
             /\ Started(done[t]) /\ Finished(done[t]) => done[t].state = "complete"
  <2> DEFINE c == cur[t]
             d == [c EXCEPT !.state = "complete"]
  <2>1. c \in Cursor /\ c.tip = t /\ InReach(c)
    BY JobsElim
  <2>2. done[t] = IF Started(c) /\ Finished(c) THEN d ELSE c
    OBVIOUS
  <2> HIDE DEF c, done
  <2>3. /\ d \in Cursor /\ d.tip = t /\ d.samples = c.samples /\ d.state = "complete"
    BY <2>1 DEF Cursor, State
  <2> HIDE DEF d
  <2>4. InReach(d)
    BY <2>1, <2>3 DEF InReach
  <2> QED BY <2>1, <2>2, <2>3, <2>4
<1> HIDE DEF done, D
<1>4. /\ f \in [D -> Cursor] /\ \A t \in D : f[t].tip = t /\ InReach(f[t])
      /\ \A t \in D : Started(f[t]) /\ Finished(f[t]) => f[t].state = "complete"
  BY <1>2, <1>3
<1>5. DOMAIN f = D
  OBVIOUS
<1> HIDE DEF f
<1>6. f \in Jobs
  BY <1>2, <1>4, JobsIntro
<1> QED BY <1>1, <1>4, <1>5, <1>6 DEF Settled

\* The bodies that are left after a crash.
LEMMA TornOK ==
    ASSUME NEW n \in Node, NEW h
    PROVE  Torn(n, h) \in [Block -> SUBSET Block]
<1>1. \A ns \in Block : n.spool[ns] \subseteq Block /\ n.disk[ns] \subseteq Block
  BY NodeElim
<1> QED BY <1>1 DEF Torn

\* The node before the first call of start_candidate_recovery.
LEMMA RestartedOK ==
    ASSUME Valid(db), NEW spool \in [Block -> SUBSET Block], NEW cur \in Jobs
    PROVE  LET m == Restarted(spool, cur)
           IN  Valid(m) /\ m.best = db.best /\ m.worker = Idle /\ m.cur = cur
<1> DEFINE f == [p \in Peer |-> NoBlock]
           m == [db EXCEPT !.spool = spool, !.disk = spool, !.cur = cur, !.saved = cur,
                           !.bind = f, !.worker = Idle]
<1>1. f \in [Peer -> Maybe] /\ Idle \in Worker /\ \A p \in Peer : f[p] = NoBlock
  BY DEF Maybe, Idle, Worker
<1>2. db \in Node
  BY DEF Valid
<1>3. Restarted(spool, cur) = m
  BY DEF Restarted
<1> HIDE DEF f
<1>4. /\ m \in Node /\ m.best = db.best /\ m.worker = Idle /\ m.cur = cur /\ m.bind = f
  BY <1>1, <1>2 DEF Node
<1> HIDE DEF m
<1>5. Routed(m)
  BY <1>1, <1>4 DEF Routed
<1> QED BY <1>3, <1>4, <1>5 DEF Valid

\* The first body of a spool.
LEMMA LowestOK ==
    ASSUME NEW S \in SUBSET Block, S /= {}
    PROVE  Lowest(S) \in S
<1> DEFINE T == {Number[b] : b \in S}
<1>1. T \in SUBSET Nat /\ T /= {}
  BY HeaderTypes
<1>2. PICK m \in T : \A k \in T : m <= k
  BY <1>1, LeastNatural
<1>3. PICK b \in S : m = Number[b]
  BY <1>2
<1>4. \A x \in S : Number[b] <= Number[x]
  BY <1>2, <1>3
<1> QED BY <1>4 DEF Lowest

\* The job made for a spool that no cursor names.
LEMMA SpoolJobOK ==
    ASSUME NEW ns \in Block, NEW low \in Block, low /= Genesis, NEW last \in Block,
           last = Parent[low] \/ Number[last] > Number[Parent[low]]
    PROVE  LET c == SpoolJob(ns, low, last)
           IN  c \in Cursor /\ c.tip = last /\ InReach(c) /\ c.state = "complete"
<1> DEFINE a == Parent[low]
           bodies == Number[last] - Number[low] + 1
           c == [NewCursor(last) EXCEPT
                    !.ns = ns, !.anc = a, !.root = low, !.bodies = bodies,
                    !.staged = Number[last], !.parent = last, !.state = "complete"]
<1>1. a \in Maybe /\ low \in Maybe /\ last \in Maybe /\ Number[last] \in Nat
  BY HeaderTypes DEF Maybe
<1>2. bodies \in Nat
  BY HeaderTypes, HeaderStep, SMTT(30)
<1>3. SpoolJob(ns, low, last) = c
  BY DEF SpoolJob
<1>4. NewCursor(last) \in Cursor /\ NewCursor(last).tip = last /\ NewCursor(last).samples = {}
  BY NewCursorOK DEF NewCursor
<1> HIDE DEF a, bodies
<1>5. c \in Cursor /\ c.tip = last /\ c.samples = {} /\ c.state = "complete"
  BY <1>1, <1>2, <1>4 DEF Cursor, State
<1> HIDE DEF c
<1> QED BY <1>3, <1>5 DEF InReach

\* restore_orphaned_recovery_spools: the restored jobs are complete.
LEMMA RestoredSpoolsOK ==
    ASSUME NEW n, Valid(n), Settled(n.cur)
    PROVE  LET m == RestoredSpools(n)
           IN  Valid(m) /\ m.best = n.best /\ m.worker = n.worker /\ Settled(m.cur)
<1> DEFINE O == Orphaned(n)
           end(ns) == SpoolEnd(n.spool[ns])
           ends == {end(ns) : ns \in O}
           owner(t) == CHOOSE ns \in O : /\ end(ns) = t
                                         /\ \A x \in O : end(x) = t => HashRank[x] <= HashRank[ns]
           job(t) == SpoolJob(owner(t), Lowest(n.spool[owner(t)]), t)
           D == DOMAIN n.cur \cup ends
           f == [t \in D |-> IF t \in ends THEN job(t) ELSE n.cur[t]]
           q == [n EXCEPT !.cur = f]
           m == RestoredSpools(n)
<1>1. m = n \/ m = Persist(q)
  BY DEF RestoredSpools
<1> HIDE DEF m
<1>2. n \in Node /\ Routed(n)
  BY DEF Valid
<1>3. ASSUME NEW ns \in O
      PROVE  /\ ns \in Block /\ end(ns) \in Block /\ Lowest(n.spool[ns]) \in Block
             /\ Lowest(n.spool[ns]) /= Genesis
             /\ LET a == Parent[Lowest(n.spool[ns])]
                IN  end(ns) = a \/ Number[end(ns)] > Number[a]
  <2> DEFINE S == n.spool[ns]
  <2>1. ns \in Block /\ S /= {} /\ Lowest(S) /= Genesis
    BY DEF Orphaned
  <2>2. S \in SUBSET Block
    BY <1>2, <2>1, NodeElim
  <2> HIDE DEF S
  <2>3. Lowest(S) \in Block /\ Parent[Lowest(S)] \in Block
    BY <2>1, <2>2, LowestOK, HeaderTypes
  <2>4. LET r == ContinuedTo(S, Parent[Lowest(S)])
        IN  r \in Block /\ (r = Parent[Lowest(S)] \/ Number[r] > Number[Parent[Lowest(S)]])
    BY <2>2, <2>3, ContinuedToOK
  <2> QED BY <2>1, <2>3, <2>4 DEF SpoolEnd, S
<1> HIDE DEF O, end
<1>4. ASSUME NEW t \in ends
      PROVE  owner(t) \in O /\ end(owner(t)) = t
  <2> DEFINE T == {ns \in O : end(ns) = t}
  <2>1. T \in SUBSET Block /\ T /= {}
    BY <1>3
  <2>2. PICK x \in T : \A y \in T : HashRank[y] <= HashRank[x]
    BY <2>1, LastInOrder
  <2>3. x \in O /\ end(x) = t /\ \A y \in O : end(y) = t => HashRank[y] <= HashRank[x]
    BY <2>2
  <2> QED BY <2>3
<1>5. ends \subseteq Block
  BY <1>3
<1> HIDE DEF owner
<1>6. ASSUME NEW t \in ends
      PROVE  job(t) \in Cursor /\ job(t).tip = t /\ InReach(job(t)) /\ job(t).state = "complete"
  <2>1. owner(t) \in O /\ end(owner(t)) = t
    BY <1>4
  <2> QED BY <1>3, <2>1, SpoolJobOK, SMTT(30)
<1> HIDE DEF job, ends
<1>7. D \in SUBSET Block /\ \A t \in DOMAIN n.cur : /\ n.cur[t] \in Cursor
                                                   /\ n.cur[t].tip = t /\ InReach(n.cur[t])
  BY <1>2, <1>5, NodeElim
<1>8. /\ f \in [D -> Cursor] /\ \A t \in D : f[t].tip = t /\ InReach(f[t])
      /\ \A t \in D : t \in ends => f[t].state = "complete"
      /\ \A t \in D : t \notin ends => t \in DOMAIN n.cur /\ f[t] = n.cur[t]
  BY <1>6, <1>7
<1>9. DOMAIN f = D
  OBVIOUS
<1> HIDE DEF f
<1>10. f \in Jobs
  BY <1>7, <1>8, JobsIntro
<1>11. Settled(f)
  BY <1>8, <1>9 DEF Settled
<1>12. q \in Node /\ q.cur = f /\ q.bind = n.bind /\ Same(n, q)
  BY <1>2, <1>10, WithCur
<1> HIDE DEF q
<1>13. Routed(q)
  BY <1>2, <1>9, <1>12 DEF Routed, D
<1>14. Valid(Persist(q)) /\ Same(q, Persist(q)) /\ Persist(q).cur = f
  BY <1>12, <1>13, PersistOK DEF Valid
<1> QED BY <1>1, <1>11, <1>12, <1>14 DEF m, Same

\* What a crash leaves: the chain, and no mark on a job without a thread.
LEMMA RestartOK ==
    ASSUME Valid(db), NEW h, NEW late, NEW first
    PROVE  LET m == StartRecovery(RestoredSpools(Restarted(Torn(db, h), Normalized(db.saved))),
                                  late, first)
           IN  /\ Valid(m) /\ m.best = db.best
               /\ \/ m.worker = Idle /\ \A t \in DOMAIN m.cur :
                         Started(m.cur[t]) /\ Finished(m.cur[t]) => m.cur[t].state /= "replaying"
                  \/ /\ m.worker.pc = "assemble" /\ m.worker.tip \in Block
                     /\ m.worker.base = NoBlock
<1> DEFINE q == Restarted(Torn(db, h), Normalized(db.saved))
           r == RestoredSpools(q)
           m == StartRecovery(r, late, first)
<1>1. db \in Node /\ db.saved \in Jobs
  BY NodeElim DEF Valid
<1>2. Valid(q) /\ q.best = db.best /\ q.worker = Idle /\ Settled(q.cur)
  BY <1>1, TornOK, NormalizedOK, RestartedOK
<1> HIDE DEF q
<1>3. Valid(r) /\ r.best = db.best /\ r.worker = Idle /\ Settled(r.cur)
  BY <1>2, RestoredSpoolsOK
<1> HIDE DEF r
<1>4. m = r \/ Starts(r, m)
  BY <1>3, StartRecoveryOK
<1> HIDE DEF m
<1>5. CASE m = r
  BY <1>3, <1>5 DEF m, r, q, Settled
<1>6. CASE Starts(r, m)
  BY <1>3, <1>6 DEF m, r, q, Starts, Unmarked
<1> QED BY <1>4, <1>5, <1>6

=============================================================================
