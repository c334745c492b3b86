--------------------------- MODULE Sessions_proofs ---------------------------
(***************************************************************************)
(* Proofs about Sessions: the counters and leases are exactly what the     *)
(* live threads hold, and inbound handlers leave sync workers the reserve, *)
(* for any number of routes, hosts and peers and any limits.               *)
(***************************************************************************)
EXTENDS Sessions, FiniteSetTheorems, SequenceTheorems, TLAPS

\* Zenon proves the steps that name no other prover.
USE Zenon

(***************************************************************************)
(* The operators                                                           *)
(***************************************************************************)

(* A nonempty set of routes has a most preferred one: the intervals that   *)
(* end in their places are finite sets, which strict inclusion orders well *)
(* (preferred_peer_route, the sort in remember_verified_peer_route).       *)
LEMMA MostPreferred ==
    ASSUME NEW R \in SUBSET Route, R /= {}
    PROVE  \E r \in R : \A s \in R : Preference[r] <= Preference[s]
<1> DEFINE T == {Preference[r] : r \in R}
           U == {0..n : n \in T}
<1>1. T \in SUBSET Nat /\ T /= {}
  BY SessionsAssumption, SMTT(30)
<1>2. U \subseteq FiniteSubsetsOf(Nat) /\ U /= {}
  <2> HIDE DEF T
  <2>1. ASSUME NEW n \in T
        PROVE  0..n \in FiniteSubsetsOf(Nat)
    <3>1. IsFiniteSet(0..n) /\ 0..n \subseteq Nat
      BY <1>1, FS_Interval, SMTT(30)
    <3> QED BY <3>1 DEF FiniteSubsetsOf
  <2> QED BY <1>1, <2>1
<1>3. PICK x \in U : \A y \in U : <<y, x>> \notin StrictSubsetOrdering(Nat)
  BY <1>2, FS_StrictSubsetOrderingWellFounded, WFMin
<1>4. \E m \in T : \A k \in T : m <= k
  <2> HIDE DEF T
  <2>1. PICK m \in T : x = 0..m
    OBVIOUS
  <2>2. ASSUME NEW k \in T, k < m
        PROVE  FALSE
    <3>1. 0..k \in U /\ 0..k \subseteq 0..m /\ m \in 0..m /\ m \notin 0..k
      BY <1>1, <2>2, SMTT(30)
    <3>2. 0..k \in SUBSET Nat /\ 0..m \in SUBSET Nat /\ 0..k /= 0..m
      BY <1>1, <3>1, SMTT(30)
    <3>3. <<0..k, 0..m>> \in StrictSubsetOrdering(Nat)
      BY <3>1, <3>2 DEF StrictSubsetOrdering
    <3> QED BY <1>3, <2>1, <3>1, <3>3
  <2> QED BY <1>1, <2>2, SMTT(30)
<1> QED BY <1>4

(* A sorted and truncated route list is neither empty nor over the limit:  *)
(* no two routes have the same number of better ones (the sort and the     *)
(* truncation in remember_verified_peer_route).                            *)
LEMMA BestRoutesFit ==
    ASSUME NEW R \in SUBSET Route, R /= {}
    PROVE  /\ BestRoutes(R) \in SUBSET Route
           /\ Cardinality(BestRoutes(R)) \in 1..MaxRoutes
<1> DEFINE Better(r) == {s \in R : Preference[s] < Preference[r]}
           B == BestRoutes(R)
           f == [r \in B |-> Cardinality(Better(r))]
<1>1. /\ MaxRoutes \in Nat \ {0} /\ IsFiniteSet(Route)
      /\ \A r \in Route : Preference[r] \in Nat
      /\ \A r, s \in Route : Preference[r] = Preference[s] => r = s
  BY SessionsAssumption, SMTT(30)
<1>2. B = {r \in R : Cardinality(Better(r)) < MaxRoutes}
  BY DEF BestRoutes
<1>3. IsFiniteSet(R) /\ IsFiniteSet(B) /\ B \subseteq Route
  <2>1. B \in SUBSET Route
    BY <1>2
  <2> QED BY <1>1, <2>1, FS_Subset
<1>4. ASSUME NEW r \in R
      PROVE  IsFiniteSet(Better(r)) /\ Cardinality(Better(r)) \in Nat
  <2>1. Better(r) \in SUBSET R
    OBVIOUS
  <2>2. IsFiniteSet(Better(r))
    BY <1>3, <2>1, FS_Subset
  <2> HIDE DEF Better
  <2> QED BY <2>2, FS_CardinalityType
<1>5. ASSUME NEW r \in R, NEW s \in R, Preference[r] < Preference[s]
      PROVE  Cardinality(Better(r)) < Cardinality(Better(s))
  <2>1. Better(r) \in SUBSET Better(s) /\ r \in Better(s) /\ r \notin Better(r)
    BY <1>1, <1>5, SMTT(30)
  <2>2. IsFiniteSet(Better(s)) /\ Cardinality(Better(s)) \in Nat /\ Cardinality(Better(r)) \in Nat
    BY <1>4
  <2> HIDE DEF Better
  <2>3. /\ Cardinality(Better(r)) <= Cardinality(Better(s))
        /\ Cardinality(Better(s)) = Cardinality(Better(r)) => Better(s) = Better(r)
    BY <2>1, <2>2, FS_Subset
  <2> QED BY <2>1, <2>2, <2>3, SMTT(30)
<1>6. f \in Injection(B, 0 .. MaxRoutes - 1)
  <2>1. ASSUME NEW r \in B
        PROVE  Cardinality(Better(r)) \in 0 .. MaxRoutes - 1
    <3>1. r \in R /\ Cardinality(Better(r)) < MaxRoutes
      BY <1>2
    <3>2. Cardinality(Better(r)) \in Nat
      BY <1>4, <3>1
    <3> HIDE DEF Better
    <3> QED BY <1>1, <3>1, <3>2, SMTT(30)
  <2>2. ASSUME NEW r \in B, NEW s \in B, Cardinality(Better(r)) = Cardinality(Better(s))
        PROVE  r = s
    <3>1. r \in R /\ s \in R
      BY <1>2
    <3>2. Cardinality(Better(r)) \in Nat /\ Cardinality(Better(s)) \in Nat
      BY <1>4, <3>1
    <3> HIDE DEF Better
    <3>3. ~(Preference[r] < Preference[s]) /\ ~(Preference[s] < Preference[r])
      BY <1>5, <2>2, <3>1, <3>2, SMTT(30)
    <3> QED BY <1>1, <3>1, <3>3, SMTT(30)
  <2> HIDE DEF Better, B
  <2> QED BY <2>1, <2>2 DEF Injection, IsInjective
<1>7. Cardinality(B) <= MaxRoutes
  <2>1. /\ IsFiniteSet(0 .. MaxRoutes - 1)
        /\ Cardinality(0 .. MaxRoutes - 1) = MaxRoutes
    <3>1. MaxRoutes - 1 \in Int /\ MaxRoutes \in Nat /\ MaxRoutes > 0
      BY <1>1, SMTT(30)
    <3> QED BY <3>1, FS_Interval, SMTT(30)
  <2> HIDE DEF f, B
  <2> QED BY <1>6, <2>1, FS_Injection, SMTT(30)
<1>8. B /= {}
  <2>1. PICK r \in R : \A s \in R : Preference[r] <= Preference[s]
    BY MostPreferred
  <2>2. Better(r) = {}
    BY <1>1, <2>1, SMTT(30)
  <2>3. Cardinality(Better(r)) = 0
    BY <2>2, FS_EmptySet
  <2> QED BY <1>1, <1>2, <2>3, SMTT(30)
<1>9. Cardinality(B) \in Nat /\ Cardinality(B) /= 0
  <2> HIDE DEF B
  <2> QED BY <1>3, <1>8, FS_EmptySet, FS_CardinalityType
<1> QED BY <1>1, <1>3, <1>7, <1>9, SMTT(30)

(* Taking an entry out of a list leaves a list of the same entries, not    *)
(* longer.                                                                 *)
LEMMA WithoutFits ==
    ASSUME NEW S, NEW s \in Seq(S), NEW K \in SUBSET DOMAIN s
    PROVE  Without(s, K) \in Seq(S) /\ Len(Without(s, K)) <= Len(s)
<1>1. Len(s) \in Nat /\ DOMAIN s = 1..Len(s) /\ \A n \in 1..Len(s) : s[n] \in S
  BY LenProperties, ElementOfSeq
<1>2. CASE K = {}
  BY <1>1, <1>2, SMTT(30) DEF Without
<1>3. CASE K /= {}
  <2> DEFINE k == CHOOSE k \in K : TRUE
             a == SubSeq(s, 1, k - 1)
             b == SubSeq(s, k + 1, Len(s))
  <2>0. Len(s) \in Nat
    BY <1>1
  <2>1. k \in 1..Len(s)
    BY <1>1, <1>3
  <2>2. Without(s, K) = a \o b
    BY <1>3 DEF Without
  <2> HIDE DEF k
  <2>3. a \in Seq(S) /\ Len(a) = k - 1
    <3>1. k - 1 \in Int /\ 1 \in Int /\ \A n \in 1 .. k - 1 : s[n] \in S
      BY <1>1, <2>1, SMTT(30)
    <3>2. a \in Seq(S) /\ Len(a) = IF 1 <= k - 1 THEN k - 1 - 1 + 1 ELSE 0
      BY <3>1, SubSeqProperties, SMTT(30)
    <3> HIDE DEF a
    <3> QED BY <2>1, <3>2, SMTT(30)
  <2>4. b \in Seq(S) /\ Len(b) = Len(s) - k
    <3>1. k + 1 \in Int /\ Len(s) \in Int /\ \A n \in k + 1 .. Len(s) : s[n] \in S
      BY <1>1, <2>1, SMTT(30)
    <3>2. b \in Seq(S) /\ Len(b) = IF k + 1 <= Len(s) THEN Len(s) - (k + 1) + 1 ELSE 0
      BY ZenonT(30), <3>1, SubSeqProperties
    <3>3. (IF k + 1 <= Len(s) THEN Len(s) - (k + 1) + 1 ELSE 0) = Len(s) - k
      BY <2>0, <2>1, SMTT(30)
    <3> HIDE DEF b
    <3> QED BY <3>2, <3>3, SMTT(30)
  <2>5. a \o b \in Seq(S) /\ Len(a \o b) = Len(a) + Len(b)
    <3> HIDE DEF a, b
    <3> QED BY <2>3, <2>4, ConcatProperties
  <2> HIDE DEF a, b
  <2> QED BY <1>1, <2>1, <2>2, <2>3, <2>4, <2>5, SMTT(30)
<1> QED BY <1>2, <1>3

(* The remembered peers stay within max_saved_peers, each with a route and *)
(* no more than MAX_ROUTES_PER_SAVED_PEER (trim_cached_peer_routes).       *)
LEMMA RememberFits ==
    ASSUME cache \in Seq(SavedPeer), Len(cache) <= MaxSaved, NEW r \in Route
    PROVE  /\ Remember(r, Owner[r]) \in Seq(SavedPeer)
           /\ Len(Remember(r, Owner[r])) <= MaxSaved
<1> DEFINE i == Owner[r]
           entry == [id |-> i, routes |-> BestRoutes(RoutesOf(i) \cup {r})]
           rest == Without(cache, {k \in DOMAIN cache : cache[k].id = i})
           all == Append(rest, entry)
<1>1. entry \in SavedPeer
  <2>1. i \in Identity
    BY SessionsAssumption
  <2>2. Range(cache) \subseteq SavedPeer
    BY RangeOfSeq
  <2>3. RoutesOf(i) \cup {r} \in SUBSET Route
    BY <2>2 DEF RoutesOf, SavedPeer
  <2>4. /\ BestRoutes(RoutesOf(i) \cup {r}) \in SUBSET Route
        /\ Cardinality(BestRoutes(RoutesOf(i) \cup {r})) \in 1..MaxRoutes
    BY <2>3, BestRoutesFit
  <2> QED BY <2>1, <2>4 DEF SavedPeer
<1>2. rest \in Seq(SavedPeer)
  BY WithoutFits
<1> HIDE DEF rest, entry
<1>3. all \in Seq(SavedPeer) /\ Len(all) \in Nat
  BY <1>1, <1>2, AppendProperties, LenProperties
<1>4. MaxSaved \in Nat
  BY SessionsAssumption
<1>5. Remember(r, i) = IF Len(all) > MaxSaved THEN SubSeq(all, Len(all) - MaxSaved + 1, Len(all))
                                              ELSE all
  BY DEF Remember, rest, entry
<1>6. CASE Len(all) > MaxSaved
  <2> HIDE DEF all
  <2>1. \A n \in Len(all) - MaxSaved + 1 .. Len(all) : all[n] \in SavedPeer
    BY <1>3, <1>4, <1>6, ElementOfSeq, SMTT(30)
  <2>2. /\ SubSeq(all, Len(all) - MaxSaved + 1, Len(all)) \in Seq(SavedPeer)
        /\ Len(SubSeq(all, Len(all) - MaxSaved + 1, Len(all))) <= MaxSaved
    BY <1>3, <1>4, <2>1, SubSeqProperties, SMTT(30)
  <2> QED BY <1>5, <1>6, <2>2
<1>7. CASE ~(Len(all) > MaxSaved)
  <2> HIDE DEF all
  <2> QED BY <1>3, <1>4, <1>5, <1>7, SMTT(30)
<1> QED BY <1>6, <1>7

(***************************************************************************)
(* The score book                                                          *)
(***************************************************************************)

(* A valid message keeps the book typed (PeerScoreBook::observe_valid).    *)
LEMMA ObserveFits ==
    ASSUME NEW b \in [PeerId -> PeerScore], NEW p \in PeerId
    PROVE  Observe(b, p) \in [PeerId -> PeerScore]
<1> DEFINE n == IF b[p].score + 1 < MaxScore THEN b[p].score + 1 ELSE MaxScore
<1>1. MaxScore \in Int /\ \A q \in PeerId : b[q] \in PeerScore /\ b[q].score \in Int
  BY SessionsAssumption, SMTT(30) DEF PeerScore
<1>2. CASE b[p].banned
  BY <1>2 DEF Observe
<1>3. CASE ~b[p].banned
  <2>1. Observe(b, p) = [b EXCEPT ![p] = [b[p] EXCEPT !.score = n]]
    BY <1>3 DEF Observe
  <2>2. [b[p] EXCEPT !.score = n] \in PeerScore
    <3>1. n \in Int
      BY <1>1, SMTT(30)
    <3> HIDE DEF n
    <3> QED BY <1>1, <3>1 DEF PeerScore
  <2> HIDE DEF n
  <2> QED BY <2>1, <2>2
<1> QED BY <1>2, <1>3

(* A penalty keeps the book typed (PeerScoreBook::penalize).               *)
LEMMA PenalizeFits ==
    ASSUME NEW b \in [PeerId -> PeerScore], NEW p \in PeerId, NEW n \in Nat
    PROVE  Penalize(b, p, n) \in [PeerId -> PeerScore]
<1> DEFINE new == [score |-> b[p].score - n,
                   banned |-> b[p].banned \/ b[p].score - n <= BanThreshold,
                   cooling |-> b[p].cooling \/ b[p].score - n <= BanThreshold]
<1>1. \A q \in PeerId : b[q] \in PeerScore /\ b[q].score \in Int
  BY DEF PeerScore
<1>2. Penalize(b, p, n) = [b EXCEPT ![p] = new]
  BY DEF Penalize
<1>3. new \in PeerScore
  <2>1. b[p].score - n \in Int
    BY <1>1, SMTT(30)
  <2>2. /\ (b[p].banned \/ b[p].score - n <= BanThreshold) \in BOOLEAN
        /\ (b[p].cooling \/ b[p].score - n <= BanThreshold) \in BOOLEAN
    OBVIOUS
  <2> QED BY <2>1, <2>2 DEF PeerScore
<1> HIDE DEF new
<1> QED BY <1>2, <1>3

(* Every step but a restart keeps the score book typed.                    *)
LEMMA ScoreStep ==
    ASSUME score \in [PeerId -> PeerScore],
           lease \in [Route -> Identity \cup {NoIdentity}], Next, ~Restart
    PROVE  score' \in [PeerId -> PeerScore]
<1> DEFINE Goal == score' \in [PeerId -> PeerScore]
<1>0. SUFFICES Goal
  OBVIOUS
<1>1. /\ {Penalty, Malformed} \subseteq Nat
      /\ \A r \in Route : r \in PeerId /\ Owner[r] \in PeerId
      /\ \A h \in Host : Speaker[h] \in PeerId
      /\ \A r \in Route : lease[r] /= NoIdentity => lease[r] \in PeerId
  BY SessionsAssumption DEF PeerId
<1>2. CASE UNCHANGED score
  BY <1>2
<1>3. ASSUME NEW p \in PeerId, score' = Observe(score, p)
      PROVE  Goal
  BY <1>3, ObserveFits
<1>4. ASSUME NEW p \in PeerId, NEW n \in Nat, score' = Penalize(score, p, n)
      PROVE  Goal
  BY <1>4, PenalizeFits
<1>5. ASSUME NEW p \in PeerId, score' = [score EXCEPT ![p].cooling = FALSE]
      PROVE  Goal
  <2>1. [score[p] EXCEPT !.cooling = FALSE] \in PeerScore
    BY DEF PeerScore
  <2>2. score' = [score EXCEPT ![p] = [score[p] EXCEPT !.cooling = FALSE]]
    BY <1>5
  <2> QED BY <2>1, <2>2
<1> HIDE DEF Goal
<1>6. ASSUME NEW r \in Route,
             SyncStep(r) \/ Discovered(r) \/ FailureAges(r) \/ RouteFails(r)
      PROVE  Goal
  <2>1. CASE Check(r) \/ Connect(r) \/ Admit(r) \/ Ends(r) \/ Discovered(r) \/ FailureAges(r)
             \/ RouteFails(r)
    BY <1>2, <2>1 DEF Check, Connect, Admit, Ends, Discovered, FailureAges, RouteFails
  <2>2. CASE Hello(r)
    BY <1>1, <1>2, <1>3, <2>2 DEF Hello
  <2>3. CASE Message(r)
    BY <1>1, <1>2, <1>3, <2>3 DEF Message
  <2>4. CASE Rejected(r)
    <3>1. PICK p \in IF lease[r] = NoIdentity THEN {r, Owner[r]} ELSE {lease[r]} :
              score' = IF p = lease[r] /\ IsBanned(p) THEN score ELSE Penalize(score, p, Penalty)
      BY <2>4 DEF Rejected
    <3>2. p \in PeerId /\ Penalty \in Nat
      BY <1>1
    <3> QED BY <1>2, <1>4, <3>1, <3>2
  <2> QED BY <1>6, <2>1, <2>2, <2>3, <2>4 DEF SyncStep
<1>7. ASSUME NEW h \in Host, HandlerStep(h)
      PROVE  Goal
  <2>1. CASE Accept(h) \/ AdmitInbound(h) \/ ServeEnds(h)
    BY <1>2, <2>1 DEF Accept, AdmitInbound, ServeEnds
  <2>2. CASE Serve(h)
    BY <1>1, <1>2, <1>3, <2>2 DEF Serve
  <2>3. CASE ServeFails(h)
    BY <1>1, <1>2, <1>4, <2>3 DEF ServeFails
  <2> QED BY <1>7, <2>1, <2>2, <2>3 DEF HandlerStep
<1>8. ASSUME NEW p \in PeerId, CooldownEnds(p) \/ Unban(p)
      PROVE  Goal
  BY <1>2, <1>5, <1>8 DEF CooldownEnds, Unban
<1>9. CASE CacheExpires \/ SaveScores \/ BriefOpens \/ BriefEnds
  BY <1>2, <1>9 DEF CacheExpires, SaveScores, BriefOpens, BriefEnds
<1> QED BY <1>6, <1>7, <1>8, <1>9 DEF Next

(***************************************************************************)
(* What is learned and saved                                               *)
(***************************************************************************)

Identities == [Route -> Identity \cup {NoIdentity}]

(* The part of TypeOK about the maps and their files.                      *)
Books ==
    /\ known \in Identities
    /\ cache \in Seq(SavedPeer) /\ Len(cache) <= MaxSaved
    /\ score \in [PeerId -> PeerScore]
    /\ files \in [known : Identities, cache : Seq(SavedPeer), score : [PeerId -> PeerScore]]
    /\ Len(files.cache) <= MaxSaved

(* The loaded identities are those of the identities file and of the       *)
(* cached routes (load_cached_peer_routes).                                *)
LEMMA KnownAtStartFits ==
    ASSUME NEW f, f.known \in Identities, f.cache \in Seq(SavedPeer)
    PROVE  KnownAtStart(f) \in Identities
<1>1. Range(f.cache) \subseteq SavedPeer
  BY RangeOfSeq
<1>2. ASSUME NEW r \in Route, r \in CachedRoutes(f.cache)
      PROVE  (CHOOSE e \in Range(f.cache) : r \in e.routes).id \in Identity
  <2>1. \E e \in Range(f.cache) : r \in e.routes
    BY <1>2 DEF CachedRoutes
  <2>2. (CHOOSE e \in Range(f.cache) : r \in e.routes) \in SavedPeer
    BY <1>1, <2>1
  <2> QED BY <2>2 DEF SavedPeer
<1>3. \A r \in Route : f.known[r] \in Identity \cup {NoIdentity}
  BY DEF Identities
<1> QED BY <1>2, <1>3 DEF KnownAtStart, Identities

(* Every step keeps what is learned and saved within its types and limits. *)
LEMMA BooksStep ==
    ASSUME Books, lease \in [Route -> Identity \cup {NoIdentity}], Next
    PROVE  Books'
<1> DEFINE Saved == [known : Identities, cache : Seq(SavedPeer), score : [PeerId -> PeerScore]]
<1>0. /\ known \in Identities /\ cache \in Seq(SavedPeer) /\ Len(cache) <= MaxSaved
      /\ score \in [PeerId -> PeerScore] /\ files \in Saved /\ Len(files.cache) <= MaxSaved
      /\ files.known \in Identities /\ files.cache \in Seq(SavedPeer)
      /\ files.score \in [PeerId -> PeerScore]
      /\ MaxSaved \in Nat
  BY SessionsAssumption DEF Books
<1>1. CASE Restart
  <2>1. KnownAtStart(files) \in Identities
    BY <1>0, KnownAtStartFits
  <2> QED BY <1>0, <1>1, <2>1 DEF Restart, Books
<1>2. SUFFICES ASSUME ~Restart
               PROVE  Books'
  BY <1>1
<1>3. score' \in [PeerId -> PeerScore]
  BY <1>0, <1>2, ScoreStep
<1>4. CASE UNCHANGED learned
  BY <1>0, <1>3, <1>4 DEF learned, Books
<1>5. ASSUME NEW f \in [PeerId -> PeerScore], files' = [files EXCEPT !.score = f],
             UNCHANGED <<known, cache>>
      PROVE  Books'
  <2>1. files' \in Saved /\ files'.cache = files.cache
    BY <1>0, <1>5
  <2> QED BY <1>0, <1>3, <1>5, <2>1 DEF Books
<1> HIDE DEF Saved
<1>6. ASSUME NEW r \in Route,
             SyncStep(r) \/ Discovered(r) \/ FailureAges(r) \/ RouteFails(r)
      PROVE  Books'
  <2>1. CASE Check(r) \/ Connect(r) \/ Admit(r) \/ Message(r) \/ Rejected(r) \/ Ends(r)
             \/ Discovered(r) \/ FailureAges(r) \/ RouteFails(r)
    BY <1>4, <2>1 DEF Check, Connect, Admit, Message, Rejected, Ends, Discovered, FailureAges,
                      RouteFails, learned
  <2>2. CASE Hello(r)
    <3>1. /\ known' = [known EXCEPT ![r] = Owner[r]] /\ cache' = Remember(r, Owner[r])
          /\ files' = [files EXCEPT !.known = known', !.cache = cache']
      BY <2>2 DEF Hello, Learn
    <3>2. known' \in Identities
      BY <1>0, <3>1, SessionsAssumption DEF Identities
    <3>3. cache' \in Seq(SavedPeer) /\ Len(cache') <= MaxSaved
      BY <1>0, <3>1, RememberFits
    <3>4. files' \in Saved /\ files'.cache = cache'
      BY <1>0, <3>1, <3>2, <3>3 DEF Saved
    <3> QED BY <1>3, <3>2, <3>3, <3>4 DEF Books, Saved
  <2> QED BY <1>6, <2>1, <2>2 DEF SyncStep
<1>7. ASSUME NEW h \in Host, HandlerStep(h)
      PROVE  Books'
  BY <1>4, <1>7 DEF HandlerStep, Accept, AdmitInbound, Serve, ServeFails, ServeEnds, Return,
                    learned
<1>8. ASSUME NEW p \in PeerId, CooldownEnds(p)
      PROVE  Books'
  <2>1. [files.score EXCEPT ![p] = [files.score[p] EXCEPT !.cooling = FALSE]]
            \in [PeerId -> PeerScore]
    <3>1. files.score[p] \in PeerScore
      BY <1>0
    <3>2. [files.score[p] EXCEPT !.cooling = FALSE] \in PeerScore
      BY <3>1 DEF PeerScore
    <3> QED BY <1>0, <3>2
  <2>2. /\ files' = [files EXCEPT !.score[p].cooling = FALSE]
        /\ UNCHANGED <<known, cache>>
    BY <1>8 DEF CooldownEnds
  <2>3. files' = [files EXCEPT !.score = [files.score EXCEPT ![p] =
                                              [files.score[p] EXCEPT !.cooling = FALSE]]]
    BY <2>2
  <2> QED BY <1>5, <2>1, <2>2, <2>3
<1>9. ASSUME NEW p \in PeerId, Unban(p)
      PROVE  Books'
  <2>1. [files.score EXCEPT ![p] = NewScore] \in [PeerId -> PeerScore]
    BY <1>0, SMTT(30) DEF NewScore, PeerScore
  <2>2. /\ files' = [files EXCEPT !.score = [files.score EXCEPT ![p] = NewScore]]
        /\ UNCHANGED <<known, cache>>
    BY <1>9 DEF Unban
  <2> QED BY <1>5, <2>1, <2>2
<1>10. CASE SaveScores
  <2>1. files' = [files EXCEPT !.score = score] /\ UNCHANGED <<known, cache>>
    BY <1>10 DEF SaveScores
  <2> QED BY <1>0, <1>5, <2>1
<1>11. CASE CacheExpires
  <2> DEFINE rest == Without(files.cache, {k \in DOMAIN files.cache : files.cache[k] = Head(cache)})
  <2>1. /\ cache /= <<>> /\ cache' = Tail(cache) /\ known' = known
        /\ files' = [files EXCEPT !.cache = rest]
    BY <1>11 DEF CacheExpires
  <2>2. cache' \in Seq(SavedPeer) /\ Len(cache') <= MaxSaved
    <3>1. Len(cache) \in Nat
      BY <1>0, LenProperties
    <3> QED BY <1>0, <2>1, <3>1, HeadTailProperties, SMTT(30)
  <2>3. rest \in Seq(SavedPeer) /\ Len(rest) <= Len(files.cache)
    BY <1>0, WithoutFits
  <2> HIDE DEF rest
  <2>4. Len(rest) <= MaxSaved
    <3>1. Len(files.cache) \in Nat /\ Len(rest) \in Nat
      BY <1>0, <2>3, LenProperties
    <3> QED BY <1>0, <2>3, <3>1, SMTT(30)
  <2>5. files' \in Saved /\ files'.cache = rest
    BY <1>0, <2>1, <2>3 DEF Saved
  <2> QED BY <1>0, <1>3, <2>1, <2>2, <2>4, <2>5 DEF Books, Saved
<1>12. CASE BriefOpens \/ BriefEnds
  BY <1>4, <1>12 DEF BriefOpens, BriefEnds
<1> QED BY <1>2, <1>6, <1>7, <1>8, <1>9, <1>10, <1>11, <1>12 DEF Next

(***************************************************************************)
(* Threads, counters and leases                                            *)
(***************************************************************************)

Out == {r \in Route : worker[r] = "open"}

In == {h \in Host : inbound[h] \in {"open", "known"}}

(* The part of TypeOK about the threads and their environment.             *)
Threads ==
    /\ worker \in [Route -> {"off", "idle", "dialling", "connected", "open"}]
    /\ lease \in [Route -> Identity \cup {NoIdentity}]
    /\ inbound \in [Host -> {"none", "tls", "open", "known"}]
    /\ failed \subseteq Route /\ up \subseteq Route
    /\ faults \in Seq({"rejected", "unban", "down", "restart"})

(* The two connection counters and the address leases; the sessions of     *)
(* inbound handlers stay within the untrusted share.                       *)
Counts ==
    /\ sessions \in 0..SessionLimit /\ brief \in Nat /\ conns \in 0..MaxInbound
    /\ sessions = Cardinality(Out) + Cardinality(In) + brief
    /\ addresses = {h \in Host : inbound[h] /= "none"}
    /\ conns = Cardinality(addresses)
    /\ Cardinality(In) <= UntrustedLimit

(* A worker with a lease is in a session, and no two workers share one.    *)
Leases ==
    /\ active = {lease[r] : r \in Route} \ {NoIdentity}
    /\ \A r \in Route : lease[r] /= NoIdentity => worker[r] = "open"
    /\ \A r, s \in Route : lease[r] = lease[s] /\ lease[r] /= NoIdentity => r = s

Held == Threads /\ Counts /\ Leases

(* The sessions of both kinds are finitely many.                           *)
LEMMA SessionsFinite ==
    /\ IsFiniteSet(Out) /\ IsFiniteSet(In) /\ Cardinality(Out) \in Nat /\ Cardinality(In) \in Nat
    /\ SessionLimit \in Nat /\ MaxInbound \in Nat /\ UntrustedLimit \in Nat
    /\ UntrustedLimit < SessionLimit
<1>1. Out \in SUBSET Route /\ In \in SUBSET Host /\ IsFiniteSet(Route) /\ IsFiniteSet(Host)
  BY SessionsAssumption DEF Out, In
<1>2. IsFiniteSet(Out) /\ IsFiniteSet(In)
  BY <1>1, FS_Subset
<1>3. /\ SessionLimit \in Nat /\ MaxInbound \in Nat /\ UntrustedLimit \in Nat
      /\ UntrustedLimit < SessionLimit
  BY SessionsAssumption, SMTT(30) DEF UntrustedLimit
<1> QED BY <1>2, <1>3, FS_CardinalityType

(* A step that opens and closes no session and no connection keeps the     *)
(* counters right.                                                         *)
LEMMA CountsKept ==
    ASSUME Counts, UNCHANGED <<sessions, brief, conns, addresses>>, Out' = Out, In' = In,
           {h \in Host : inbound'[h] /= "none"} = {h \in Host : inbound[h] /= "none"}
    PROVE  Counts'
BY DEF Counts

(* A worker that leaves its session, on whatever path, gives back its      *)
(* slot and its lease once (the drop of P2pShutdownGuard and of the sync   *)
(* identity lease).                                                        *)
LEMMA LeaveStep ==
    ASSUME Held, NEW r \in Route, worker[r] = "open", Leave(r)
    PROVE  /\ worker' \in [Route -> {"off", "idle", "dialling", "connected", "open"}]
           /\ lease' \in [Route -> Identity \cup {NoIdentity}]
           /\ Counts' /\ Leases'
<1>1. /\ worker' = [worker EXCEPT ![r] = "idle"] /\ sessions' = sessions - 1
      /\ active' = active \ {lease[r]} /\ lease' = [lease EXCEPT ![r] = NoIdentity]
      /\ UNCHANGED <<inbound, brief, conns, addresses>>
  BY DEF Leave
<1>2. /\ worker' \in [Route -> {"off", "idle", "dialling", "connected", "open"}]
      /\ lease' \in [Route -> Identity \cup {NoIdentity}]
  BY <1>1 DEF Held, Threads
<1>3. Counts'
  <2>1. Out' = Out \ {r} /\ r \in Out /\ In' = In
    BY <1>1 DEF Out, In, Held, Threads
  <2>2. Cardinality(Out') = Cardinality(Out) - 1
    BY <2>1, SessionsFinite, FS_RemoveElement
  <2>3. sessions' = Cardinality(Out') + Cardinality(In') + brief' /\ sessions' \in 0..SessionLimit
    <3>1. /\ sessions \in 0..SessionLimit /\ sessions = Cardinality(Out) + Cardinality(In) + brief
          /\ brief \in Nat /\ Cardinality(Out') \in Nat
      BY SessionsFinite, <2>1, FS_RemoveElement, FS_CardinalityType DEF Held, Counts
    <3> QED BY <1>1, <2>1, <2>2, <3>1, SessionsFinite, SMTT(30)
  <2> QED BY <1>1, <2>1, <2>3 DEF Held, Counts
<1>4. Leases'
  <2>1. \A s \in Route : /\ lease'[s] = IF s = r THEN NoIdentity ELSE lease[s]
                         /\ s /= r => worker'[s] = worker[s]
    BY <1>1 DEF Held, Threads
  <2>2. active' = {lease'[s] : s \in Route} \ {NoIdentity}
    BY <1>1, <2>1, SMTT(30) DEF Held, Leases
  <2> QED BY <2>1, <2>2 DEF Held, Leases
<1> QED BY <1>2, <1>3, <1>4

(* A handler that returns gives back its connection and address, and its   *)
(* session if it had one.                                                  *)
LEMMA ReturnStep ==
    ASSUME Held, NEW h \in Host,
           \/ inbound[h] = "tls" /\ Return(h, FALSE)
           \/ inbound[h] \in {"open", "known"} /\ Return(h, TRUE)
    PROVE  inbound' \in [Host -> {"none", "tls", "open", "known"}] /\ Counts' /\ Leases'
<1>1. /\ inbound' = [inbound EXCEPT ![h] = "none"] /\ inbound[h] /= "none"
      /\ conns' = conns - 1 /\ addresses' = addresses \ {h}
      /\ UNCHANGED <<worker, lease, brief, active>>
  BY DEF Return
<1>2. inbound' \in [Host -> {"none", "tls", "open", "known"}]
  BY <1>1 DEF Held, Threads
<1>3. addresses' = {k \in Host : inbound'[k] /= "none"} /\ h \in addresses
  BY <1>1 DEF Held, Threads, Counts
<1>4. conns' = Cardinality(addresses') /\ conns' \in 0..MaxInbound
  <2>1. addresses \in SUBSET Host /\ IsFiniteSet(Host)
    BY SessionsAssumption DEF Held, Counts
  <2>2. IsFiniteSet(addresses)
    BY <2>1, FS_Subset
  <2>3. Cardinality(addresses') = Cardinality(addresses) - 1 /\ IsFiniteSet(addresses')
    BY <1>1, <1>3, <2>2, FS_RemoveElement
  <2>4. Cardinality(addresses') \in Nat
    BY <2>3, FS_CardinalityType
  <2>5. conns = Cardinality(addresses) /\ conns \in 0..MaxInbound
    BY DEF Held, Counts
  <2> QED BY <1>1, <2>3, <2>4, <2>5, SessionsFinite, SMTT(30)
<1>5. Out' = Out
  BY <1>1 DEF Out
<1>6. /\ sessions' = Cardinality(Out') + Cardinality(In') + brief' /\ sessions' \in 0..SessionLimit
      /\ Cardinality(In') <= UntrustedLimit
  <2>1. CASE inbound[h] = "tls" /\ Return(h, FALSE)
    <3>1. In' = In /\ sessions' = sessions
      BY <1>1, <2>1 DEF In, Return, Held, Threads
    <3> QED BY <1>1, <1>5, <3>1 DEF Held, Counts
  <2>2. CASE inbound[h] \in {"open", "known"} /\ Return(h, TRUE)
    <3>1. In' = In \ {h} /\ h \in In /\ sessions' = sessions - 1
      BY <1>1, <2>2 DEF In, Return, Held, Threads
    <3>2. Cardinality(In') = Cardinality(In) - 1 /\ Cardinality(In') \in Nat
      BY <3>1, SessionsFinite, FS_RemoveElement, FS_CardinalityType
    <3>3. /\ sessions \in 0..SessionLimit /\ sessions = Cardinality(Out) + Cardinality(In) + brief
          /\ brief \in Nat /\ Cardinality(In) <= UntrustedLimit
      BY DEF Held, Counts
    <3> QED BY <1>1, <1>5, <3>1, <3>2, <3>3, SessionsFinite, SMTT(30)
  <2> QED BY <2>1, <2>2
<1>7. Leases'
  BY <1>1 DEF Held, Leases
<1>8. brief' \in Nat
  BY <1>1 DEF Held, Counts
<1> QED BY <1>2, <1>3, <1>4, <1>6, <1>7, <1>8 DEF Counts

(* Every step of a sync worker keeps counters and leases exact.            *)
LEMMA SyncHeld ==
    ASSUME Held, NEW r \in Route,
           SyncStep(r) \/ Discovered(r) \/ FailureAges(r) \/ RouteFails(r)
    PROVE  Held'
<1> DEFINE Steps == {"off", "idle", "dialling", "connected", "open"}
<1>1. ASSUME worker' \in [Route -> Steps], Out' = Out, UNCHANGED <<lease, inbound, counters>>,
             failed' \subseteq Route, up' \subseteq Route,
             faults' \in Seq({"rejected", "unban", "down", "restart"})
      PROVE  Held'
  <2>1. In' = In
    BY <1>1 DEF In
  <2>2. Counts'
    BY <1>1, <2>1, CountsKept DEF Held, counters
  <2>3. \A s \in Route : worker[s] = "open" => worker'[s] = "open"
    BY <1>1 DEF Out
  <2>4. Leases'
    BY <1>1, <2>3 DEF Held, Leases, counters
  <2> QED BY <1>1, <2>2, <2>4 DEF Held, Threads
<1>2. CASE Check(r)
  <2>1. worker' \in [Route -> Steps] /\ Out' = Out
    BY <1>2 DEF Check, Out, Held, Threads
  <2> QED BY <1>1, <1>2, <2>1 DEF Check, environment, Held, Threads
<1>3. CASE Connect(r)
  <2>1. worker' \in [Route -> Steps] /\ Out' = Out
    BY <1>3 DEF Connect, Out, Held, Threads
  <2>2. failed' \subseteq Route
    BY <1>3 DEF Connect, Held, Threads
  <2> QED BY <1>1, <1>3, <2>1, <2>2 DEF Connect, environment, Held, Threads
<1>4. CASE Admit(r)
  <2>1. CASE sessions < SessionLimit
    <3>1. /\ worker[r] = "connected" /\ worker' = [worker EXCEPT ![r] = "open"]
          /\ sessions' = sessions + 1
          /\ UNCHANGED <<lease, inbound, brief, conns, addresses, active, failed, environment>>
      BY <1>4, <2>1 DEF Admit
    <3>2. worker' \in [Route -> Steps] /\ Out' = Out \cup {r} /\ r \notin Out /\ In' = In
      BY <3>1 DEF Out, In, Held, Threads
    <3>3. Cardinality(Out') = Cardinality(Out) + 1
      BY <3>2, SessionsFinite, FS_AddElement
    <3>4. sessions' = Cardinality(Out') + Cardinality(In') + brief' /\ sessions' \in 0..SessionLimit
      BY <2>1, <3>1, <3>2, <3>3, SessionsFinite, SMTT(30) DEF Held, Counts
    <3>5. Counts'
      BY <3>1, <3>2, <3>4 DEF Held, Counts
    <3>6. Leases'
      BY <3>1 DEF Held, Threads, Leases
    <3> QED BY <3>1, <3>2, <3>5, <3>6 DEF Held, Threads, environment
  <2>2. CASE ~(sessions < SessionLimit)
    <3>1. worker' \in [Route -> Steps] /\ Out' = Out
      BY <1>4, <2>2 DEF Admit, Out, Held, Threads
    <3> QED BY <1>1, <1>4, <2>2, <3>1 DEF Admit, environment, counters, Held, Threads
  <2> QED BY <2>1, <2>2
<1>5. CASE Hello(r)
  <2>1. CASE Leave(r)
    <3>1. worker[r] = "open" /\ UNCHANGED <<inbound, failed, up, faults>>
      BY <1>5, <2>1 DEF Hello, Leave, environment
    <3> QED BY <2>1, <3>1, LeaveStep DEF Held, Threads
  <2>2. CASE ~Leave(r)
    <3>1. /\ worker[r] = "open" /\ Owner[r] \notin active
          /\ lease' = [lease EXCEPT ![r] = Owner[r]] /\ active' = active \cup {Owner[r]}
          /\ UNCHANGED <<worker, inbound, sessions, brief, conns, addresses, failed, up, faults>>
      BY <1>5, <2>2 DEF Hello, environment
    <3>2. Out' = Out /\ In' = In
      BY <3>1 DEF Out, In
    <3>3. Counts'
      BY <3>1, <3>2, CountsKept DEF Held
    <3>4. Owner[r] \in Identity /\ Owner[r] /= NoIdentity
      BY SessionsAssumption
    <3>5. lease' \in [Route -> Identity \cup {NoIdentity}]
      BY <3>1, <3>4 DEF Held, Threads
    <3>6. \A s \in Route : lease'[s] = IF s = r THEN Owner[r] ELSE lease[s]
      BY <3>1 DEF Held, Threads
    <3>7. lease[r] = NoIdentity
      BY <1>5 DEF Hello
    <3>8. active' = {lease'[s] : s \in Route} \ {NoIdentity}
      BY <3>1, <3>4, <3>6, <3>7, SMTT(30) DEF Held, Leases
    <3>9. \A s \in Route : lease[s] /= Owner[r]
      BY <3>1, <3>4 DEF Held, Leases
    <3>10. Leases'
      BY <3>1, <3>6, <3>8, <3>9, SMTT(30) DEF Held, Leases
    <3> QED BY <3>1, <3>3, <3>5, <3>10 DEF Held, Threads
  <2> QED BY <2>1, <2>2
<1>6. CASE Message(r)
  <2>1. CASE Leave(r)
    <3>1. worker[r] = "open" /\ UNCHANGED <<inbound, failed, up, faults>>
      BY <1>6, <2>1 DEF Message, Leave, environment, Held, Leases
    <3> QED BY <2>1, <3>1, LeaveStep DEF Held, Threads
  <2>2. CASE ~Leave(r)
    <3>1. UNCHANGED <<worker, lease, inbound, counters, failed, up, faults>>
      BY <1>6, <2>2 DEF Message, environment
    <3>2. Out' = Out
      BY <3>1 DEF Out
    <3> QED BY <1>1, <3>1, <3>2 DEF Held, Threads
  <2> QED BY <2>1, <2>2
<1>7. CASE Rejected(r)
  <2>1. worker[r] = "open" /\ Leave(r) /\ UNCHANGED <<inbound, failed, up>>
    BY <1>7 DEF Rejected, Leave
  <2>2. faults' \in Seq({"rejected", "unban", "down", "restart"})
    BY <1>7, SMTT(30) DEF Rejected, Held, Threads
  <2> QED BY <2>1, <2>2, LeaveStep DEF Held, Threads
<1>8. CASE Ends(r)
  <2>1. worker[r] = "open" /\ Leave(r) /\ UNCHANGED <<inbound, failed, up, faults>>
    BY <1>8 DEF Ends, Leave, environment
  <2> QED BY <2>1, LeaveStep DEF Held, Threads
<1>9. CASE Discovered(r)
  <2>1. worker' \in [Route -> Steps] /\ Out' = Out
    BY <1>9 DEF Discovered, Out, Held, Threads
  <2> QED BY <1>1, <1>9, <2>1 DEF Discovered, environment, Held, Threads
<1>10. CASE FailureAges(r)
  <2>1. Out' = Out
    BY <1>10 DEF FailureAges, Out
  <2> QED BY <1>1, <1>10, <2>1 DEF FailureAges, environment, Held, Threads
<1>11. CASE RouteFails(r)
  <2>1. Out' = Out
    BY <1>11 DEF RouteFails, Out
  <2>2. faults' \in Seq({"rejected", "unban", "down", "restart"})
    BY <1>11, SMTT(30) DEF RouteFails, Held, Threads
  <2> QED BY <1>1, <1>11, <2>1, <2>2 DEF RouteFails, Held, Threads
<1> HIDE DEF Steps
<1> QED BY <1>2, <1>3, <1>4, <1>5, <1>6, <1>7, <1>8, <1>9, <1>10, <1>11 DEF SyncStep

(* Every step of an inbound handler keeps counters and leases exact.       *)
LEMMA HandlerHeld ==
    ASSUME Held, NEW h \in Host, HandlerStep(h)
    PROVE  Held'
<1>1. ASSUME \/ inbound[h] = "tls" /\ Return(h, FALSE)
             \/ inbound[h] \in {"open", "known"} /\ Return(h, TRUE),
             UNCHANGED up, faults' \in Seq({"rejected", "unban", "down", "restart"})
      PROVE  Held'
  <2>1. inbound' \in [Host -> {"none", "tls", "open", "known"}] /\ Counts' /\ Leases'
    BY <1>1, ReturnStep
  <2>2. UNCHANGED <<worker, lease, failed>>
    BY <1>1 DEF Return
  <2> QED BY <1>1, <2>1, <2>2 DEF Held, Threads
<1>2. CASE Accept(h)
  <2>1. /\ conns < MaxInbound /\ h \notin addresses
        /\ conns' = conns + 1 /\ addresses' = addresses \cup {h}
        /\ inbound' = [inbound EXCEPT ![h] = "tls"]
        /\ UNCHANGED <<worker, lease, sessions, brief, active, failed, up, faults>>
    BY <1>2 DEF Accept, environment
  <2>2. /\ inbound' \in [Host -> {"none", "tls", "open", "known"}] /\ inbound[h] = "none"
        /\ addresses' = {k \in Host : inbound'[k] /= "none"}
    BY <2>1 DEF Held, Threads, Counts
  <2>3. conns' = Cardinality(addresses') /\ conns' \in 0..MaxInbound
    <3>1. addresses \in SUBSET Host /\ IsFiniteSet(Host)
      BY SessionsAssumption DEF Held, Counts
    <3>2. Cardinality(addresses') = Cardinality(addresses) + 1
      BY <2>1, <3>1, FS_Subset, FS_AddElement
    <3> QED BY <2>1, <3>2, SessionsFinite, SMTT(30) DEF Held, Counts
  <2>4. Out' = Out /\ In' = In
    BY <2>1, <2>2 DEF Out, In, Held, Threads
  <2>5. Counts'
    BY <2>1, <2>2, <2>3, <2>4 DEF Held, Counts
  <2>6. Leases'
    BY <2>1 DEF Held, Leases
  <2> QED BY <2>1, <2>2, <2>5, <2>6 DEF Held, Threads
<1>3. CASE AdmitInbound(h)
  <2>1. CASE Return(h, FALSE)
    BY <1>1, <1>3, <2>1 DEF AdmitInbound, environment, Held, Threads
  <2>2. CASE ~Return(h, FALSE)
    <3>1. /\ inbound[h] = "tls" /\ sessions < UntrustedLimit
          /\ inbound' = [inbound EXCEPT ![h] = "open"] /\ sessions' = sessions + 1
          /\ UNCHANGED <<worker, lease, brief, conns, addresses, active, failed, up, faults>>
      BY <1>3, <2>2 DEF AdmitInbound, environment
    <3>2. /\ inbound' \in [Host -> {"none", "tls", "open", "known"}]
          /\ addresses' = {k \in Host : inbound'[k] /= "none"}
      BY <3>1 DEF Held, Threads, Counts
    <3>3. Out' = Out /\ In' = In \cup {h} /\ h \notin In
      BY <3>1 DEF Out, In, Held, Threads
    <3>4. Cardinality(In') = Cardinality(In) + 1
      BY <3>3, SessionsFinite, FS_AddElement
    <3>5. /\ sessions' = Cardinality(Out') + Cardinality(In') + brief' /\ sessions' \in 0..SessionLimit
          /\ Cardinality(In') <= UntrustedLimit
      BY <3>1, <3>3, <3>4, SessionsFinite, SMTT(30) DEF Held, Counts
    <3>6. Counts'
      BY <3>1, <3>2, <3>5 DEF Held, Counts
    <3>7. Leases'
      BY <3>1 DEF Held, Leases
    <3> QED BY <3>1, <3>2, <3>6, <3>7 DEF Held, Threads
  <2> QED BY <2>1, <2>2
<1>4. CASE Serve(h)
  <2>1. CASE Return(h, TRUE)
    BY <1>1, <1>4, <2>1 DEF Serve, environment, Held, Threads
  <2>2. CASE ~Return(h, TRUE)
    <3>1. /\ inbound[h] \in {"open", "known"} /\ inbound' = [inbound EXCEPT ![h] = "known"]
          /\ UNCHANGED <<worker, lease, counters, failed, up, faults>>
      BY <1>4, <2>2 DEF Serve, environment
    <3>2. /\ inbound' \in [Host -> {"none", "tls", "open", "known"}]
          /\ {k \in Host : inbound'[k] /= "none"} = {k \in Host : inbound[k] /= "none"}
      BY <3>1 DEF Held, Threads
    <3>3. Out' = Out /\ In' = In
      BY <3>1 DEF Out, In, Held, Threads
    <3>4. Counts'
      BY <3>1, <3>2, <3>3, CountsKept DEF Held, counters
    <3>5. Leases'
      BY <3>1 DEF Held, Leases, counters
    <3> QED BY <3>1, <3>2, <3>4, <3>5 DEF Held, Threads
  <2> QED BY <2>1, <2>2
<1>5. CASE ServeFails(h)
  <2>1. faults' \in Seq({"rejected", "unban", "down", "restart"})
    BY <1>5, SMTT(30) DEF ServeFails, Held, Threads
  <2> QED BY <1>1, <1>5, <2>1 DEF ServeFails
<1>6. CASE ServeEnds(h)
  BY <1>1, <1>6 DEF ServeEnds, environment, Held, Threads
<1> QED BY <1>2, <1>3, <1>4, <1>5, <1>6 DEF HandlerStep

(* Counters and leases stay exact through every step, a restart included.  *)
LEMMA HeldStep ==
    ASSUME Held, [Next]_vars
    PROVE  Held'
<1>1. ASSUME UNCHANGED <<worker, lease, inbound, counters, failed, up>>,
             faults' \in Seq({"rejected", "unban", "down", "restart"})
      PROVE  Held'
  <2>1. Out' = Out /\ In' = In
    BY <1>1 DEF Out, In
  <2>2. Counts'
    BY <1>1, <2>1, CountsKept DEF Held, counters
  <2>3. Leases'
    BY <1>1 DEF Held, Leases, counters
  <2> QED BY <1>1, <2>2, <2>3 DEF Held, Threads
<1>2. CASE UNCHANGED vars
  BY <1>1, <1>2 DEF vars, counters, Held, Threads
<1>3. ASSUME NEW p \in PeerId, CooldownEnds(p)
      PROVE  Held'
  BY <1>1, <1>3 DEF CooldownEnds, environment, Held, Threads
<1>4. ASSUME NEW p \in PeerId, Unban(p)
      PROVE  Held'
  BY <1>1, <1>4, SMTT(30) DEF Unban, Held, Threads
<1>5. CASE CacheExpires
  BY <1>1, <1>5 DEF CacheExpires, environment, Held, Threads
<1>6. CASE SaveScores
  BY <1>1, <1>6 DEF SaveScores, environment, Held, Threads
<1>7. CASE Restart
  <2>1. /\ worker' = WorkersAtStart(files) /\ lease' = [r \in Route |-> NoIdentity]
        /\ inbound' = [h \in Host |-> "none"] /\ sessions' = 0 /\ brief' = 0 /\ conns' = 0
        /\ addresses' = {} /\ active' = {} /\ failed' = {} /\ UNCHANGED up
    BY <1>7 DEF Restart
  <2>2. faults' \in Seq({"rejected", "unban", "down", "restart"})
    BY <1>7, SMTT(30) DEF Restart, Held, Threads
  <2>3. /\ worker' \in [Route -> {"off", "idle", "dialling", "connected", "open"}]
        /\ \A r \in Route : worker'[r] /= "open"
    BY <2>1 DEF WorkersAtStart
  <2>4. Out' = {} /\ In' = {} /\ addresses' = {h \in Host : inbound'[h] /= "none"}
    BY <2>1, <2>3 DEF Out, In
  <2>5. Counts'
    BY <2>1, <2>4, FS_EmptySet, SessionsFinite, SMTT(30) DEF Counts
  <2>6. Leases'
    BY <2>1 DEF Leases
  <2> QED BY <2>1, <2>2, <2>3, <2>5, <2>6 DEF Held, Threads
<1>8. CASE BriefOpens \/ BriefEnds
  <2>1. /\ \/ sessions < SessionLimit /\ sessions' = sessions + 1 /\ brief' = brief + 1
           \/ brief > 0 /\ sessions' = sessions - 1 /\ brief' = brief - 1
        /\ UNCHANGED <<worker, lease, inbound, conns, addresses, active, failed, up, faults>>
    BY <1>8 DEF BriefOpens, BriefEnds, environment
  <2>2. Out' = Out /\ In' = In
    BY <2>1 DEF Out, In
  <2>3. /\ sessions' \in 0..SessionLimit /\ brief' \in Nat
        /\ sessions' = Cardinality(Out) + Cardinality(In) + brief'
    BY <2>1, SessionsFinite, SMTT(30) DEF Held, Counts
  <2>4. Counts'
    BY <2>1, <2>2, <2>3 DEF Held, Counts
  <2>5. Leases'
    BY <2>1 DEF Held, Leases
  <2> QED BY <2>1, <2>4, <2>5 DEF Held, Threads
<1> QED BY <1>2, <1>3, <1>4, <1>5, <1>6, <1>7, <1>8, SyncHeld, HandlerHeld DEF Next

(* The process starts with no session, no lease and empty maps.            *)
LEMMA StartHolds ==
    ASSUME Init
    PROVE  Held /\ Books
<1>1. /\ files = NoFiles /\ up = Route /\ faults = <<>> /\ worker = WorkersAtStart(NoFiles)
      /\ lease = [r \in Route |-> NoIdentity] /\ inbound = [h \in Host |-> "none"]
      /\ sessions = 0 /\ brief = 0 /\ conns = 0 /\ addresses = {} /\ active = {} /\ failed = {}
      /\ known = NoFiles.known /\ cache = NoFiles.cache /\ score = NoFiles.score
  BY DEF Init
<1>2. /\ worker \in [Route -> {"off", "idle", "dialling", "connected", "open"}]
      /\ \A r \in Route : worker[r] /= "open"
  BY <1>1 DEF WorkersAtStart
<1>3. Out = {} /\ In = {} /\ addresses = {h \in Host : inbound[h] /= "none"}
  BY <1>1, <1>2 DEF Out, In
<1>4. Counts
  BY <1>1, <1>3, FS_EmptySet, SessionsFinite, SMTT(30) DEF Counts
<1>5. Leases
  BY <1>1 DEF Leases
<1>6. Threads
  BY <1>1, <1>2, SMTT(30) DEF Threads
<1>7. Books
  <2>1. NoFiles.known \in Identities
    BY DEF NoFiles, Identities
  <2>2. NoFiles.cache \in Seq(SavedPeer) /\ Len(NoFiles.cache) = 0
    BY SMTT(30) DEF NoFiles
  <2>3. NewScore \in PeerScore
    BY SMTT(30) DEF NewScore, PeerScore
  <2>4. NoFiles.score \in [PeerId -> PeerScore]
    BY <2>3 DEF NoFiles
  <2>5. NoFiles \in [known : Identities, cache : Seq(SavedPeer), score : [PeerId -> PeerScore]]
    BY <2>1, <2>2, <2>4 DEF NoFiles
  <2> QED BY <1>1, <2>1, <2>2, <2>4, <2>5, SessionsAssumption, SMTT(30) DEF Books
<1> QED BY <1>4, <1>5, <1>6, <1>7 DEF Held

(* Threads, counters, leases, maps and files together are inductive.       *)
LEMMA SessionsInductive ==
    ASSUME Held, Books, [Next]_vars
    PROVE  Held' /\ Books'
<1>1. Held'
  BY HeldStep
<1>2. Books'
  <2>1. CASE Next
    BY <2>1, BooksStep DEF Held, Threads
  <2>2. CASE UNCHANGED vars
    BY <2>2 DEF vars, Books
  <2> QED BY <2>1, <2>2
<1> QED BY <1>1, <1>2

(* The inductive invariant says what LeasesAreExact says: no two workers   *)
(* share a lease, so as many workers hold one as there are active          *)
(* identities.                                                             *)
LEMMA HeldIsExact ==
    ASSUME Held, Books
    PROVE  LeasesAreExact
<1> DEFINE L == {r \in Out : lease[r] /= NoIdentity}
           f == [r \in L |-> lease[r]]
<1>1. active \subseteq Identity /\ addresses \subseteq Host
  BY DEF Held, Threads, Counts, Leases
<1>2. TypeOK
  <2>1. {sessions, brief} \subseteq 0..SessionLimit
    BY SessionsFinite, SMTT(30) DEF Held, Counts
  <2> QED BY <1>1, <2>1 DEF TypeOK, Held, Threads, Counts, Books, Identities
<1>3. active = {lease[r] : r \in Out} \ {NoIdentity}
  BY DEF Held, Leases, Out
<1>4. f \in Surjection(L, active) /\ f \in Injection(L, active)
  <2>1. f \in [L -> active]
    BY <1>3
  <2>2. \A i \in active : \E r \in L : f[r] = i
    BY <1>3
  <2>3. \A r, s \in L : f[r] = f[s] => r = s
    BY DEF Held, Leases, Out
  <2> HIDE DEF f, L
  <2>4. f \in Surjection(L, active)
    BY <2>1, <2>2 DEF Surjection
  <2>5. DOMAIN f = L
    BY <2>1
  <2>6. f \in Injection(L, active)
    BY <2>1, <2>3, <2>5 DEF Injection, IsInjective
  <2> QED BY <2>4, <2>6
<1>5. IsFiniteSet(L)
  <2>1. L \in SUBSET Out
    OBVIOUS
  <2> QED BY <2>1, SessionsFinite, FS_Subset
<1>6. Cardinality(active) = Cardinality(L)
  <2> HIDE DEF f, L
  <2> QED BY <1>4, <1>5, FS_Surjection
<1> QED BY <1>2, <1>3, <1>6 DEF LeasesAreExact, Held, Counts, Out, In

(* Counters, address leases and identity leases are exactly what the live  *)
(* threads hold, on every path out of a session, for any routes, hosts and *)
(* peers and any limits the configuration accepts.                         *)
THEOREM ExactLeases == Spec => []LeasesAreExact
<1> DEFINE I == Held /\ Books
<1>1. Init => I
  BY StartHolds
<1>2. I /\ [Next]_vars => I'
  BY SessionsInductive
<1>3. I => LeasesAreExact
  BY HeldIsExact
<1> QED BY <1>1, <1>2, <1>3, PTL DEF Spec

(* A sync worker is refused a session only when the sync workers and the   *)
(* short-lived connections hold at least the reserve: the handlers'        *)
(* sessions stay within the untrusted share, so a full pool holds the      *)
(* reserve besides (P2P_CONFIGURED_SESSION_RESERVE).                       *)
THEOREM ReserveForWorkers == Spec => ReserveIsKept
<1> DEFINE Kept == \A r \in Route :
                      worker[r] = "connected" /\ worker'[r] = "idle" /\ faults' = faults =>
                         Cardinality({s \in Route : worker[s] = "open"}) + brief >= Reserve
<1>1. Init => Held
  BY StartHolds
<1>2. Held /\ [Next]_vars => Held'
  BY HeldStep
<1>3. ASSUME Held, [Next]_vars
      PROVE  [Kept]_vars
  <2>1. SUFFICES ASSUME Next, NEW r \in Route, worker[r] = "connected",
                        worker'[r] = "idle", faults' = faults
                 PROVE  Cardinality(Out) + brief >= Reserve
    BY <1>3 DEF Out
  <2>2. worker \in [Route -> {"off", "idle", "dialling", "connected", "open"}]
    BY <1>3 DEF Held, Threads
  <2>3. ASSUME NEW s \in Route, worker[s] = "open", Leave(s)
        PROVE  FALSE
    BY <2>1, <2>2, <2>3 DEF Leave
  <2>4. CASE Admit(r)
    <3>1. sessions >= SessionLimit
      BY <1>3, <2>1, <2>2, <2>4, SessionsFinite, SMTT(30) DEF Admit, Held, Counts
    <3>2. SessionLimit = UntrustedLimit + Reserve /\ Reserve \in Nat
      BY SessionsAssumption, SMTT(30) DEF UntrustedLimit
    <3> QED BY <1>3, <3>1, <3>2, SessionsFinite, SMTT(30) DEF Held, Counts
  <2>5. ASSUME NEW s \in Route,
               \/ SyncStep(s) /\ ~(s = r /\ Admit(s))
               \/ Discovered(s) \/ FailureAges(s) \/ RouteFails(s)
        PROVE  FALSE
    <3>1. CASE Check(s)
      BY <2>1, <2>2, <3>1 DEF Check
    <3>2. CASE Connect(s)
      BY <2>1, <2>2, <3>2 DEF Connect
    <3>3. CASE Admit(s) /\ s /= r
      BY <2>1, <2>2, <3>3 DEF Admit
    <3>4. CASE Hello(s)
      BY <2>1, <2>3, <3>4 DEF Hello
    <3>5. CASE Message(s)
      BY <1>3, <2>1, <2>3, <3>5 DEF Message, Held, Leases
    <3>6. CASE Rejected(s) \/ Ends(s)
      BY <2>3, <3>6 DEF Rejected, Ends
    <3>7. CASE Discovered(s)
      BY <2>1, <2>2, <3>7 DEF Discovered
    <3>8. CASE FailureAges(s) \/ RouteFails(s)
      BY <2>1, <3>8 DEF FailureAges, RouteFails
    <3> QED BY <2>5, <3>1, <3>2, <3>3, <3>4, <3>5, <3>6, <3>7, <3>8 DEF SyncStep
  <2>6. ~UNCHANGED worker
    BY <2>1
  <2>7. ASSUME NEW h \in Host
        PROVE  ~HandlerStep(h)
    BY <2>6 DEF HandlerStep, Accept, AdmitInbound, Serve, ServeFails, ServeEnds, Return
  <2>8. ASSUME NEW p \in PeerId
        PROVE  ~CooldownEnds(p) /\ ~Unban(p)
    BY <2>6 DEF CooldownEnds, Unban
  <2>9. ~CacheExpires /\ ~SaveScores /\ ~BriefOpens /\ ~BriefEnds
    BY <2>6 DEF CacheExpires, SaveScores, BriefOpens, BriefEnds
  <2>10. ~Restart
    <3>1. faults \in Seq({"rejected", "unban", "down", "restart"})
      BY <1>3 DEF Held, Threads
    <3>2. Append(faults, "restart") /= faults
      BY <3>1, SMTT(30)
    <3> QED BY <2>1, <3>2 DEF Restart
  <2> QED BY <2>1, <2>4, <2>5, <2>7, <2>8, <2>9, <2>10 DEF Next
<1>4. Spec => [][Kept]_vars
  <2> HIDE DEF Kept
  <2> QED BY <1>1, <1>2, <1>3, PTL DEF Spec
<1> QED BY <1>4 DEF ReserveIsKept

=============================================================================
