------------------------------ MODULE Sessions ------------------------------
(***************************************************************************)
(* The peer sessions of one node: a sync worker thread for every route it  *)
(* dials, a handler thread for every host that dials it, the short-lived   *)
(* connections of its other threads, and what they share: the two          *)
(* connection counters, the address and identity leases, the routes        *)
(* learned from signed hellos and their cache file, the routes that failed *)
(* recently, and the peer scores and their file.  Clocks are abstracted to *)
(* the moments they matter: a failure leaves its window, a ban its         *)
(* cooldown, a cache entry its lifetime.  What a session transfers and     *)
(* writes is the subject of Recovery.                                      *)
(***************************************************************************)
EXTENDS Integers, Sequences, FiniteSets, Functions

CONSTANTS
    Route,          \* the addresses this node may dial
    Host,           \* the hosts that may dial this node
    Identity,       \* the peers' public keys
    NoIdentity,     \* "no identity known"
    Owner,          \* Owner[r]: the peer that answers on route r
    Speaker,        \* Speaker[h]: the peer that dials from host h
    Preference,     \* Preference[r]: place of r by (route_priority, text)
    Bootstrap,      \* the routes of the configuration file
    SessionLimit,   \* P2P_SESSION_LIMIT
    Reserve,        \* P2P_CONFIGURED_SESSION_RESERVE
    MaxInbound,     \* network.max_inbound_peers
    MaxWorkers,     \* MAX_DISCOVERY_WORKERS
    MaxSaved,       \* network.max_saved_peers
    MaxRoutes,      \* MAX_ROUTES_PER_SAVED_PEER
    MaxScore,       \* PEER_MAX_SCORE
    BanThreshold,   \* PEER_BAN_THRESHOLD
    Penalty,        \* what a rejected message costs
    Malformed,      \* what an unreadable inbound message costs
    MaxFaults       \* bound: faults in a behaviour

ASSUME SessionsAssumption ==
    /\ IsFiniteSet(Route) /\ IsFiniteSet(Host)
    /\ Owner \in [Route -> Identity] /\ Speaker \in [Host -> Identity]
    /\ NoIdentity \notin Identity /\ Bootstrap \subseteq Route
    /\ Preference \in [Route -> Nat]
    /\ \A r, s \in Route : Preference[r] = Preference[s] => r = s
    /\ Reserve \in 1 .. SessionLimit - 1 /\ SessionLimit \in Nat
    /\ MaxInbound \in 1 .. SessionLimit - Reserve
    /\ {MaxWorkers, MaxSaved, MaxRoutes, MaxScore, Penalty, Malformed, MaxFaults}
          \subseteq Nat
    /\ MaxRoutes > 0
    /\ BanThreshold \in Int /\ BanThreshold < 0

VARIABLES
    worker,     \* worker[r]: the step of the sync worker of route r
    lease,      \* lease[r]: the identity whose sync lease worker r holds
    inbound,    \* inbound[h]: the step of the handler of host h
    sessions,   \* ACTIVE_P2P_SESSIONS
    brief,      \* how many of them the short-lived connections hold
    conns,      \* the listener's active_connections
    addresses,  \* active_inbound_addresses
    active,     \* ACTIVE_SYNC_IDENTITIES
    known,      \* KNOWN_PEER_IDENTITIES, route -> identity
    cache,      \* CACHED_PEER_ROUTES, one entry a peer, least recently verified first
    failed,     \* routes whose connect failure is within the failover window
    score,      \* the score book of identities and dialled addresses
    files,      \* peer-identities.json, peer-routes.json, peer-scores.json
    up,         \* environment: the routes that answer
    faults      \* faults so far

vars == <<worker, lease, inbound, sessions, brief, conns, addresses, active,
          known, cache, failed, score, files, up, faults>>

counters == <<sessions, brief, conns, addresses, active>>
learned == <<known, cache, files>>
environment == <<up, faults>>

PeerId == Route \cup Identity

UntrustedLimit == SessionLimit - Reserve

-----------------------------------------------------------------------------
(* The score book                                                          *)

NewScore == [score |-> 0, banned |-> FALSE, cooling |-> FALSE]

IsBanned(p) == score[p].banned /\ score[p].cooling

Observe(b, p) ==
    IF b[p].banned THEN b
    ELSE [b EXCEPT ![p].score = IF @ + 1 < MaxScore THEN @ + 1 ELSE MaxScore]

Penalize(b, p, n) ==
    [b EXCEPT ![p] =
        [score |-> @.score - n,
         banned |-> @.banned \/ @.score - n <= BanThreshold,
         cooling |-> @.cooling \/ @.score - n <= BanThreshold]]

-----------------------------------------------------------------------------
(* Routes and identities                                                   *)

Aliases(r) == {s \in Route : known[s] = known[r]}

PreferredRoute(r) ==
    CHOOSE s \in Aliases(r) : \A t \in Aliases(r) : Preference[s] <= Preference[t]

(* An unknown route and a preferred one may always be dialled, an alias of *)
(* a known peer only while the preferred route has failed recently.        *)
MayFailOver(r) ==
    \/ known[r] = NoIdentity
    \/ PreferredRoute(r) = r
    \/ PreferredRoute(r) \in failed

IdentityActive(r) == known[r] \in active

(* Routes sorted by preference and truncated: those with fewer than        *)
(* MaxRoutes better ones.                                                  *)
BestRoutes(rs) ==
    {r \in rs : Cardinality({s \in rs : Preference[s] < Preference[r]}) < MaxRoutes}

RoutesOf(i) == UNION {e.routes : e \in {e \in Range(cache) : e.id = i}}

(* The list without its entry at one of the places in K, if there is one.  *)
Without(c, K) ==
    IF K = {} THEN c
    ELSE LET k == CHOOSE k \in K : TRUE
         IN  SubSeq(c, 1, k - 1) \o SubSeq(c, k + 1, Len(c))

(* The verified peer becomes the most recent one; its routes are sorted by *)
(* preference and cut, then the oldest peers are evicted.                  *)
Remember(r, i) ==
    LET entry == [id |-> i, routes |-> BestRoutes(RoutesOf(i) \cup {r})]
        all == Append(Without(cache, {k \in DOMAIN cache : cache[k].id = i}), entry)
    IN  IF Len(all) > MaxSaved THEN SubSeq(all, Len(all) - MaxSaved + 1, Len(all)) ELSE all

CachedRoutes(c) == UNION {e.routes : e \in Range(c)}

-----------------------------------------------------------------------------
(* Sync workers                                                            *)

(* The guards of the worker loop, each read under its own lock; the state  *)
(* they saw may have changed when the connection opens.                    *)
Check(r) ==
    /\ worker[r] = "idle"
    /\ MayFailOver(r) /\ ~IdentityActive(r) /\ ~IsBanned(r)
    /\ worker' = [worker EXCEPT ![r] = "dialling"]
    /\ UNCHANGED <<lease, inbound, counters, learned, failed, score, environment>>

ConnectForgetsFailure(r) ==
    /\ worker[r] = "dialling"
    /\ worker' = [worker EXCEPT ![r] = IF r \in up THEN "connected" ELSE "idle"]
    /\ failed' = failed \ {r}
    /\ UNCHANGED <<lease, inbound, counters, learned, score, environment>>

(* A failed connection starts the route's failover window.                 *)
Connect(r) ==
    /\ worker[r] = "dialling"
    /\ IF r \in up
       THEN worker' = [worker EXCEPT ![r] = "connected"] /\ failed' = failed \ {r}
       ELSE worker' = [worker EXCEPT ![r] = "idle"] /\ failed' = failed \cup {r}
    /\ UNCHANGED <<lease, inbound, counters, learned, score, environment>>

AdmitAsUntrusted(r) ==
    /\ worker[r] = "connected"
    /\ IF sessions < UntrustedLimit
       THEN worker' = [worker EXCEPT ![r] = "open"] /\ sessions' = sessions + 1
       ELSE worker' = [worker EXCEPT ![r] = "idle"] /\ UNCHANGED sessions
    /\ UNCHANGED <<lease, inbound, brief, conns, addresses, active, learned, failed,
                   score, environment>>

(* The configured guard takes a session of the whole limit; when there is  *)
(* none the function returns its error.                                    *)
Admit(r) ==
    /\ worker[r] = "connected"
    /\ IF sessions < SessionLimit
       THEN worker' = [worker EXCEPT ![r] = "open"] /\ sessions' = sessions + 1
       ELSE worker' = [worker EXCEPT ![r] = "idle"] /\ UNCHANGED sessions
    /\ UNCHANGED <<lease, inbound, brief, conns, addresses, active, learned, failed,
                   score, environment>>

LeaveKeepsLease(r) ==
    /\ worker' = [worker EXCEPT ![r] = "idle"]
    /\ sessions' = sessions - 1
    /\ lease' = [lease EXCEPT ![r] = NoIdentity]
    /\ UNCHANGED <<inbound, brief, conns, addresses, active, failed>>

(* Leaving the session drops its guard and its lease on every path.        *)
Leave(r) ==
    /\ worker' = [worker EXCEPT ![r] = "idle"]
    /\ sessions' = sessions - 1
    /\ active' = active \ {lease[r]}
    /\ lease' = [lease EXCEPT ![r] = NoIdentity]
    /\ UNCHANGED <<inbound, brief, conns, addresses, failed>>

Learn(r) ==
    /\ known' = [known EXCEPT ![r] = Owner[r]]
    /\ cache' = Remember(r, Owner[r])
    /\ files' = [files EXCEPT !.known = known', !.cache = cache']

(* The peer's signed hello: the route is remembered, then the identity's   *)
(* lease is taken.  A second session of the same identity ends; a banned   *)
(* identity ends the session with an error; a peer with our tip ends it.   *)
Hello(r) ==
    /\ worker[r] = "open" /\ lease[r] = NoIdentity
    /\ Learn(r) /\ UNCHANGED environment
    /\ \/ /\ Owner[r] \in active \/ IsBanned(Owner[r])
          /\ Leave(r) /\ UNCHANGED score
       \/ /\ Owner[r] \notin active /\ ~IsBanned(Owner[r])
          /\ score' = Observe(score, Owner[r])
          /\ \/ Leave(r)
             \/ /\ lease' = [lease EXCEPT ![r] = Owner[r]]
                /\ active' = active \cup {Owner[r]}
                /\ UNCHANGED <<worker, inbound, sessions, brief, conns, addresses, failed>>

(* A later message: handled, or the session ends with an error because the *)
(* identity is banned by now.                                              *)
Message(r) ==
    /\ lease[r] /= NoIdentity
    /\ UNCHANGED <<learned, environment>>
    /\ \/ IsBanned(lease[r]) /\ Leave(r) /\ UNCHANGED score
       \/ /\ ~IsBanned(lease[r])
          /\ score' = Observe(score, lease[r])
          /\ UNCHANGED <<worker, lease, inbound, counters, failed>>

(* A message whose handler fails ends the session and is charged to the    *)
(* identity its hello claims, or to the address before any hello.          *)
Rejected(r) ==
    /\ worker[r] = "open" /\ Len(faults) < MaxFaults
    /\ \E p \in IF lease[r] = NoIdentity THEN {r, Owner[r]} ELSE {lease[r]} :
          score' = IF p = lease[r] /\ IsBanned(p) THEN score ELSE Penalize(score, p, Penalty)
    /\ Leave(r)
    /\ faults' = Append(faults, "rejected") /\ UNCHANGED <<learned, up>>

(* The peer closes, or nothing arrives before the read deadline.           *)
Ends(r) == worker[r] = "open" /\ Leave(r) /\ UNCHANGED <<learned, score, environment>>

(* The background admission of discovered routes, within its bound.        *)
Discovered(r) ==
    /\ worker[r] = "off"
    /\ Cardinality({s \in Route : worker[s] /= "off"}) < MaxWorkers
    /\ worker' = [worker EXCEPT ![r] = "idle"]
    /\ UNCHANGED <<lease, inbound, counters, learned, failed, score, environment>>

-----------------------------------------------------------------------------
(* Inbound handlers                                                        *)

(* The listener: a connection slot first, then the host's address lease,   *)
(* which gives the slot back when the host is connected already.           *)
Accept(h) ==
    /\ conns < MaxInbound /\ h \notin addresses
    /\ conns' = conns + 1 /\ addresses' = addresses \cup {h}
    /\ inbound' = [inbound EXCEPT ![h] = "tls"]
    /\ UNCHANGED <<worker, lease, sessions, brief, active, learned, failed, score,
                   environment>>

(* The handler thread returns: guards and leases are dropped.              *)
Return(h, held) ==
    /\ inbound' = [inbound EXCEPT ![h] = "none"]
    /\ sessions' = IF held THEN sessions - 1 ELSE sessions
    /\ conns' = conns - 1 /\ addresses' = addresses \ {h}
    /\ UNCHANGED <<worker, lease, brief, active, learned, failed>>

(* The TLS handshake fails, or ends in a session of the untrusted share,   *)
(* or finds none left.                                                     *)
AdmitInbound(h) ==
    /\ inbound[h] = "tls" /\ UNCHANGED <<score, environment>>
    /\ \/ Return(h, FALSE)
       \/ /\ sessions < UntrustedLimit
          /\ inbound' = [inbound EXCEPT ![h] = "open"] /\ sessions' = sessions + 1
          /\ UNCHANGED <<worker, lease, brief, conns, addresses, active, learned, failed>>

(* A message of a host: its hello, then any other.  A banned identity ends *)
(* the session.                                                            *)
Serve(h) ==
    /\ inbound[h] \in {"open", "known"} /\ UNCHANGED environment
    /\ \/ IsBanned(Speaker[h]) /\ Return(h, TRUE) /\ UNCHANGED score
       \/ /\ ~IsBanned(Speaker[h])
          /\ score' = Observe(score, Speaker[h])
          /\ inbound' = [inbound EXCEPT ![h] = "known"]
          /\ UNCHANGED <<worker, lease, counters, learned, failed>>

(* A rejected or an unreadable message ends the session.  An unreadable    *)
(* one before the hello is charged to the host's ephemeral address, which  *)
(* no one dials.                                                           *)
ServeFails(h) ==
    /\ inbound[h] \in {"open", "known"} /\ Len(faults) < MaxFaults
    /\ Return(h, TRUE)
    /\ \/ score' = IF inbound[h] = "known" THEN Penalize(score, Speaker[h], Malformed) ELSE score
       \/ score' = IF inbound[h] = "known" /\ IsBanned(Speaker[h]) THEN score
                   ELSE Penalize(score, Speaker[h], Penalty)
    /\ faults' = Append(faults, "rejected") /\ UNCHANGED up

ServeEnds(h) ==
    inbound[h] \in {"open", "known"} /\ Return(h, TRUE) /\ UNCHANGED <<score, environment>>

-----------------------------------------------------------------------------
(* Short-lived connections                                                 *)

(* A body or a transaction fetched for an RPC request, a block or a        *)
(* transaction sent to a peer or a relay, a poll of a relay, a             *)
(* registration with a discovery or relay server, and a client of the      *)
(* node's own discovery or relay server: each takes a session of the whole *)
(* limit, or fails when there is none.                                     *)
BriefOpens ==
    /\ sessions < SessionLimit
    /\ sessions' = sessions + 1 /\ brief' = brief + 1
    /\ UNCHANGED <<worker, lease, inbound, conns, addresses, active, learned, failed,
                   score, environment>>

BriefEnds ==
    /\ brief > 0
    /\ sessions' = sessions - 1 /\ brief' = brief - 1
    /\ UNCHANGED <<worker, lease, inbound, conns, addresses, active, learned, failed,
                   score, environment>>

-----------------------------------------------------------------------------
(* Time, files, operator and environment                                   *)

(* A worker that is not in a session and not banned dials its route again  *)
(* within 35 s (P2P_SYNC_IDLE_RETRY_MAX_SECONDS and P2P_CONNECT_TIMEOUT),  *)
(* so a failure leaves the 60 s window only when no worker renews it.      *)
FailureAges(r) ==
    /\ r \in failed
    /\ worker[r] \notin {"idle", "dialling"} \/ IsBanned(r) \/ ~MayFailOver(r) \/ IdentityActive(r)
    /\ failed' = failed \ {r}
    /\ UNCHANGED <<worker, lease, inbound, counters, learned, score, environment>>

(* The file's copy of a ban is never younger than the book's.              *)
CooldownEnds(p) ==
    /\ score[p].cooling \/ files.score[p].cooling
    /\ score' \in {score, [score EXCEPT ![p].cooling = FALSE]}
    /\ files' = [files EXCEPT !.score[p].cooling = FALSE]
    /\ UNCHANGED <<worker, lease, inbound, counters, known, cache, failed, environment>>

CacheExpires ==
    /\ cache /= <<>>
    /\ cache' = Tail(cache)
    /\ LET expired == {k \in DOMAIN files.cache : files.cache[k] = Head(cache)}
       IN  files' = [files EXCEPT !.cache = Without(@, expired)]
    /\ UNCHANGED <<worker, lease, inbound, counters, known, failed, score, environment>>

SaveScores ==
    /\ files.score /= score
    /\ files' = [files EXCEPT !.score = score]
    /\ UNCHANGED <<worker, lease, inbound, counters, known, cache, failed, score,
                   environment>>

(* The peer-unban command edits the file, whether or not the node runs.    *)
Unban(p) ==
    /\ Len(faults) < MaxFaults /\ files.score[p] /= NewScore
    /\ files' = [files EXCEPT !.score[p] = NewScore]
    /\ faults' = Append(faults, "unban")
    /\ UNCHANGED <<worker, lease, inbound, counters, known, cache, failed, score, up>>

RouteFails(r) ==
    /\ r \in up /\ Len(faults) < MaxFaults
    /\ up' = up \ {r} /\ faults' = Append(faults, "down")
    /\ UNCHANGED <<worker, lease, inbound, counters, learned, failed, score>>

(* Workers start for the configured and the cached routes; the identities  *)
(* file never expires, and the cache's routes are added to it.             *)
KnownAtStart(f) ==
    [r \in Route |->
        IF r \in CachedRoutes(f.cache)
        THEN (CHOOSE e \in Range(f.cache) : r \in e.routes).id ELSE f.known[r]]

WorkersAtStart(f) ==
    [r \in Route |-> IF r \in Bootstrap \cup CachedRoutes(f.cache) THEN "idle" ELSE "off"]

NoFiles ==
    [known |-> [r \in Route |-> NoIdentity], cache |-> <<>>,
     score |-> [p \in PeerId |-> NewScore]]

Init ==
    /\ files = NoFiles /\ up = Route /\ faults = <<>>
    /\ worker = WorkersAtStart(NoFiles)
    /\ lease = [r \in Route |-> NoIdentity] /\ inbound = [h \in Host |-> "none"]
    /\ sessions = 0 /\ brief = 0 /\ conns = 0 /\ addresses = {} /\ active = {}
    /\ failed = {}
    /\ known = NoFiles.known /\ cache = NoFiles.cache /\ score = NoFiles.score

Restart ==
    /\ Len(faults) < MaxFaults
    /\ faults' = Append(faults, "restart")
    /\ worker' = WorkersAtStart(files)
    /\ lease' = [r \in Route |-> NoIdentity] /\ inbound' = [h \in Host |-> "none"]
    /\ sessions' = 0 /\ brief' = 0 /\ conns' = 0 /\ addresses' = {} /\ active' = {}
    /\ failed' = {}
    /\ known' = KnownAtStart(files) /\ cache' = files.cache /\ score' = files.score
    /\ UNCHANGED <<files, up>>

SyncStep(r) ==
    \/ Check(r) \/ Connect(r) \/ Admit(r) \/ Hello(r) \/ Message(r) \/ Rejected(r) \/ Ends(r)

HandlerStep(h) ==
    Accept(h) \/ AdmitInbound(h) \/ Serve(h) \/ ServeFails(h) \/ ServeEnds(h)

Next ==
    \/ \E r \in Route : SyncStep(r) \/ Discovered(r) \/ FailureAges(r) \/ RouteFails(r)
    \/ \E h \in Host : HandlerStep(h)
    \/ BriefOpens \/ BriefEnds
    \/ \E p \in PeerId : CooldownEnds(p) \/ Unban(p)
    \/ CacheExpires \/ SaveScores \/ Restart

Spec == Init /\ [][Next]_vars

(* A worker polls its guards and works through a session, whose reads have *)
(* deadlines; handlers do too; a cooldown is 30 s.                         *)
FairSpec ==
    /\ Spec
    /\ \A r \in Route : WF_vars(Check(r)) /\ WF_vars(Connect(r)) /\ WF_vars(Admit(r))
                        /\ WF_vars(Ends(r))
    /\ \A h \in Host : WF_vars(AdmitInbound(h)) /\ WF_vars(ServeEnds(h))
    /\ \A p \in PeerId : WF_vars(CooldownEnds(p) /\ score' /= score)

-----------------------------------------------------------------------------
(* Properties                                                              *)

SavedPeer ==
    [id : Identity, routes : {R \in SUBSET Route : Cardinality(R) \in 1 .. MaxRoutes}]

PeerScore == [score : Int, banned : BOOLEAN, cooling : BOOLEAN]

(* The type invariant.                                                     *)
TypeOK ==
    /\ worker \in [Route -> {"off", "idle", "dialling", "connected", "open"}]
    /\ lease \in [Route -> Identity \cup {NoIdentity}]
    /\ inbound \in [Host -> {"none", "tls", "open", "known"}]
    /\ {sessions, brief} \subseteq 0 .. SessionLimit /\ conns \in 0 .. MaxInbound
    /\ addresses \subseteq Host /\ active \subseteq Identity
    /\ failed \subseteq Route /\ up \subseteq Route
    /\ known \in [Route -> Identity \cup {NoIdentity}]
    /\ cache \in Seq(SavedPeer) /\ Len(cache) <= MaxSaved
    /\ score \in [PeerId -> PeerScore]
    /\ files \in [known : [Route -> Identity \cup {NoIdentity}], cache : Seq(SavedPeer),
                  score : [PeerId -> PeerScore]]
    /\ Len(files.cache) <= MaxSaved

(* The shared counters and lease sets are exactly what the live threads    *)
(* hold, on every path out of a session: no slot, address or identity is   *)
(* leaked or given back twice, and no two sync sessions are leased to one  *)
(* identity (try_acquire_connection, the guards' and leases' drop).  And   *)
(* the types and limits of TypeOK hold.                                    *)
LeasesAreExact ==
    LET out == {r \in Route : worker[r] = "open"}
        in == {h \in Host : inbound[h] \in {"open", "known"}}
    IN  /\ TypeOK
        /\ sessions = Cardinality(out) + Cardinality(in) + brief
        /\ addresses = {h \in Host : inbound[h] /= "none"}
        /\ conns = Cardinality(addresses)
        /\ active = {lease[r] : r \in out} \ {NoIdentity}
        /\ Cardinality(active) = Cardinality({r \in out : lease[r] /= NoIdentity})

(* A sync worker is refused a session only when the sync workers and the   *)
(* short-lived connections hold at least the reserve: the handlers of the  *)
(* hosts that dial in, however many, can never keep it out by themselves   *)
(* (P2P_CONFIGURED_SESSION_RESERVE).                                       *)
ReserveIsKept ==
    [][ \A r \in Route :
           worker[r] = "connected" /\ worker'[r] = "idle" /\ faults' = faults =>
              Cardinality({s \in Route : worker[s] = "open"}) + brief >= Reserve ]_vars

(* A peer with a route that answers, dialled by a worker whose preferred   *)
(* alias is dialled too, gets a session again and again, through that      *)
(* route or another: failover, identity leases and cooldowns never shut it *)
(* out for good, unless the sessions are exhausted again and again.        *)
Reachable(i) ==
    \E r \in up : /\ Owner[r] = i /\ worker[r] /= "off"
                  /\ known[r] = NoIdentity \/ worker[PreferredRoute(r)] /= "off"

PeersAreReached ==
    \A i \in Identity :
        []<>( \/ ~Reachable(i)
              \/ \E r \in Route : worker[r] = "open" /\ Owner[r] = i
              \/ sessions = SessionLimit )

(* A worker that leaves its route alone does so for a preferred route the  *)
(* node is really trying, as the worker loop's comment says: "This is an   *)
(* authenticated alias of a peer with a healthy preferred route."          *)
AliasHasTriedRoute ==
    \A r \in Route :
        worker[r] = "idle" /\ ~MayFailOver(r) => worker[PreferredRoute(r)] /= "off"
=============================================================================
