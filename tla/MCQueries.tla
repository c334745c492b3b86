----------------------------- MODULE MCQueries -----------------------------
(***************************************************************************)
(* Queries on a chain with one fork, b2 as heavy as a2, a3 and a4 together:*)
(*                                                                         *)
(*      g -- a1 -- a2 -- a3 -- a4 -- a5 -- a6                              *)
(*             \- b2 -- b3                                                 *)
(*                                                                         *)
(* One transaction is in both branches, at different heights.              *)
(***************************************************************************)
EXTENDS Queries

CONSTANTS g, a1, a2, a3, a4, a5, a6, b2, b3, x, y, t1, t2

MCBlock == {g, a1, a2, a3, a4, a5, a6, b2, b3}
As == <<a1, a2, a3, a4, a5, a6>>
Bs == <<a1, b2, b3>>
OnB(b) == b \in {b2, b3}
BlockHeight(b) ==
    IF b = g THEN 0
    ELSE CHOOSE n \in 1 .. 6 : IF OnB(b) THEN n < 4 /\ Bs[n] = b ELSE As[n] = b

MCNumber == [b \in MCBlock |-> BlockHeight(b)]
MCAncestor ==
    [b \in MCBlock |->
        [n \in 0 .. BlockHeight(b) |-> IF n = 0 THEN g ELSE IF OnB(b) THEN Bs[n] ELSE As[n]]]
MCParent == [b \in MCBlock |-> IF b = g THEN g ELSE MCAncestor[b][BlockHeight(b) - 1]]
MCWork == [b \in MCBlock |-> IF b = b2 THEN 3 ELSE 1]
MCTotalWork == [b \in MCBlock |-> BlockHeight(b) + (IF OnB(b) THEN 3 ELSE 1)]
MCHashRank == [b \in MCBlock |-> 2 * BlockHeight(b) + (IF OnB(b) THEN 0 ELSE 1)]

MCTx == {x, y}
MCTxsOf == [b \in MCBlock |-> CASE b = a2 -> {x} [] b = b3 -> {x} [] b = b2 -> {y} [] OTHER -> {}]
MCLogsOf ==
    [b \in MCBlock |-> CASE b = a1 -> {<<"p", "u">>}
                         [] b = a2 -> {<<"p", "v">>, <<"q", "u">>}
                         [] b = a5 -> {<<"p", "u">>}
                         [] b = b2 -> {<<"q", "v">>}
                         [] OTHER -> {}]

P == [addresses |-> {"p"}, topics |-> Wild]
PU == [addresses |-> {"p"}, topics |-> {"u"}]
U == [addresses |-> Wild, topics |-> {"u"}]

BlockRequests ==
    {[op |-> o, tag |-> 2] : o \in NumberOps} \cup {[op |-> o, hash |-> a2] : o \in HashOps}
    \cup {[op |-> "blockByHash", hash |-> b2], [op |-> "blockByNumber", tag |-> Latest],
          [op |-> "feeHistory", tag |-> Latest, count |-> 3],
          [op |-> "tx", tx |-> x], [op |-> "receipt", tx |-> x]}
StateRequests ==
    {[op |-> o, tag |-> 2] : o \in StateOps}
    \cup {[op |-> "call", tag |-> Latest], [op |-> "balance", tag |-> 1],
          [op |-> "balance", tag |-> 3], [op |-> "call", tag |-> 3]}
LogRequests ==
    {[op |-> "logs", from |-> 1, to |-> Latest, filter |-> PU],
     [op |-> "logs", from |-> 1, to |-> 2, filter |-> U],
     [op |-> "logsByHash", hash |-> a2, filter |-> P]}
Installs(k) == [op |-> "newFilter", kind |-> k, filter |-> P]
Polls(i) == [op |-> "changes", id |-> 1, nth |-> i]
OfFilter(o) == [op |-> o, id |-> 1]
Opens == [op |-> "websocket"]
Subscribes(k) == [op |-> "subscribe", kind |-> k, filter |-> P]

\* A query that changes nothing is asked alone.
MCAsks ==
    {{r} : r \in BlockRequests \cup StateRequests \cup LogRequests}
    \cup {{Installs("blocks"), Polls(1), Polls(2)}, {Installs("logs"), Polls(1)},
          {Installs("pending"), Polls(1)}, {Installs("blocks"), Installs("logs")}}
    \cup {{Installs(k), OfFilter("filterLogs")} : k \in {"blocks", "logs"}}
    \cup {{Installs("blocks"), Polls(1), OfFilter("uninstall")}}
    \cup {{Opens, Subscribes(k)} : k \in {"blocks", "logs", "pending", "mining"}}
    \cup {{Opens, Subscribes("blocks"), [op |-> "unsubscribe", id |-> 1]},
          {Opens, Subscribes("blocks"), [op |-> "balance", tag |-> 2]}}
MCRpc == {t1, t2}
=============================================================================
