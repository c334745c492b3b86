----------------------------- MODULE ForkLedger -----------------------------
(***************************************************************************)
(* Block import and fork choice keep the promise of Ledger: the blocks by  *)
(* number 0..best of the database, read in order, are the ledger.          *)
(***************************************************************************)
EXTENDS ForkChoice, Sequences

Canonical == [i \in 1..best+1 |-> canon[i - 1]]

Promise == INSTANCE Ledger WITH ledger <- Canonical, Valid <- {b \in Block : Sound(b)}

\* import_network_block, rpc_submit_block and start_candidate_recovery, with
\* their drains, replays and direct batches interleaved and cut short by
\* restarts, show every reader one valid chain from genesis, and every change
\* of it is one that fork choice prefers: a suffix is never published in
\* part, and never over a heavier one that came while it was replayed.
ImplementsLedger == Promise!Spec
=============================================================================
