------------------------------ MODULE MCSupply ------------------------------
(***************************************************************************)
(* Instances of Supply.  Between them the intervals are fast, in the band, *)
(* slow and beyond the longest that is paid for; the bodies are empty, two *)
(* native transfers whose fees round apart, and EVM transactions in a full *)
(* block.                                                                  *)
(***************************************************************************)
EXTENDS Supply

Tx(g, p) == [gas |-> g, price |-> p]
Empty == [native |-> TRUE, txs |-> <<>>]
Transfers == [native |-> TRUE, txs |-> <<Tx(1, 7), Tx(1, 9), Tx(1, 5)>>]
Contracts == [native |-> FALSE, txs |-> <<Tx(2, 7), Tx(2, 9)>>]

MCOffers == {<<2, Empty>>, <<10, Transfers>>, <<15, Empty>>, <<130, Contracts>>}
MCRivals == {<<10, Transfers>>, <<130, Contracts>>}
MCStart == <<2, 3, 1, 3>>
=============================================================================
