------------------------------- MODULE MCSendTx -------------------------------
(***************************************************************************)
(* Two notes at two heights, a UTXO and a note of a viewing key, two        *)
(* senders, and amounts that are covered by the UTXO alone (1), exactly by  *)
(* the UTXO and the larger note (6), or are no amount of money at all (30), *)
(* besides all of the verified balance.                                     *)
(***************************************************************************)
EXTENDS SendTx

mcCoin       == {"n1", "n4", "u3", "w2"}
mcUtxos      == {"u3"}
mcWatched    == {"w2"}
mcValue      == [c \in mcCoin |-> CASE c = "n1" -> 1 [] c = "n4" -> 4 [] c = "u3" -> 3 [] c = "w2" -> 2]
mcCoinHeight == [c \in mcCoin |-> CASE c = "n1" -> 3 [] c = "u3" -> 1 [] OTHER -> 0]
=============================================================================
