----------------------------- MODULE MCWalletTxns -----------------------------
(***************************************************************************)
(* Small instances of WalletTxns.  a pays the wallet, b spends all of that  *)
(* and pays change, c spends the change and pays nothing back.              *)
(***************************************************************************)
EXTENDS WalletTxns, TLC
CONSTANTS a, b, c

mcTwo   == <<a, b>>
mcThree == <<a, b, c>>
mcNone  == {}
mcSentB == {b}

(* A chain of payments in the given pools *)
ChainOuts(pools)   == [t \in Txs |-> IF t = c THEN {} ELSE pools]
ChainSpends(pools) == [t \in Txs |-> IF t = a THEN {} ELSE {IF t = b THEN a ELSE b} \X pools]

mcOutsChange   == [t \in Txs |-> CASE t = a -> {"s", "t"} [] t = b -> {"s"} [] OTHER -> {}]
mcSpendsChange == [t \in Txs |-> CASE t = a -> {} [] t = b -> {a} \X {"s", "t"} [] OTHER -> {b} \X {"s"}]
mcOutsS    == ChainOuts({"s"})
mcSpendsS  == ChainSpends({"s"})
mcOutsSO   == ChainOuts({"s", "o"})
mcSpendsSO == ChainSpends({"s", "o"})
mcOutsO    == ChainOuts({"o"})
mcSpendsO  == ChainSpends({"o"})
=============================================================================
