----------------------------- MODULE MCBlockSync -----------------------------
(***************************************************************************)
(* A small block tree for BlockSync.  Branch a grows from height 3 to 4,   *)
(* branch b orphans a's top one or two blocks, branch c everything above   *)
(* block a1, the birthday block included.                                  *)
(*                                                                         *)
(*        a1 -- a2 -- a3 -- a4                                             *)
(*         \     \--- b3 -- b4                                             *)
(*          \-- c2 -- c3 -- c4 -- c5                                       *)
(*                                                                         *)
(* Transaction t1 is mined again on the other branches, at another height; *)
(* t2 and t3 are only on some of them.                                     *)
(***************************************************************************)
EXTENDS BlockSync

mcHeight == [a1 |-> 1, a2 |-> 2, a3 |-> 3, a4 |-> 4, b3 |-> 3, b4 |-> 4,
             c2 |-> 2, c3 |-> 3, c4 |-> 4, c5 |-> 5]
mcBlock  == DOMAIN mcHeight
mcPrev   == [a1 |-> "a0", a2 |-> "a1", a3 |-> "a2", a4 |-> "a3", b3 |-> "a2",
             b4 |-> "b3", c2 |-> "a1", c3 |-> "c2", c4 |-> "c3", c5 |-> "c4"]

mcA3 == <<"a1", "a2", "a3">>
mcA4 == <<"a1", "a2", "a3", "a4">>
mcB4 == <<"a1", "a2", "b3", "b4">>
mcC5 == <<"a1", "c2", "c3", "c4", "c5">>
mcTwoBranches == {mcA3, mcA4, mcB4}
mcAllBranches == {mcA3, mcA4, mcB4, mcC5}

mcTxid == {"t1", "t2", "t3"}
mcTxIn == [b \in mcBlock |->
             CASE b \in {"a3", "b4", "c3"} -> {"t1"}
               [] b \in {"a4", "c5"}       -> {"t2"}
               [] b \in {"b3", "c4"}       -> {"t3"}
               [] OTHER                    -> {}]
mcOrchard == {"t3"}

(* One transaction, mined at two heights: enough where only blocks matter. *)
mcOneTx   == {"t1"}
mcOneTxIn == [b \in mcBlock |-> mcTxIn[b] \cap mcOneTx]
=============================================================================
