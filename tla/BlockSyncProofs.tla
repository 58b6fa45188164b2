--------------------------- MODULE BlockSyncProofs ---------------------------
(***************************************************************************)
(* Proofs about BlockSync, for every block tree, every batch, step and     *)
(* channel size, and with the server changing its chain and the network    *)
(* failing at any time.                                                    *)
(***************************************************************************)
EXTENDS BlockSync, FiniteSums, SequenceTheorems, TLAPS

-----------------------------------------------------------------------------
(* Descending lists *)

(* The block a descending list starts with has the list's height. *)
LEMMA DescendsHead ==
  ASSUME NEW s \in Seq(Block), NEW h \in Int, Descends(s, h), s # <<>>
  PROVE  /\ s[1] \in Block
         /\ Height[s[1]] = h
         /\ Height[s[1]] \in Nat \ {0}
BY ChainAssumption DEF Descends

LEMMA DescendsAppend ==
  ASSUME NEW s \in Seq(Block), NEW b \in Block, NEW h \in Int,
         Descends(s, h), Height[b] = h - Len(s)
  PROVE  Append(s, b) \in Seq(Block) /\ Descends(Append(s, b), h)
BY ChainAssumption DEF Descends

LEMMA DescendsTail ==
  ASSUME NEW s \in Seq(Block), NEW h \in Int, Descends(s, h), s # <<>>
  PROVE  /\ Tail(s) \in Seq(Block)
         /\ Len(Tail(s)) = Len(s) - 1
         /\ Descends(Tail(s), h - 1)
<1>1. /\ Tail(s) \in Seq(Block) /\ Len(Tail(s)) = Len(s) - 1
      /\ \A i \in 1..Len(Tail(s)) : Tail(s)[i] = s[i+1]
  BY HeadTailProperties
<1>2. \A i \in 1..Len(Tail(s)) : i + 1 \in 1..Len(s) /\ h - (i + 1) + 1 = (h - 1) - i + 1
  BY <1>1
<1> QED
  BY <1>1, <1>2 DEF Descends

LEMMA DescendsConcat ==
  ASSUME NEW s \in Seq(Block), NEW r \in Seq(Block), NEW h \in Int,
         Descends(s, h), Descends(r, h - Len(s))
  PROVE  /\ s \o r \in Seq(Block)
         /\ Len(s \o r) = Len(s) + Len(r)
         /\ Descends(s \o r, h)
<1>1. /\ s \o r \in Seq(Block) /\ Len(s \o r) = Len(s) + Len(r)
      /\ \A i \in 1..Len(s) + Len(r) :
           (s \o r)[i] = IF i <= Len(s) THEN s[i] ELSE r[i - Len(s)]
  BY ConcatProperties
<1>2. ASSUME NEW i \in 1..Len(s \o r) PROVE Height[(s \o r)[i]] = h - i + 1
  <2>1. CASE i <= Len(s)
    BY <1>1, <2>1 DEF Descends
  <2>2. CASE i > Len(s)
    <3> DEFINE k == i - Len(s)
    <3>1. k \in 1..Len(r) /\ (h - Len(s)) - k + 1 = h - i + 1
      BY <1>1, <2>2
    <3>2. Height[r[k]] = (h - Len(s)) - k + 1
      BY <3>1 DEF Descends
    <3>3. (s \o r)[i] = r[k]
      BY <1>1, <2>2
    <3> QED BY <3>1, <3>2, <3>3
  <2> QED BY <1>1, <2>1, <2>2
<1> QED
  BY <1>1, <1>2 DEF Descends

LEMMA DescendsPrefix ==
  ASSUME NEW s \in Seq(Block), NEW h \in Int, Descends(s, h), NEW n \in 0..Len(s)
  PROVE  /\ SubSeq(s, 1, n) \in Seq(Block)
         /\ Len(SubSeq(s, 1, n)) = n
         /\ Descends(SubSeq(s, 1, n), h)
<1>1. \A i \in 1..n : s[i] \in Block
  OBVIOUS
<1>2. /\ SubSeq(s, 1, n) \in Seq(Block)
      /\ Len(SubSeq(s, 1, n)) = IF 1 <= n THEN n - 1 + 1 ELSE 0
      /\ \A i \in 1 .. n - 1 + 1 : SubSeq(s, 1, n)[i] = s[1 + i - 1]
  BY <1>1, SubSeqProperties
<1>3. \A i \in 1..n : SubSeq(s, 1, n)[i] = s[i]
  BY <1>2
<1> QED
  BY <1>2, <1>3 DEF Descends

(* What the server returns for a range of heights descends from its top. *)
LEMMA RangeDescends ==
  ASSUME chain \in Chains, NEW hi \in 1..Len(chain), NEW lo \in 1..hi
  PROVE  /\ BlockRange(hi, lo) \in Seq(Block)
         /\ Len(BlockRange(hi, lo)) = hi - lo + 1
         /\ Descends(BlockRange(hi, lo), hi)
<1>1. chain \in Seq(Block) /\ \A k \in 1..Len(chain) : Height[chain[k]] = k /\ chain[k] \in Block
  BY ChainAssumption
<1>2. \A i \in 1..(hi - lo + 1) : hi - i + 1 \in 1..Len(chain)
  OBVIOUS
<1>3. BlockRange(hi, lo) \in [1..(hi - lo + 1) -> Block]
  BY <1>1, <1>2 DEF BlockRange
<1>4. hi - lo + 1 \in Nat
  OBVIOUS
<1>5. BlockRange(hi, lo) \in Seq(Block) /\ Len(BlockRange(hi, lo)) = hi - lo + 1
  BY <1>3, <1>4
<1>6. \A i \in 1..(hi - lo + 1) : Height[BlockRange(hi, lo)[i]] = hi - i + 1
  BY <1>1, <1>2 DEF BlockRange
<1> QED
  BY <1>5, <1>6 DEF Descends

(* The batches of one sync are heights, in ascending order, from the wallet's *)
(* own up.                                                                    *)
LEMMA BatchesAscend ==
  ASSUME NEW last \in Nat, NEW latest \in Nat
  PROVE  /\ Batches(last, latest) \in Seq(Nat)
         /\ latest >= last =>
              \A i \in 1..Len(Batches(last, latest)) : Batches(last, latest)[i] >= last
         /\ \A i, j \in 1..Len(Batches(last, latest)) :
              i <= j => Batches(last, latest)[i] <= Batches(last, latest)[j]
<1> DEFINE n == Larger(1, (latest - last + Batch - 1) \div Batch)
<1>1. Batch \in Nat \ {0}
  BY SizeAssumption
<1>2. (latest - last + Batch - 1) \div Batch \in Int
  BY <1>1
<1>3. n \in Nat
  BY <1>2 DEF Larger
<1>4. \A i \in 1..n : i * Batch \in Nat
  BY <1>1, <1>3
<1>5. \A i, j \in 1..n : i <= j => i * Batch <= j * Batch
  BY <1>1, <1>3
<1> DEFINE B == [i \in 1..n |-> Smaller(latest, last + i * Batch)]
<1>6. Batches(last, latest) = B
  BY DEF Batches
<1>7. B \in [1..n -> Nat]
  BY <1>4 DEF Smaller
<1>8. B \in Seq(Nat) /\ Len(B) = n
  <2> HIDE DEF B, n
  <2> QED BY <1>7, <1>3
<1>9. latest >= last => \A i \in 1..n : B[i] >= last
  BY <1>4 DEF Smaller
<1>10. \A i, j \in 1..n : i <= j => B[i] <= B[j]
  BY <1>4, <1>5 DEF Smaller
<1> HIDE DEF B, n
<1> QED BY <1>6, <1>8, <1>9, <1>10

-----------------------------------------------------------------------------
(* Types *)

TypeInv == TypeOK /\ (sync \in {"setup", "running"} => expecting >= 1)

LEMMA OutputsType ==
  ASSUME NEW list \in Seq(Block)
  PROVE  Outputs(list) \in SUBSET (Block \X Txid)
BY ChainAssumption DEF Outputs

(* A range of heights the server has is a list of blocks, possibly empty. *)
LEMMA RangeType ==
  ASSUME chain \in Chains, NEW hi \in Nat, NEW lo \in Nat \ {0}, hi <= Len(chain)
  PROVE  BlockRange(hi, lo) \in Seq(Block)
<1>1. CASE hi >= lo
  <2>1. Len(chain) \in Nat
    BY ChainAssumption
  <2> QED BY <1>1, <2>1, RangeDescends
<1>2. CASE hi < lo
  <2>1. 1..(hi - lo + 1) = {}
    BY <1>2
  <2>2. BlockRange(hi, lo) = <<>>
    BY <2>1 DEF BlockRange
  <2> QED BY <2>2
<1> QED BY <1>1, <1>2

LEMMA TopType ==
  ASSUME NEW list \in Seq(Block)
  PROVE  Top(list) \in Nat
BY ChainAssumption DEF Top

LEMMA ChainType ==
  ASSUME chain \in Chains
  PROVE  chain \in Seq(Block) /\ Len(chain) \in Nat /\ chain[Birthday] \in Block
BY ChainAssumption, SizeAssumption

LEMMA RemoveType ==
  ASSUME NEW known \in [Txid -> Nat], NEW h \in Nat
  PROVE  RemoveTxnsAtHeight(known, h) \in [Txid -> Nat]
BY DEF RemoveTxnsAtHeight, Absent

LEMMA InitialType ==
  ASSUME chain \in Chains
  PROVE  InitialBlocks \subseteq Seq(Block)
<1>1. <<chain[Birthday]>> \in Seq(Block) /\ <<>> \in Seq(Block)
  BY ChainType
<1> QED BY <1>1 DEF InitialBlocks

LEMMA TypeInit == Init => TypeInv
<1> SUFFICES ASSUME Init PROVE TypeInv
  OBVIOUS
<1>1. chain \in Chains /\ wallet \in Seq(Block)
  BY InitialType DEF Init
<1>2. txns \in [Txid -> Nat]
  BY DEF Init, Absent
<1>3. <<>> \in Seq(Block) /\ <<>> \in Seq(Nat)
  OBVIOUS
<1> QED BY <1>1, <1>2, <1>3 DEF Init, TypeInv, TypeOK

LEMMA TypeStep == TypeInv /\ [Next]_vars => TypeInv'
<1> SUFFICES ASSUME TypeInv, [Next]_vars PROVE TypeInv'
  OBVIOUS
<1> USE DEF TypeInv, TypeOK, syncVars, blockVars, fetchVars, trialVars
<1>1. CASE ServerSwitch
  BY <1>1 DEF ServerSwitch
<1>2. CASE ClearAll
  BY <1>2 DEF ClearAll, Absent
<1>3. CASE SetInitialBlock
  <2>1. wallet' \in Seq(Block)
    BY <1>3, InitialType DEF SetInitialBlock
  <2> QED BY <1>3, <2>1 DEF SetInitialBlock
<1>4. CASE StartSync
  <2> DEFINE list == IF TipReplaced THEN Tail(wallet) ELSE wallet
  <2>1. list \in Seq(Block)
    BY DEF TipReplaced
  <2>2. Top(list) \in Nat /\ Top(wallet) \in Nat /\ Len(chain) \in Nat
    BY <2>1, TopType, ChainType
  <2>3. todo' \in Seq(Nat)
    BY <1>4, <2>2, BatchesAscend DEF StartSync
  <2>4. txns' \in [Txid -> Nat]
    BY <1>4, <2>2, RemoveType DEF StartSync
  <2> QED BY <1>4, <2>1, <2>3, <2>4 DEF StartSync
<1>5. CASE SkipBatch
  BY <1>5 DEF SkipBatch
<1>6. CASE BeginBatch
  <2>1. Top(wallet) \in Nat
    BY TopType
  <2>2. Head(todo) \in Nat /\ Tail(todo) \in Seq(Nat)
    BY <1>6 DEF BeginBatch
  <2>3. start' \in Nat /\ todo' \in Seq(Nat)
    BY <1>6, <2>2 DEF BeginBatch
  <2>4. expecting' \in Nat /\ expecting' >= 1
    BY <1>6, <2>1 DEF BeginBatch
  <2> QED BY <1>6, <2>3, <2>4 DEF BeginBatch
<1>7. CASE SetupBatch
  BY <1>7 DEF SetupBatch
<1>8. CASE SetupPanics
  BY <1>8 DEF SetupPanics, AfterSync
<1>9. CASE EndSync
  BY <1>9 DEF EndSync, AfterSync
<1>10. CASE Commit
  <2>1. blocks \o existing \in Seq(Block) /\ Len(blocks \o existing) \in Nat
    OBVIOUS
  <2>2. FinishGetBlocks \in Seq(Block)
    BY <2>1, SizeAssumption DEF FinishGetBlocks, Smaller
  <2> QED BY <1>10, <2>2 DEF Commit
<1>11. CASE Abort
  BY <1>11, OutputsType DEF Abort, AfterSync
<1>12. CASE FetchRange
  <2> DEFINE lo == Larger(next - Step + 1, expecting)
  <2>1. lo \in Nat \ {0}
    BY <1>12, SizeAssumption DEF FetchRange, Working, Larger
  <2>2. cache' \in Seq(Block)
    BY <1>12, <2>1, RangeType DEF FetchRange
  <2> QED BY <1>12, <2>1, <2>2 DEF FetchRange, Working
<1>13. CASE FetchReorged
  <2>1. reorgQ # <<>> /\ Head(reorgQ) \in 1..Len(chain) /\ Len(chain) \in Nat
    BY <1>13, ChainType DEF FetchReorged
  <2>2. BlockRange(Head(reorgQ), Head(reorgQ)) \in Seq(Block)
    BY <2>1, RangeType
  <2> QED BY <1>13, <2>1, <2>2 DEF FetchReorged
<1>14. CASE FetchDone
  BY <1>14 DEF FetchDone
<1>15. CASE FetchFails
  BY <1>15 DEF FetchFails
<1>16. CASE SendBlock
  BY <1>16 DEF SendBlock
<1>17. CASE Receive
  <2> PICK cb \in Block : ReceiveMiddle(cb) \/ ReceiveLast(cb) \/ ReceiveReorg(cb)
    BY <1>17 DEF Receive
  <2>1. Collect(cb)
    BY DEF ReceiveMiddle, ReceiveLast, ReceiveReorg
  <2>2. ch' \in Seq(Block) /\ blocks' \in Seq(Block) /\ blks' \in Seq(Block)
    <3>1. ch' \in Seq(Block)
      BY <2>1 DEF Collect
    <3>2. \/ blocks' = blocks \o blks /\ blks' = <<cb>>
          \/ blks' = Append(blks, cb) /\ blocks' = blocks
      BY <2>1 DEF Collect
    <3>3. blocks \o blks \in Seq(Block) /\ <<cb>> \in Seq(Block) /\ Append(blks, cb) \in Seq(Block)
      OBVIOUS
    <3> QED BY <3>1, <3>2, <3>3
  <2>3. CASE ReceiveMiddle(cb)
    BY <2>1, <2>2, <2>3 DEF Collect, ReceiveMiddle
  <2>4. CASE ReceiveLast(cb)
    BY <2>1, <2>2, <2>4 DEF Collect, ReceiveLast, NoReorg
  <2>5. CASE ReceiveReorg(cb)
    <3>1. existing # <<>> /\ Height[existing[1]] \in Nat \ {0} /\ Tail(existing) \in Seq(Block)
      BY <2>5, ChainAssumption DEF ReceiveReorg, Mismatch
    <3>2. txns' \in [Txid -> Nat]
      BY <2>5, <3>1, RemoveType DEF ReceiveReorg
    <3>3. existing' \in Seq(Block) /\ expecting' \in Nat \ {0} /\ reorgQ' \in Seq(Nat)
      BY <2>5, <3>1 DEF ReceiveReorg
    <3> QED BY <2>1, <2>2, <3>2, <3>3 DEF Collect
  <2> QED BY <2>3, <2>4, <2>5
<1>18. CASE CloseBlocks
  BY <1>18 DEF CloseBlocks
<1>19. CASE TrialGroup
  <2>1. SubSeq(tch, 1, Trial) \in Seq(Block) /\ SubSeq(tch, Trial + 1, Len(tch)) \in Seq(Block)
    BY <1>19, SizeAssumption DEF TrialGroup
  <2> QED BY <1>19, <2>1, OutputsType DEF TrialGroup
<1>20. CASE TrialRest
  BY <1>20, OutputsType DEF TrialRest
<1>21. CASE Detect
  BY <1>21, ChainAssumption DEF Detect
<1>22. CASE UNCHANGED vars
  BY <1>22 DEF vars
<1> QED
  BY <1>1, <1>2, <1>3, <1>4, <1>5, <1>6, <1>7, <1>8, <1>9, <1>10, <1>11, <1>12, <1>13,
     <1>14, <1>15, <1>16, <1>17, <1>18, <1>19, <1>20, <1>21, <1>22
     DEF Next, Driver, Tasks, Fetcher

(* Every reachable state is well typed, whatever the server, the network and *)
(* the user do (lightclient.rs start_sync, start_sync_batch and the tasks).  *)
THEOREM TypeCorrect == Spec => []TypeOK
<1>1. Spec => []TypeInv
  BY TypeInit, TypeStep, PTL DEF Spec
<1>2. TypeInv => TypeOK
  BY DEF TypeInv
<1> QED BY <1>1, <1>2, PTL

-----------------------------------------------------------------------------
(* The sync invariant.  It needs the user to leave the wallet alone while a  *)
(* sync runs: clear_state does not take the sync lock.                       *)

LEMMA TopOfDescending ==
  ASSUME NEW s \in Seq(Block), NEW h \in Int, Descends(s, h)
  PROVE  Descends(s, Top(s)) /\ (s # <<>> => Top(s) = h)
<1>1. CASE s = <<>>
  BY <1>1 DEF Descends
<1>2. CASE s # <<>>
  BY <1>2, DescendsHead DEF Top
<1> QED BY <1>1, <1>2

LEMMA OneBlockDescends ==
  ASSUME NEW b \in Block
  PROVE  Descends(<<b>>, Height[b])
BY ChainAssumption DEF Descends

LEMMA NothingDescends == ASSUME NEW h PROVE Descends(<<>>, h)
BY DEF Descends

LEMMA SyncInvType == SyncInv => TypeInv
BY TopType DEF SyncInv, TypeInv, TypeOK, PlanInv, BatchInv

LEMMA SyncInvInit == Init => SyncInv
<1> SUFFICES ASSUME Init PROVE SyncInv
  OBVIOUS
<1>1. TypeOK
  BY TypeInit DEF TypeInv
<1>2. WalletContiguous
  <2>1. wallet = <<>> \/ (wallet = <<chain[Birthday]>> /\ chain[Birthday] \in Block)
    BY <1>1, ChainType DEF Init, InitialBlocks, TypeOK
  <2>2. CASE wallet = <<>>
    BY <2>2 DEF WalletContiguous, Descends
  <2>3. CASE wallet = <<chain[Birthday]>> /\ chain[Birthday] \in Block
    BY <2>3, OneBlockDescends DEF WalletContiguous, Top
  <2> QED BY <2>1, <2>2, <2>3
<1>3. PlanInv /\ BatchInv
  BY DEF Init, PlanInv, BatchInv
<1> QED BY <1>1, <1>2, <1>3 DEF SyncInv

(* Steps of the driver *)

(* Dropping the newest block of a wallet. *)
LEMMA DropNewest ==
  ASSUME NEW s \in Seq(Block), s # <<>>, Descends(s, Top(s))
  PROVE  /\ Tail(s) \in Seq(Block)
         /\ Descends(Tail(s), Top(Tail(s)))
         /\ Top(Tail(s)) <= Top(s)
<1>1. Top(s) \in Nat /\ Top(s) \in Int /\ Top(s) - 1 \in Int
  BY TopType
<1>2. Tail(s) \in Seq(Block) /\ Descends(Tail(s), Top(s) - 1)
  BY <1>1, DescendsTail
<1>3. /\ Descends(Tail(s), Top(Tail(s)))
      /\ Tail(s) # <<>> => Top(Tail(s)) = Top(s) - 1
  BY <1>1, <1>2, TopOfDescending
<1>4. Tail(s) = <<>> => Top(Tail(s)) = 0
  BY DEF Top
<1> QED BY <1>1, <1>2, <1>3, <1>4

LEMMA StartSyncKeeps ==
  ASSUME SyncInv, StartSync, TypeOK', ~RescanDuringSync
  PROVE  SyncInv'
<1>0. TypeOK /\ WalletContiguous /\ PlanInv /\ BatchInv
  BY DEF SyncInv
<1> DEFINE list == IF TipReplaced THEN Tail(wallet) ELSE wallet
<1>1. list \in Seq(Block) /\ Descends(list, Top(list)) /\ Top(list) <= Top(wallet)
  <2>1. wallet \in Seq(Block) /\ Descends(wallet, Top(wallet)) /\ Top(wallet) \in Nat
    BY <1>0, TopType DEF TypeOK, WalletContiguous
  <2>2. CASE TipReplaced
    BY <2>1, <2>2, DropNewest DEF TipReplaced
  <2>3. CASE ~TipReplaced
    BY <2>1, <2>3
  <2> QED BY <2>2, <2>3
<1> HIDE DEF list
<1>2. wallet' = list /\ todo' = Batches(Top(list), Len(chain)) /\ sync' = "batches"
  BY DEF StartSync, list
<1>3. Top(list) \in Nat /\ Len(chain) \in Nat /\ Len(chain) >= Top(list)
  <2>1. Top(list) \in Nat /\ Top(wallet) \in Nat /\ Len(chain) \in Nat
    BY <1>0, <1>1, TopType, ChainType DEF TypeOK
  <2>2. Len(chain) >= Top(wallet)
    BY DEF StartSync
  <2> QED BY <1>1, <2>1, <2>2
<1>4. WalletContiguous'
  BY <1>1, <1>2 DEF WalletContiguous
<1>5. PlanInv'
  <2>1. rescan' # "cleared"
    BY DEF StartSync
  <2> QED BY <1>2, <1>3, <2>1, BatchesAscend DEF PlanInv
<1>6. BatchInv'
  BY <1>2 DEF BatchInv
<1> QED BY <1>4, <1>5, <1>6 DEF SyncInv

LEMMA BeginBatchKeeps ==
  ASSUME SyncInv, BeginBatch, TypeOK'
  PROVE  SyncInv'
<1>0. TypeOK /\ WalletContiguous /\ PlanInv /\ BatchInv
  BY DEF SyncInv
<1>1. Top(wallet) \in Nat
  BY <1>0, TopType DEF TypeOK
<1>2. /\ todo # <<>> /\ Tail(todo) \in Seq(Nat) /\ Len(Tail(todo)) = Len(todo) - 1
      /\ \A i \in 1..Len(Tail(todo)) : Tail(todo)[i] = todo[i+1]
      /\ Head(todo) = todo[1] /\ 1 \in 1..Len(todo) /\ Head(todo) \in Nat
  BY <1>0, HeadTailProperties DEF BeginBatch, TypeOK
<1>3. \A i \in 1..Len(Tail(todo)) : i + 1 \in 1..Len(todo) /\ 1 <= i + 1
  BY <1>2
<1>4. WalletContiguous'
  BY <1>0 DEF BeginBatch, WalletContiguous
<1>5. PlanInv'
  <2>1. /\ start' = Head(todo) /\ todo' = Tail(todo) /\ expecting' = Top(wallet) + 1
        /\ sync' = "setup" /\ rescan' = rescan /\ wallet' = wallet
    BY DEF BeginBatch
  <2>2. rescan # "cleared"
    BY <1>0 DEF PlanInv, BeginBatch
  <2>3. Head(todo) >= Top(wallet) + 1
    BY <1>0, <1>1, <1>2 DEF PlanInv, BeginBatch
  <2>4. \A i \in 1..Len(Tail(todo)) : Tail(todo)[i] >= Head(todo)
    BY <1>0, <1>2, <1>3 DEF PlanInv
  <2>5. \A i, j \in 1..Len(Tail(todo)) : i <= j => Tail(todo)[i] <= Tail(todo)[j]
    <3> TAKE i, j \in 1..Len(Tail(todo))
    <3> HAVE i <= j
    <3>1. todo[i+1] <= todo[j+1]
      BY <1>0, <1>3 DEF PlanInv
    <3> QED BY <3>1, <1>2
  <2> QED BY <2>1, <2>2, <2>3, <2>4, <2>5 DEF PlanInv
<1>6. BatchInv'
  BY DEF BeginBatch, BatchInv
<1> QED BY <1>4, <1>5, <1>6 DEF SyncInv

LEMMA SkipBatchKeeps ==
  ASSUME SyncInv, SkipBatch, TypeOK'
  PROVE  SyncInv'
<1>0. TypeOK /\ WalletContiguous /\ PlanInv /\ BatchInv
  BY DEF SyncInv
<1>1. /\ todo # <<>> /\ Tail(todo) \in Seq(Nat) /\ Len(Tail(todo)) = Len(todo) - 1
      /\ \A i \in 1..Len(Tail(todo)) : Tail(todo)[i] = todo[i+1]
  BY <1>0, HeadTailProperties DEF SkipBatch, TypeOK
<1>2. \A i \in 1..Len(Tail(todo)) : i + 1 \in 1..Len(todo)
  BY <1>1
<1>3. WalletContiguous'
  BY <1>0 DEF SkipBatch, WalletContiguous
<1>4. PlanInv'
  <2>1. todo' = Tail(todo) /\ sync' = "batches" /\ sync = "batches" /\ rescan' = rescan /\ wallet' = wallet
    BY DEF SkipBatch
  <2>2. \A i \in 1..Len(Tail(todo)) : Tail(todo)[i] >= Top(wallet)
    BY <1>0, <1>1, <1>2, <2>1 DEF PlanInv
  <2>3. \A i, j \in 1..Len(Tail(todo)) : i <= j => Tail(todo)[i] <= Tail(todo)[j]
    <3> TAKE i, j \in 1..Len(Tail(todo))
    <3> HAVE i <= j
    <3>1. todo[i+1] <= todo[j+1]
      BY <1>0, <1>2 DEF PlanInv
    <3> QED BY <3>1, <1>1
  <2> QED BY <1>0, <2>1, <2>2, <2>3 DEF PlanInv
<1>5. BatchInv'
  BY DEF SkipBatch, BatchInv
<1> QED BY <1>3, <1>4, <1>5 DEF SyncInv

LEMMA SetupBatchKeeps ==
  ASSUME SyncInv, SetupBatch, TypeOK'
  PROVE  SyncInv'
<1>0. TypeOK /\ WalletContiguous /\ PlanInv /\ BatchInv
  BY DEF SyncInv
<1>1. Top(wallet) \in Nat
  BY <1>0, TopType DEF TypeOK
<1>2. expecting = Top(wallet) + 1 /\ start >= expecting
  BY <1>0 DEF SetupBatch, PlanInv
<1>3. WalletContiguous'
  BY <1>0 DEF SetupBatch, WalletContiguous
<1>4. PlanInv'
  BY <1>0 DEF SetupBatch, PlanInv
<1>5. BatchInv'
  <2>1. /\ blocks' = <<>> /\ blks' = <<>> /\ ch' = <<>> /\ cache' = <<>> /\ reorgQ' = <<>>
        /\ existing' = wallet /\ expecting' = expecting /\ start' = start
        /\ fetcher' = "range" /\ next' = start /\ blockTask' = "running"
    BY DEF SetupBatch
  <2>2. InFlightDescends'
    BY <2>1, NothingDescends DEF InFlightDescends
  <2>3. Descends(existing', expecting' - 1)
    BY <1>0, <1>1, <1>2, <2>1 DEF WalletContiguous
  <2>4. FetcherKnows'
    BY <1>0, <1>1, <1>2, <2>1 DEF TypeOK, FetcherKnows, Below, FetcherEnded
  <2> QED BY <1>0, <1>1, <1>2, <2>1, <2>2, <2>3, <2>4 DEF TypeOK, BatchInv
<1> QED BY <1>3, <1>4, <1>5 DEF SyncInv

(* Committing joins the new blocks to the old ones at the height the block   *)
(* task stopped at.                                                          *)
LEMMA CommitKeeps ==
  ASSUME SyncInv, Commit, TypeOK'
  PROVE  SyncInv'
<1>0. TypeOK /\ WalletContiguous /\ PlanInv /\ BatchInv
  BY DEF SyncInv
<1> DEFINE list == blocks \o existing
           n    == Smaller(MaxReorg, Len(list))
<1>1. /\ blks = <<>> /\ ch = <<>> /\ cache = <<>> /\ Below = expecting - 1
      /\ Descends(blocks, start) /\ Descends(existing, expecting - 1) /\ start >= expecting
  BY <1>0 DEF Commit, BatchInv, FetcherKnows, FetcherEnded, InFlightDescends
<1>2. /\ blocks \in Seq(Block) /\ existing \in Seq(Block) /\ start \in Int
      /\ Len(blocks) \in Nat /\ Len(existing) \in Nat /\ expecting \in Int
  BY <1>0 DEF TypeOK
<1>3. Len(blocks) = start - expecting + 1 /\ Len(blocks) >= 1
  BY <1>1, <1>2 DEF Below
<1>4. list \in Seq(Block) /\ Len(list) = Len(blocks) + Len(existing) /\ Descends(list, start)
  <2>1. expecting - 1 = start - Len(blocks)
    BY <1>2, <1>3
  <2>2. Descends(existing, start - Len(blocks))
    BY <1>1, <2>1
  <2> QED BY <1>1, <1>2, <2>2, DescendsConcat
<1>5. n \in 1..Len(list)
  <2>1. Len(list) \in Nat /\ Len(list) >= 1
    BY <1>2, <1>3, <1>4
  <2> HIDE DEF list
  <2> QED BY <2>1, SizeAssumption DEF Smaller
<1>6. wallet' = SubSeq(list, 1, n) /\ sync' = "batches" /\ todo' = todo /\ rescan' = rescan
  BY DEF Commit, FinishGetBlocks
<1> HIDE DEF list, n
<1>7. Descends(wallet', start) /\ wallet' # <<>> /\ wallet' \in Seq(Block)
  <2>1. n \in 0..Len(list) /\ n # 0
    BY <1>5
  <2>2. /\ SubSeq(list, 1, n) \in Seq(Block) /\ Len(SubSeq(list, 1, n)) = n
        /\ Descends(SubSeq(list, 1, n), start)
    BY <1>2, <1>4, <2>1, DescendsPrefix
  <2> QED BY <1>6, <2>1, <2>2
<1>8. Descends(wallet', Top(wallet')) /\ Top(wallet') = start
  BY <1>2, <1>7, TopOfDescending
<1>9. WalletContiguous'
  BY <1>8 DEF WalletContiguous
<1>10. PlanInv'
  BY <1>0, <1>6, <1>8 DEF PlanInv, Commit
<1>11. BatchInv'
  BY <1>6 DEF BatchInv
<1> QED BY <1>9, <1>10, <1>11 DEF SyncInv

(* Steps of the fetcher *)

(* What a running batch's invariant says of the blocks on their way. *)
LEMMA BatchFacts ==
  ASSUME SyncInv, sync = "running"
  PROVE  /\ TypeOK /\ WalletContiguous /\ PlanInv /\ FetcherKnows /\ InFlightDescends
         /\ Descends(existing, expecting - 1)
         /\ expecting \in Nat /\ expecting >= 1 /\ start \in Nat /\ start >= expecting
         /\ blocks \in Seq(Block) /\ blks \in Seq(Block) /\ ch \in Seq(Block)
         /\ cache \in Seq(Block) /\ existing \in Seq(Block) /\ reorgQ \in Seq(Nat)
         /\ next \in Nat
         /\ Len(blocks) \in Nat /\ Len(blks) \in Nat /\ Len(ch) \in Nat /\ Len(cache) \in Nat
         /\ Below \in Int
         /\ blockTask = "done" => FetcherEnded /\ blks = <<>> /\ ch = <<>>
BY DEF SyncInv, TypeOK, BatchInv, Below

(* A batch step of the fetcher or the block task leaves the wallet and the   *)
(* plan alone.                                                               *)
LEMMA BatchStep ==
  ASSUME SyncInv, TypeOK', sync = "running", UNCHANGED <<wallet, rescan, syncVars>>, BatchInv'
  PROVE  SyncInv'
<1>1. WalletContiguous' /\ PlanInv'
  BY BatchFacts DEF WalletContiguous, PlanInv, syncVars
<1> QED BY <1>1 DEF SyncInv

LEMMA FetchRangeKeeps ==
  ASSUME SyncInv, FetchRange, TypeOK'
  PROVE  SyncInv'
<1> DEFINE lo == Larger(next - Step + 1, expecting)
<1>1. /\ sync = "running" /\ cache = <<>> /\ fetcher = "range" /\ Len(chain) >= next
      /\ cache' = BlockRange(next, lo) /\ next' = lo - 1
      /\ fetcher' = (IF lo = expecting THEN "await" ELSE "range")
      /\ UNCHANGED <<wallet, rescan, syncVars, expecting, existing, blocks, blks, blockTask, ch, reorgQ>>
  BY DEF FetchRange, Working, blockVars
<1>2. next = Below /\ next >= expecting /\ next \in Nat /\ expecting \in Nat /\ expecting >= 1
  BY <1>1, BatchFacts DEF FetcherKnows
<1>3. lo \in Nat /\ lo >= expecting /\ lo <= next /\ lo >= 1
  BY <1>2, SizeAssumption DEF Larger
<1>4. chain \in Chains /\ Len(chain) \in Nat
  BY <1>1, BatchFacts, ChainType DEF TypeOK
<1> HIDE DEF lo
<1>5. next \in 1..Len(chain) /\ lo \in 1..next
  BY <1>1, <1>2, <1>3, <1>4
<1>6. cache' \in Seq(Block) /\ Len(cache') = next - lo + 1 /\ Descends(cache', next)
  BY <1>1, <1>4, <1>5, RangeDescends
<1>7. Len(blocks) \in Nat /\ Len(blks) \in Nat /\ Len(ch) \in Nat /\ start \in Nat
      /\ next = start - Len(blocks) - Len(blks) - Len(ch)
  BY <1>1, <1>2, BatchFacts DEF Below
<1>8. Below' = lo - 1
  BY <1>1, <1>3, <1>6, <1>7 DEF Below, syncVars
<1>9. InFlightDescends'
  BY <1>1, <1>6, <1>7, BatchFacts DEF InFlightDescends, syncVars
<1>10. FetcherKnows'
  <2>1. reorgQ = <<>>
    BY <1>1, BatchFacts DEF FetcherKnows
  <2>2. CASE lo = expecting
    BY <1>1, <1>3, <1>6, <1>7, <1>8, <2>1, <2>2 DEF FetcherKnows, FetcherEnded
  <2>3. CASE lo # expecting
    BY <1>1, <1>2, <1>3, <1>8, <2>1, <2>3 DEF FetcherKnows, FetcherEnded
  <2> QED BY <2>2, <2>3
<1>11. BatchInv'
  <2>1. blockTask # "done"
    BY <1>1, BatchFacts DEF FetcherEnded
  <2> QED BY <1>1, <1>9, <1>10, <2>1, BatchFacts DEF BatchInv, syncVars
<1> QED BY <1>1, <1>11, BatchStep

LEMMA FetchReorgedKeeps ==
  ASSUME SyncInv, FetchReorged, TypeOK'
  PROVE  SyncInv'
<1>1. /\ sync = "running" /\ cache = <<>> /\ fetcher = "await" /\ reorgQ # <<>>
      /\ Head(reorgQ) \in 1..Len(chain)
      /\ cache' = BlockRange(Head(reorgQ), Head(reorgQ)) /\ reorgQ' = Tail(reorgQ)
      /\ UNCHANGED <<wallet, rescan, syncVars, expecting, existing, blocks, blks, blockTask,
                     ch, fetcher, next>>
  BY DEF FetchReorged, Working, blockVars
<1>2. reorgQ = <<expecting>> /\ Below = expecting /\ ch = <<>>
  BY <1>1, BatchFacts DEF FetcherKnows, NoReorg
<1>3. Head(reorgQ) = expecting /\ Tail(reorgQ) = <<>> /\ expecting \in 1..expecting
  BY <1>1, <1>2, BatchFacts
<1>4. chain \in Chains
  BY <1>1, BatchFacts DEF TypeOK
<1>5. cache' \in Seq(Block) /\ Len(cache') = expecting - expecting + 1 /\ Descends(cache', expecting)
  BY <1>1, <1>3, <1>4, RangeDescends
<1>6. Len(blocks) \in Nat /\ Len(blks) \in Nat /\ start \in Nat /\ expecting \in Nat
      /\ Len(ch) = 0 /\ expecting = start - Len(blocks) - Len(blks) - Len(ch)
  BY <1>1, <1>2, BatchFacts DEF Below
<1>7. Below' = expecting - 1 /\ Len(cache') = 1
  <2>1. Len(cache') = 1
    BY <1>5, <1>6
  <2>2. Below' = start - Len(blocks) - Len(blks) - Len(ch) - 1
    BY <1>1, <2>1 DEF Below, syncVars
  <2> QED BY <1>6, <2>1, <2>2
<1>8. InFlightDescends'
  BY <1>1, <1>5, <1>6, BatchFacts DEF InFlightDescends, syncVars
<1>9. FetcherKnows'
  <2>1. Len(ch') + Len(cache') > 0
    <3>1. Len(ch') = 0
      BY <1>1, <1>6
    <3> QED BY <1>7, <3>1
  <2> QED BY <1>1, <1>3, <1>7, <2>1 DEF FetcherKnows, FetcherEnded
<1>10. BatchInv'
  <2>1. blockTask # "done"
    BY <1>1, BatchFacts DEF FetcherEnded
  <2> QED BY <1>1, <1>8, <1>9, <2>1, BatchFacts DEF BatchInv, syncVars
<1> QED BY <1>1, <1>10, BatchStep

LEMMA FetchDoneKeeps ==
  ASSUME SyncInv, FetchDone, TypeOK'
  PROVE  SyncInv'
<1>1. /\ sync = "running" /\ cache = <<>> /\ fetcher = "await" /\ reorgQ # <<>>
      /\ Head(reorgQ) = NoReorg /\ fetcher' = "done" /\ reorgQ' = Tail(reorgQ)
      /\ UNCHANGED <<wallet, rescan, syncVars, expecting, existing, blocks, blks, blockTask,
                     ch, cache, next>>
  BY DEF FetchDone, Working, blockVars
<1>2. Below = expecting - 1
  BY <1>1, BatchFacts DEF FetcherKnows, NoReorg
<1>3. InFlightDescends' /\ FetcherKnows'
  BY <1>1, <1>2, BatchFacts DEF InFlightDescends, FetcherKnows, FetcherEnded, Below, syncVars
<1>4. BatchInv'
  BY <1>1, <1>3, BatchFacts DEF BatchInv, FetcherEnded, syncVars
<1> QED BY <1>1, <1>4, BatchStep

LEMMA FetchFailsKeeps ==
  ASSUME SyncInv, FetchFails, TypeOK'
  PROVE  SyncInv'
<1>1. /\ sync = "running" /\ cache = <<>> /\ fetcher \in {"range", "await"} /\ fetcher' = "failed"
      /\ UNCHANGED <<wallet, rescan, syncVars, expecting, existing, blocks, blks, blockTask,
                     ch, cache, next, reorgQ>>
  BY DEF FetchFails, Working, blockVars
<1>2. InFlightDescends' /\ FetcherKnows'
  BY <1>1, BatchFacts DEF InFlightDescends, FetcherKnows, FetcherEnded, syncVars
<1>3. BatchInv'
  BY <1>1, <1>2, BatchFacts DEF BatchInv, FetcherEnded, syncVars
<1> QED BY <1>1, <1>3, BatchStep

LEMMA SendBlockKeeps ==
  ASSUME SyncInv, SendBlock, TypeOK'
  PROVE  SyncInv'
<1>1. /\ sync = "running" /\ cache # <<>>
      /\ ch' = Append(ch, Head(cache)) /\ cache' = Tail(cache)
      /\ UNCHANGED <<wallet, rescan, syncVars, expecting, existing, blocks, blks, blockTask,
                     fetcher, next, reorgQ>>
  BY DEF SendBlock, blockVars
<1> DEFINE h == start - Len(blocks) - Len(blks)
<1>2. /\ h \in Int /\ h - Len(ch) \in Int /\ Len(ch) \in Nat /\ Len(cache) \in Nat
      /\ Descends(ch, h) /\ Descends(cache, h - Len(ch))
      /\ ch \in Seq(Block) /\ cache \in Seq(Block)
  BY <1>1, BatchFacts DEF InFlightDescends
<1>3. Head(cache) \in Block /\ Height[Head(cache)] = h - Len(ch)
  BY <1>1, <1>2, DescendsHead
<1>4. /\ cache' \in Seq(Block) /\ Len(cache') = Len(cache) - 1 /\ Descends(cache', h - Len(ch) - 1)
  BY <1>1, <1>2, DescendsTail
<1>5. /\ ch' \in Seq(Block) /\ Len(ch') = Len(ch) + 1 /\ Descends(ch', h)
  BY <1>1, <1>2, <1>3, DescendsAppend
<1>6. Below' = Below /\ h' = h /\ h - Len(ch') = h - Len(ch) - 1 /\ Len(ch') > 0
  <2>1. h' = h
    BY <1>1 DEF syncVars
  <2>2. Below = h - Len(ch) - Len(cache) /\ Below' = h' - Len(ch') - Len(cache')
    BY DEF Below
  <2> HIDE DEF h
  <2> QED BY <1>2, <1>4, <1>5, <2>1, <2>2
<1>7. InFlightDescends'
  BY <1>1, <1>4, <1>5, <1>6, BatchFacts DEF InFlightDescends, syncVars
<1>8. FetcherKnows'
  <2>1. fetcher \notin {"done", "failed"} /\ (fetcher = "await" => reorgQ = <<>>)
    BY <1>1, BatchFacts DEF FetcherKnows, FetcherEnded
  <2>2. Len(ch') + Len(cache') > 0
    BY <1>2, <1>4, <1>5
  <2> HIDE DEF h
  <2> QED BY <1>1, <1>6, <2>1, <2>2, BatchFacts DEF FetcherKnows, FetcherEnded
<1>9. BatchInv'
  <2>1. blockTask # "done"
    BY <1>1, BatchFacts DEF FetcherEnded, FetcherKnows
  <2> QED BY <1>1, <1>7, <1>8, <2>1, BatchFacts DEF BatchInv, syncVars
<1> QED BY <1>1, <1>9, BatchStep

(* Steps of the block task *)

(* Collecting a block keeps the blocks of the batch in line. *)
LEMMA CollectDescends ==
  ASSUME SyncInv, NEW cb \in Block, Collect(cb), TypeOK'
  PROVE  /\ InFlightDescends' /\ Below' = Below
         /\ Len(ch') = Len(ch) - 1
         /\ Height[cb] = start - Len(blocks) - Len(blks)
<1>1. /\ sync = "running" /\ blockTask = "running" /\ ch # <<>> /\ cb = ch[1] /\ ch' = Tail(ch)
      /\ UNCHANGED <<start, cache, fetcher>>
      /\ \/ blocks' = blocks \o blks /\ blks' = <<cb>>
         \/ blocks' = blocks /\ blks' = Append(blks, cb)
  BY DEF Collect, syncVars
<1> DEFINE h == start - Len(blocks)
<1>2. /\ blocks \in Seq(Block) /\ blks \in Seq(Block) /\ ch \in Seq(Block) /\ cache \in Seq(Block)
      /\ Len(blocks) \in Nat /\ Len(blks) \in Nat /\ Len(ch) \in Nat /\ Len(cache) \in Nat
      /\ start \in Int /\ h \in Int /\ h - Len(blks) \in Int /\ h - Len(blks) - Len(ch) \in Int
      /\ Descends(blocks, start) /\ Descends(blks, h) /\ Descends(ch, h - Len(blks))
      /\ Descends(cache, h - Len(blks) - Len(ch))
  <2>1. /\ blocks \in Seq(Block) /\ blks \in Seq(Block) /\ ch \in Seq(Block) /\ cache \in Seq(Block)
        /\ Len(blocks) \in Nat /\ Len(blks) \in Nat /\ Len(ch) \in Nat /\ Len(cache) \in Nat
        /\ start \in Nat /\ InFlightDescends
    BY <1>1, BatchFacts
  <2> QED BY <2>1 DEF InFlightDescends
<1>3. Height[cb] = h - Len(blks)
  BY <1>1, <1>2, DescendsHead
<1>4. Len(ch') = Len(ch) - 1 /\ Descends(ch', h - Len(blks) - 1)
  BY <1>1, <1>2, DescendsTail
<1>5. /\ Descends(blocks', start) /\ Descends(blks', start - Len(blocks'))
      /\ Len(blocks') \in Nat /\ Len(blks') \in Nat
      /\ Len(blocks') + Len(blks') = Len(blocks) + Len(blks) + 1
  <2>1. CASE blocks' = blocks \o blks /\ blks' = <<cb>>
    <3>1. Len(blocks') = Len(blocks) + Len(blks) /\ Descends(blocks', start)
      BY <1>2, <2>1, DescendsConcat
    <3>2. Len(blks') = 1 /\ Descends(blks', h - Len(blks))
      BY <1>3, <2>1, OneBlockDescends
    <3>3. start - Len(blocks') = h - Len(blks)
      BY <1>2, <3>1
    <3> HIDE DEF h
    <3> QED BY <1>2, <3>1, <3>2, <3>3
  <2>2. CASE blocks' = blocks /\ blks' = Append(blks, cb)
    <3>1. Len(blks') = Len(blks) + 1 /\ Descends(blks', h)
      BY <1>2, <1>3, <2>2, DescendsAppend
    <3> QED BY <1>2, <2>2, <3>1
  <2> QED BY <1>1, <2>1, <2>2
<1>6. start' - Len(blocks') - Len(blks') = h - Len(blks) - 1
  <2>1. /\ start' = start /\ start \in Int
        /\ Len(blocks) \in Nat /\ Len(blks) \in Nat /\ Len(blocks') \in Nat /\ Len(blks') \in Nat
        /\ Len(blocks') + Len(blks') = Len(blocks) + Len(blks) + 1
    BY <1>1, <1>2, <1>5
  <2> QED BY <2>1
<1>7. start' - Len(blocks') - Len(blks') - Len(ch') = h - Len(blks) - Len(ch)
  BY <1>2, <1>4, <1>6
<1>8. InFlightDescends'
  BY <1>1, <1>2, <1>4, <1>5, <1>6, <1>7 DEF InFlightDescends
<1>9. Below' = Below
  BY <1>1, <1>7 DEF Below
<1> QED BY <1>1, <1>3, <1>4, <1>8, <1>9, BatchFacts DEF FetcherKnows

LEMMA OneOfTwo ==
  ASSUME NEW m \in Nat, NEW n \in Nat, m # 0, m + n = 1
  PROVE  m = 1 /\ n = 0
OBVIOUS

(* The block at the bottom of the batch is the last one of the channel, and  *)
(* it only arrives while the fetcher waits for what the block task makes of  *)
(* it (or has failed).                                                       *)
LEMMA LowestIsLast ==
  ASSUME SyncInv, NEW cb \in Block, Collect(cb), TypeOK', Height[cb] = expecting
  PROVE  \/ fetcher = "failed"
         \/ /\ fetcher = "await" /\ reorgQ = <<>> /\ Below = expecting - 1
            /\ ch' = <<>> /\ cache = <<>>
<1>1. /\ sync = "running" /\ blockTask = "running" /\ ch # <<>> /\ ch' = Tail(ch)
  BY DEF Collect
<1>2. /\ Len(ch) \in Nat /\ Len(cache) \in Nat /\ Len(ch) # 0 /\ expecting \in Nat
      /\ Below = expecting - Len(ch) - Len(cache)
  <2>1. expecting = start - Len(blocks) - Len(blks)
    BY CollectDescends
  <2> QED BY <1>1, <2>1, BatchFacts DEF Below
<1>3. CASE fetcher = "range"
  <2>1. Below >= expecting
    BY <1>1, <1>3, BatchFacts DEF FetcherKnows
  <2> QED BY <1>2, <2>1
<1>4. CASE fetcher = "await"
  <2>1. reorgQ = <<>> /\ Below = expecting - 1
    BY <1>1, <1>4, BatchFacts DEF FetcherKnows
  <2>2. Len(ch) = 1 /\ Len(cache) = 0
    <3>1. expecting - 1 = expecting - Len(ch) - Len(cache)
      BY <1>2, <2>1
    <3>2. Len(ch) \in Nat /\ Len(cache) \in Nat /\ expecting \in Nat /\ Len(ch) # 0
      BY <1>2
    <3>3. Len(ch) + Len(cache) = 1
      BY <3>1, <3>2
    <3> QED BY <3>2, <3>3, OneOfTwo
  <2>3. cache = <<>> /\ Tail(ch) = <<>>
    <3>1. ch \in Seq(Block) /\ cache \in Seq(Block)
      BY <1>1, BatchFacts
    <3>2. Tail(ch) \in Seq(Block) /\ Len(Tail(ch)) = 0
      BY <1>1, <2>2, <3>1, HeadTailProperties
    <3> QED BY <2>2, <3>1, <3>2, EmptySeq
  <2> QED BY <1>1, <1>4, <2>1, <2>3
<1>5. CASE fetcher = "done"
  BY <1>1, <1>5, BatchFacts DEF FetcherKnows
<1>6. fetcher \in {"range", "await", "done", "failed"}
  BY <1>1, BatchFacts DEF TypeOK
<1> QED BY <1>3, <1>4, <1>5, <1>6

LEMMA ReceiveKeeps ==
  ASSUME SyncInv, Receive, TypeOK'
  PROVE  SyncInv'
<1> PICK cb \in Block : ReceiveMiddle(cb) \/ ReceiveLast(cb) \/ ReceiveReorg(cb)
  BY DEF Receive
<1>1. Collect(cb)
  BY DEF ReceiveMiddle, ReceiveLast, ReceiveReorg
<1>2. /\ sync = "running" /\ blockTask = "running" /\ ch # <<>> /\ ch' = Tail(ch)
      /\ UNCHANGED <<wallet, rescan, syncVars, blockTask, fetcher, next, cache>>
  BY <1>1 DEF Collect
<1>3. InFlightDescends' /\ Below' = Below /\ Len(ch') = Len(ch) - 1
  BY <1>1, CollectDescends
<1>4. start' = start /\ start >= expecting /\ expecting >= 1 /\ Below \in Int
  BY <1>2, BatchFacts DEF syncVars
<1>5. CASE ReceiveMiddle(cb)
  <2>1. UNCHANGED <<expecting, existing, reorgQ>> /\ Height[cb] # expecting
    BY <1>5 DEF ReceiveMiddle
  <2>2. FetcherKnows'
    <3>1. CASE fetcher = "await"
      <4>1. reorgQ = <<>> /\ Below = expecting - 1
        BY <1>2, <3>1, BatchFacts DEF FetcherKnows
      <4>2. /\ Len(ch) \in Nat /\ Len(cache) \in Nat /\ Len(ch) # 0
            /\ Height[cb] = Below + Len(ch) + Len(cache)
        BY <1>1, <1>2, CollectDescends, BatchFacts DEF Below
      <4>3. Len(ch') + Len(cache') > 0
        BY <1>2, <1>3, <2>1, <4>1, <4>2, BatchFacts
      <4> QED BY <1>2, <1>3, <2>1, <3>1, <4>1, <4>3 DEF FetcherKnows, FetcherEnded
    <3>2. CASE fetcher # "await"
      BY <1>2, <1>3, <2>1, <3>2, BatchFacts DEF FetcherKnows, FetcherEnded
    <3> QED BY <3>1, <3>2
  <2>3. BatchInv'
    BY <1>2, <1>3, <1>4, <2>1, <2>2, BatchFacts DEF BatchInv
  <2> QED BY <1>2, <2>3, BatchStep
<1>6. CASE ReceiveLast(cb)
  <2>1. UNCHANGED <<expecting, existing>> /\ reorgQ' = Append(reorgQ, NoReorg) /\ Height[cb] = expecting
    BY <1>6 DEF ReceiveLast
  <2>2. FetcherKnows'
    <3>1. CASE fetcher = "failed"
      BY <1>2, <3>1, BatchFacts DEF FetcherKnows, FetcherEnded
    <3>2. CASE fetcher # "failed"
      <4>1. /\ fetcher = "await" /\ reorgQ = <<>> /\ Below = expecting - 1
            /\ ch' = <<>> /\ cache = <<>>
        BY <1>1, <2>1, <3>2, LowestIsLast
      <4>2. reorgQ' = <<NoReorg>>
        BY <2>1, <4>1
      <4> QED BY <1>2, <1>3, <2>1, <4>1, <4>2 DEF FetcherKnows, FetcherEnded
    <3> QED BY <3>1, <3>2
  <2>3. BatchInv'
    BY <1>2, <1>3, <1>4, <2>1, <2>2, BatchFacts DEF BatchInv
  <2> QED BY <1>2, <2>3, BatchStep
<1>7. CASE ReceiveReorg(cb)
  <2>1. /\ existing # <<>> /\ existing' = Tail(existing) /\ expecting' = Height[existing[1]]
        /\ reorgQ' = Append(reorgQ, Height[existing[1]]) /\ Height[cb] = expecting
    BY <1>7 DEF ReceiveReorg, Mismatch
  <2>2. existing \in Seq(Block) /\ expecting - 1 \in Int /\ Descends(existing, expecting - 1)
    BY <1>2, BatchFacts
  <2>3. Height[existing[1]] = expecting - 1 /\ expecting - 1 >= 1
    BY <2>1, <2>2, DescendsHead
  <2>4. Descends(existing', expecting' - 1)
    BY <2>1, <2>2, <2>3, DescendsTail
  <2>5. FetcherKnows'
    <3>1. CASE fetcher = "failed"
      BY <1>2, <3>1, BatchFacts DEF FetcherKnows, FetcherEnded
    <3>2. CASE fetcher # "failed"
      <4>1. /\ fetcher = "await" /\ reorgQ = <<>> /\ Below = expecting - 1
            /\ ch' = <<>> /\ cache = <<>>
        BY <1>1, <2>1, <3>2, LowestIsLast
      <4>2. reorgQ' = <<expecting'>>
        BY <2>1, <4>1
      <4> QED BY <1>2, <1>3, <2>1, <2>3, <4>1, <4>2 DEF FetcherKnows, FetcherEnded
    <3> QED BY <3>1, <3>2
  <2>6. BatchInv'
    BY <1>2, <1>3, <1>4, <2>1, <2>3, <2>4, <2>5, BatchFacts DEF BatchInv
  <2> QED BY <1>2, <2>6, BatchStep
<1> QED BY <1>5, <1>6, <1>7

LEMMA CloseBlocksKeeps ==
  ASSUME SyncInv, CloseBlocks, TypeOK'
  PROVE  SyncInv'
<1>1. /\ sync = "running" /\ ch = <<>> /\ cache = <<>> /\ FetcherEnded
      /\ blocks' = blocks \o blks /\ blks' = <<>>
      /\ UNCHANGED <<wallet, rescan, syncVars, expecting, existing, ch, fetcher, next, cache, reorgQ>>
  BY DEF CloseBlocks, fetchVars
<1>2. /\ blocks \in Seq(Block) /\ blks \in Seq(Block) /\ start \in Int
      /\ Len(blocks) \in Nat /\ Len(blks) \in Nat
      /\ Descends(blocks, start) /\ Descends(blks, start - Len(blocks))
  BY <1>1, BatchFacts DEF InFlightDescends
<1>3. Len(blocks') = Len(blocks) + Len(blks) /\ Descends(blocks', start)
  BY <1>1, <1>2, DescendsConcat
<1>4. Len(blks') = 0 /\ Len(ch') = Len(ch) /\ Len(cache') = Len(cache) /\ start' = start
  BY <1>1 DEF syncVars
<1>5. Below' = Below
  <2>1. /\ Below = start - Len(blocks) - Len(blks) - Len(ch) - Len(cache)
        /\ Below' = start - (Len(blocks) + Len(blks)) - 0 - Len(ch) - Len(cache)
    BY <1>3, <1>4 DEF Below
  <2> QED BY <1>1, <1>2, <2>1, BatchFacts
<1>6. InFlightDescends'
  BY <1>1, <1>3, <1>4, NothingDescends DEF InFlightDescends
<1>7. FetcherKnows'
  BY <1>1, <1>5, BatchFacts DEF FetcherKnows, FetcherEnded
<1>8. BatchInv'
  BY <1>1, <1>4, <1>6, <1>7, BatchFacts DEF BatchInv, FetcherEnded
<1> QED BY <1>1, <1>8, BatchStep

(* All the steps together. *)
LEMMA SyncInvStep ==
  ASSUME SyncInv, [Next]_vars, ~RescanDuringSync
  PROVE  SyncInv'
<1>1. TypeOK'
  BY SyncInvType, TypeStep DEF TypeInv
<1>2. TypeOK /\ WalletContiguous /\ PlanInv /\ BatchInv
  BY DEF SyncInv
<1>3. ASSUME UNCHANGED <<wallet, rescan, syncVars, expecting, existing, blocks, blks,
                         blockTask, fetchVars, ch>>
      PROVE  SyncInv'
  <2>1. WalletContiguous' /\ PlanInv'
    BY <1>2, <1>3 DEF WalletContiguous, PlanInv, syncVars
  <2>2. InFlightDescends' = InFlightDescends /\ FetcherKnows' = FetcherKnows
    BY <1>3 DEF InFlightDescends, FetcherKnows, FetcherEnded, Below, syncVars, fetchVars
  <2>3. BatchInv'
    BY <1>2, <1>3, <2>2 DEF BatchInv, FetcherEnded, syncVars, fetchVars
  <2> QED BY <1>1, <2>1, <2>3 DEF SyncInv
<1>4. CASE ServerSwitch
  BY <1>3, <1>4 DEF ServerSwitch, blockVars
<1>5. CASE ClearAll
  <2>1. sync = "idle" /\ sync' = "idle" /\ wallet' = <<>> /\ todo' = todo
    BY <1>5 DEF ClearAll, syncVars
  <2>2. WalletContiguous'
    BY <2>1, NothingDescends DEF WalletContiguous
  <2> QED BY <1>1, <1>2, <2>1, <2>2 DEF SyncInv, PlanInv, BatchInv
<1>6. CASE SetInitialBlock
  <2>1. rescan = "cleared" /\ rescan' = "reset" /\ UNCHANGED syncVars
    BY <1>6 DEF SetInitialBlock
  <2>2. sync = "idle" /\ sync' = "idle" /\ todo' = todo
    BY <1>2, <2>1 DEF PlanInv, syncVars
  <2>3. WalletContiguous'
    <3>1. wallet' = <<>> \/ wallet' = wallet \/ wallet' = <<chain[Birthday]>>
      BY <1>6 DEF SetInitialBlock, InitialBlocks
    <3>2. CASE wallet' = <<chain[Birthday]>>
      <4>1. chain[Birthday] \in Block
        BY <1>2, ChainType DEF TypeOK
      <4> QED BY <3>2, <4>1, OneBlockDescends DEF WalletContiguous, Top
    <3> QED BY <1>2, <3>1, <3>2, NothingDescends DEF WalletContiguous
  <2> QED BY <1>1, <1>2, <2>2, <2>3 DEF SyncInv, PlanInv, BatchInv
<1>7. CASE StartSync
  BY <1>1, <1>7, StartSyncKeeps
<1>8. CASE SkipBatch
  BY <1>1, <1>8, SkipBatchKeeps
<1>9. CASE BeginBatch
  BY <1>1, <1>9, BeginBatchKeeps
<1>10. CASE SetupBatch
  BY <1>1, <1>10, SetupBatchKeeps
<1>11. CASE SetupPanics
  <2>1. sync = "setup" /\ start < expecting
    BY <1>11 DEF SetupPanics
  <2>2. start >= expecting /\ start \in Nat /\ expecting \in Nat
    BY <1>2, <2>1 DEF PlanInv, TypeOK
  <2> QED BY <2>1, <2>2
<1>12. CASE EndSync
  <2>1. sync' = "idle" /\ todo' = todo /\ wallet' = wallet
    BY <1>12 DEF EndSync
  <2> QED BY <1>1, <1>2, <2>1 DEF SyncInv, WalletContiguous, PlanInv, BatchInv
<1>13. CASE Commit
  BY <1>1, <1>13, CommitKeeps
<1>14. CASE Abort
  <2>1. sync' = "idle" /\ todo' = <<>> /\ wallet' = wallet
    BY <1>14 DEF Abort
  <2> QED BY <1>1, <1>2, <2>1 DEF SyncInv, WalletContiguous, PlanInv, BatchInv
<1>15. CASE FetchRange
  BY <1>1, <1>15, FetchRangeKeeps
<1>16. CASE FetchReorged
  BY <1>1, <1>16, FetchReorgedKeeps
<1>17. CASE FetchDone
  BY <1>1, <1>17, FetchDoneKeeps
<1>18. CASE FetchFails
  BY <1>1, <1>18, FetchFailsKeeps
<1>19. CASE SendBlock
  BY <1>1, <1>19, SendBlockKeeps
<1>20. CASE Receive
  BY <1>1, <1>20, ReceiveKeeps
<1>21. CASE CloseBlocks
  BY <1>1, <1>21, CloseBlocksKeeps
<1>22. CASE TrialGroup \/ TrialRest
  BY <1>3, <1>22 DEF TrialGroup, TrialRest, blockVars
<1>23. CASE Detect
  BY <1>3, <1>23 DEF Detect, blockVars
<1>24. CASE UNCHANGED vars
  BY <1>3, <1>24 DEF vars, blockVars
<1> QED
  BY <1>4, <1>5, <1>6, <1>7, <1>8, <1>9, <1>10, <1>11, <1>12, <1>13, <1>14, <1>15, <1>16,
     <1>17, <1>18, <1>19, <1>20, <1>21, <1>22, <1>23, <1>24
     DEF Next, Driver, Tasks, Fetcher

THEOREM SyncInvCorrect ==
  ASSUME ~RescanDuringSync
  PROVE  Spec => []SyncInv
<1>1. SyncInv /\ [Next]_vars => SyncInv'
  BY SyncInvStep
<1> QED BY <1>1, SyncInvInit, PTL DEF Spec

(* The wallet's blocks always have consecutive heights, so that indexing     *)
(* them by first().height - height finds the right one (is_nf_spent and      *)
(* get_block_timestamp of block_witness_data.rs).                            *)
THEOREM WalletStaysContiguous ==
  ASSUME ~RescanDuringSync
  PROVE  Spec => []WalletContiguous
<1>1. SyncInv => WalletContiguous
  BY DEF SyncInv
<1> QED BY <1>1, SyncInvCorrect, PTL

(* So do the blocks of a batch that its tasks can see, while it grows and is *)
(* being reorganised.                                                        *)
THEOREM VisibleStaysContiguous ==
  ASSUME ~RescanDuringSync
  PROVE  Spec => []VisibleContiguous
<1>1. SyncInv => VisibleContiguous
  BY DEF SyncInv, BatchInv, InFlightDescends, VisibleContiguous
<1> QED BY <1>1, SyncInvCorrect, PTL

(* The assertions of setup_for_sync ("Blocks should be backwards") and of    *)
(* the block fetcher ("Wrong block order") never fail.                       *)
THEOREM BatchesAlwaysGoUp ==
  ASSUME ~RescanDuringSync
  PROVE  Spec => []BatchesGoUp
<1>1. SyncInv => BatchesGoUp
  BY DEF SyncInv, PlanInv, BatchInv, FetcherKnows, BatchesGoUp
<1> QED BY <1>1, SyncInvCorrect, PTL

(* The last block of a descending list. *)
LEMMA DescendsLast ==
  ASSUME NEW s \in Seq(Block), NEW h \in Int, Descends(s, h), s # <<>>
  PROVE  Height[s[Len(s)]] = h - Len(s) + 1
BY DEF Descends

(* While the fetcher awaits a reorg signal, the signal or the block that     *)
(* triggers it is on its way, and both sides mean the same height: neither   *)
(* waits for ever, and invalidate_block's heights match.                     *)
THEOREM HandshakeAlwaysAgrees ==
  ASSUME ~RescanDuringSync
  PROVE  Spec => []HandshakeAgrees
<1>1. ASSUME SyncInv PROVE HandshakeAgrees
  <2> SUFFICES ASSUME sync = "running", fetcher = "await", reorgQ = <<>>, Below = expecting - 1,
                      Len(ch) + Len(cache) > 0
               PROVE  /\ cache # <<>> => Height[cache[Len(cache)]] = expecting
                      /\ cache = <<>> => ch # <<>> /\ Height[ch[Len(ch)]] = expecting
    BY <1>1, BatchFacts DEF HandshakeAgrees, FetcherKnows
  <2> DEFINE h == start - Len(blocks) - Len(blks)
  <2>1. /\ h \in Int /\ h - Len(ch) \in Int /\ Len(ch) \in Nat /\ Len(cache) \in Nat
        /\ ch \in Seq(Block) /\ cache \in Seq(Block)
        /\ Descends(ch, h) /\ Descends(cache, h - Len(ch))
        /\ expecting \in Nat
    BY <1>1, BatchFacts DEF InFlightDescends
  <2>2. h - Len(ch) - Len(cache) = expecting - 1
    BY DEF Below
  <2> HIDE DEF h
  <2>3. CASE cache # <<>>
    <3>1. Height[cache[Len(cache)]] = h - Len(ch) - Len(cache) + 1
      BY <2>1, <2>3, DescendsLast
    <3> QED BY <2>1, <2>2, <2>3, <3>1
  <2>4. CASE cache = <<>>
    <3>1. Len(cache) = 0
      BY <2>4
    <3>2. Len(ch) > 0
      BY <2>1, <3>1
    <3>3. ch # <<>>
      BY <3>2
    <3>4. Height[ch[Len(ch)]] = h - Len(ch) + 1
      BY <2>1, <3>3, DescendsLast
    <3>5. h - Len(ch) = expecting - 1
      BY <2>1, <2>2, <3>1
    <3> QED BY <2>1, <2>4, <3>3, <3>4, <3>5
  <2> QED BY <2>3, <2>4
<1> QED BY <1>1, SyncInvCorrect, PTL

-----------------------------------------------------------------------------
(* What a sync makes of the wallet's blocks: they stay a piece of one chain,  *)
(* a sync ends at the server's tip with every block on the server's chain,    *)
(* and BlockSync implements ChainView.  The network may fail at any time; the *)
(* server keeps its chain while a sync runs and the user does not clear the   *)
(* wallet then.                                                               *)

(* Every block of a list is on the server's chain. *)
OnServer(list) == \A i \in 1..Len(list) : OnChain(list[i])

(* The height a list of blocks goes down to, as ChainView has it. *)
Bottom(list) == IF list = <<>> THEN 1 ELSE Height[list[Len(list)]]

(* The block task has told the fetcher that there is no (further) reorg. *)
Settled == fetcher = "done" \/ (fetcher = "await" /\ reorgQ = <<NoReorg>>)

(* The old blocks go on where the downloaded ones end. *)
Joins == existing = <<>> \/ existing[1] = Prev[chain[expecting]]

(* Blocks of a batch come from the server's chain; the old ones that are     *)
(* left are the wallet's, down to its oldest; and once the block task has    *)
(* compared hashes for the last time the two parts fit together.             *)
BatchLinks ==
  sync = "running" =>
    /\ OnServer(blocks) /\ OnServer(blks) /\ OnServer(ch) /\ OnServer(cache)
    /\ Linked(existing)
    /\ expecting - Len(existing) = Bottom(wallet)
    /\ start > Top(wallet)
    /\ Settled => Joins

(* The height the sync will have reached when nothing is left to do. *)
Goal ==
  IF todo # <<>> THEN todo[Len(todo)]
                 ELSE IF sync = "batches" THEN Top(wallet) ELSE start

(* The last batch ends at the tip, and a wallet that is there is on the      *)
(* server's chain down to its oldest block.                                  *)
TipInv ==
  sync # "idle" =>
    /\ Goal = Len(chain)
    /\ sync = "batches" /\ Top(wallet) = Len(chain) => OnServer(wallet)

LinkInv == SyncInv /\ WalletLinked /\ BatchLinks /\ TipInv

-----------------------------------------------------------------------------
(* Lists of blocks on the server's chain *)

LEMMA OnServerNothing == OnServer(<<>>)
BY DEF OnServer

LEMMA OnServerOne == ASSUME NEW b \in Block, OnChain(b) PROVE OnServer(<<b>>)
BY DEF OnServer

LEMMA OnServerTail ==
  ASSUME NEW s \in Seq(Block), s # <<>>, OnServer(s)
  PROVE  OnServer(Tail(s)) /\ OnChain(s[1]) /\ s[1] \in Block
<1>1. /\ Tail(s) \in Seq(Block) /\ Len(Tail(s)) = Len(s) - 1
      /\ \A i \in 1..Len(Tail(s)) : Tail(s)[i] = s[i+1]
  BY HeadTailProperties
<1>2. \A i \in 1..Len(Tail(s)) : i + 1 \in 1..Len(s)
  BY <1>1
<1>3. 1 \in 1..Len(s)
  OBVIOUS
<1> QED BY <1>1, <1>2, <1>3 DEF OnServer

LEMMA OnServerAppend ==
  ASSUME NEW s \in Seq(Block), NEW b \in Block, OnServer(s), OnChain(b)
  PROVE  OnServer(Append(s, b))
<1>1. Len(Append(s, b)) = Len(s) + 1
  OBVIOUS
<1>2. \A i \in 1..Len(s) + 1 : Append(s, b)[i] = IF i <= Len(s) THEN s[i] ELSE b
  OBVIOUS
<1>3. \A i \in 1..Len(s) + 1 : i <= Len(s) => i \in 1..Len(s)
  OBVIOUS
<1> QED BY <1>1, <1>2, <1>3 DEF OnServer

LEMMA OnServerConcat ==
  ASSUME NEW s \in Seq(Block), NEW r \in Seq(Block), OnServer(s), OnServer(r)
  PROVE  OnServer(s \o r)
<1>1. /\ Len(s \o r) = Len(s) + Len(r)
      /\ \A i \in 1..Len(s) + Len(r) :
           (s \o r)[i] = IF i <= Len(s) THEN s[i] ELSE r[i - Len(s)]
  BY ConcatProperties
<1>2. \A i \in 1..Len(s) + Len(r) : IF i <= Len(s) THEN i \in 1..Len(s) ELSE i - Len(s) \in 1..Len(r)
  OBVIOUS
<1> QED BY <1>1, <1>2 DEF OnServer

(* What get_block_range returns is on the server's chain. *)
LEMMA RangeOnServer ==
  ASSUME chain \in Chains, NEW hi \in 1..Len(chain), NEW lo \in 1..hi
  PROVE  OnServer(BlockRange(hi, lo))
<1>1. \A k \in 1..Len(chain) : Height[chain[k]] = k
  BY ChainAssumption
<1>2. Len(BlockRange(hi, lo)) = hi - lo + 1
  BY RangeDescends
<1>3. \A i \in 1..(hi - lo + 1) : hi - i + 1 \in 1..Len(chain) /\ hi - i + 1 <= Len(chain)
  OBVIOUS
<1>4. \A i \in 1..(hi - lo + 1) : BlockRange(hi, lo)[i] = chain[hi - i + 1]
  BY DEF BlockRange
<1> QED BY <1>1, <1>2, <1>3, <1>4 DEF OnServer, OnChain

LEMMA LinkedTail ==
  ASSUME NEW s \in Seq(Block), s # <<>>, Linked(s)
  PROVE  Linked(Tail(s))
<1>1. /\ Len(Tail(s)) = Len(s) - 1
      /\ \A i \in 1..Len(Tail(s)) : Tail(s)[i] = s[i+1]
  BY HeadTailProperties
<1>2. \A i \in 1..Len(Tail(s)) - 1 : /\ i \in 1..Len(Tail(s)) /\ i + 1 \in 1..Len(Tail(s))
                                    /\ i + 1 \in 1..Len(s) - 1
  BY <1>1
<1> QED BY <1>1, <1>2 DEF Linked

(* A block of the server's chain brings the ones it builds on with it. *)
LEMMA FollowDown ==
  ASSUME chain \in Chains, NEW s \in Seq(Block), NEW h \in Int,
         Descends(s, h), Linked(s), s # <<>>, OnChain(s[1])
  PROVE  OnServer(s)
<1> DEFINE Bad == {i \in 1..Len(s) : ~OnChain(s[i])}
<1> SUFFICES Bad = {}
  BY DEF OnServer
<1> SUFFICES ASSUME Bad # {} PROVE FALSE
  OBVIOUS
<1>1. Bad \in SUBSET Nat
  OBVIOUS
<1>2. PICK i \in Bad : \A m \in Bad : i <= m
  <2> HIDE DEF Bad
  <2> QED BY <1>1, LeastNat
<1>3. i \in 1..Len(s) /\ ~OnChain(s[i]) /\ i # 1
  OBVIOUS
<1>4. i - 1 \in 1..Len(s) /\ i - 1 \in 1..Len(s) - 1 /\ i - 1 < i /\ (i - 1) + 1 = i
  BY <1>3
<1>5. OnChain(s[i-1])
  <2>1. i - 1 \notin Bad
    BY <1>2, <1>4
  <2> QED BY <1>4, <2>1
<1>6. Prev[s[i-1]] = s[i]
  BY <1>4 DEF Linked
<1>7. /\ s[i] \in Block /\ s[i-1] \in Block
      /\ Height[s[i]] = h - i + 1 /\ Height[s[i-1]] = h - (i - 1) + 1
  BY <1>3, <1>4 DEF Descends
<1> DEFINE k == Height[s[i-1]]
<1>8. k \in Nat /\ Height[s[i]] = k - 1 /\ k - 1 >= 1 /\ k <= Len(chain) /\ chain[k] = s[i-1]
  <2>1. Height[s[i]] \in Nat \ {0} /\ Height[s[i-1]] \in Nat \ {0}
    BY <1>7, ChainAssumption
  <2>2. Height[s[i]] = Height[s[i-1]] - 1
    BY <1>3, <1>7
  <2> QED BY <1>5, <2>1, <2>2 DEF OnChain
<1>9. k \in 2..Len(chain)
  BY <1>8, ChainType
<1>10. Prev[chain[k]] = chain[k-1]
  BY <1>9, ChainAssumption
<1>11. OnChain(s[i])
  <2>1. k - 1 <= Len(chain)
    BY <1>8, ChainType
  <2> QED BY <1>6, <1>8, <1>10, <2>1 DEF OnChain
<1> QED BY <1>3, <1>11

(* The batches of a sync end at the tip. *)
LEMMA BatchesReach ==
  ASSUME NEW last \in Nat, NEW latest \in Nat, latest >= last
  PROVE  /\ Batches(last, latest) # <<>>
         /\ Batches(last, latest)[Len(Batches(last, latest))] = latest
<1> DEFINE q == (latest - last + Batch - 1) \div Batch
           n == Larger(1, q)
<1>1. Batch \in Nat \ {0} /\ latest - last + Batch - 1 \in Nat
  BY SizeAssumption
<1>2. q \in Int /\ latest - last + Batch - 1 < Batch * q + Batch
  <2>1. ASSUME NEW a \in Int, NEW b \in Nat \ {0}
        PROVE  a \div b \in Int /\ a < b * (a \div b) + b
    OBVIOUS
  <2> QED BY <1>1, <2>1
<1>3. n \in Nat /\ n >= 1 /\ n >= q
  <2> HIDE DEF q
  <2> QED BY <1>2 DEF Larger
<1>4. last + n * Batch >= latest
  <2> HIDE DEF n, q
  <2>1. Batch * q <= n * Batch /\ Batch * q \in Int /\ n * Batch \in Nat
    BY <1>1, <1>2, <1>3
  <2> QED BY <1>1, <1>2, <2>1
<1> DEFINE B == [i \in 1..n |-> Smaller(latest, last + i * Batch)]
<1>5. Batches(last, latest) = B
  BY DEF Batches
<1>6. Len(B) = n /\ B # <<>>
  <2> HIDE DEF n
  <2> QED BY <1>3
<1>7. B[n] = latest
  <2> HIDE DEF n
  <2> QED BY <1>1, <1>3, <1>4 DEF Smaller
<1> HIDE DEF B, n
<1> QED BY <1>5, <1>6, <1>7

-----------------------------------------------------------------------------
(* The link invariant *)

LEMMA LinkFacts ==
  ASSUME LinkInv
  PROVE  /\ SyncInv /\ TypeOK /\ WalletContiguous /\ PlanInv /\ BatchInv /\ TipInv /\ BatchLinks
         /\ Linked(wallet)
         /\ chain \in Chains /\ chain \in Seq(Block) /\ Len(chain) \in Nat
         /\ wallet \in Seq(Block) /\ Top(wallet) \in Nat /\ Descends(wallet, Top(wallet))
         /\ todo \in Seq(Nat) /\ start \in Nat /\ expecting \in Nat
BY TopType, ChainType DEF LinkInv, SyncInv, TypeOK, WalletLinked, WalletContiguous

LEMMA LinkInit == Init => WalletLinked /\ BatchLinks /\ TipInv
<1> SUFFICES ASSUME Init PROVE WalletLinked /\ BatchLinks /\ TipInv
  OBVIOUS
<1>1. Len(wallet) = 0 \/ Len(wallet) = 1
  <2>1. wallet = <<>> \/ wallet = <<chain[Birthday]>>
    BY DEF Init, InitialBlocks
  <2>2. CASE wallet = <<>>
    BY <2>2
  <2>3. CASE wallet = <<chain[Birthday]>>
    BY <2>3
  <2> QED BY <2>1, <2>2, <2>3
<1>2. \A i \in 1..Len(wallet) - 1 : FALSE
  <2>1. CASE Len(wallet) = 0
    BY <2>1
  <2>2. CASE Len(wallet) = 1
    BY <2>2
  <2> QED BY <1>1, <2>1, <2>2
<1> QED BY <1>2 DEF Init, WalletLinked, Linked, BatchLinks, TipInv

(* A sync that is not running a batch has no batch to speak of. *)
LEMMA NoBatch == ASSUME sync' # "running" PROVE BatchLinks'
BY DEF BatchLinks

LEMMA NoSync == ASSUME sync' = "idle" PROVE BatchLinks' /\ TipInv'
BY DEF BatchLinks, TipInv

LEMMA StartSyncLinks ==
  ASSUME LinkInv, StartSync
  PROVE  WalletLinked' /\ BatchLinks' /\ TipInv'
<1> DEFINE list == IF TipReplaced THEN Tail(wallet) ELSE wallet
<1>1. /\ wallet' = list /\ todo' = Batches(Top(list), Len(chain)) /\ sync' = "batches"
      /\ chain' = chain /\ Len(chain) >= Top(wallet)
  BY DEF StartSync
<1>2. list \in Seq(Block) /\ Linked(list) /\ Top(list) \in Nat /\ Top(list) <= Top(wallet)
  <2>1. CASE TipReplaced
    <3>1. wallet # <<>> /\ list = Tail(wallet)
      BY <2>1 DEF TipReplaced
    <3> QED BY <3>1, LinkFacts, DropNewest, TopType, LinkedTail
  <2>2. CASE ~TipReplaced
    BY <2>2, LinkFacts
  <2> QED BY <2>1, <2>2
<1>3. ASSUME Top(list) = Len(chain) PROVE OnServer(list)
  <2>1. CASE list = <<>>
    BY <2>1, OnServerNothing
  <2>2. CASE list # <<>> /\ TipReplaced
    <3>1. /\ wallet # <<>> /\ Tail(wallet) # <<>> /\ list = Tail(wallet)
          /\ Len(chain) = Top(wallet)
      BY <2>2 DEF TipReplaced
    <3>2. Tail(wallet) \in Seq(Block) /\ Descends(Tail(wallet), Top(wallet) - 1)
      BY <3>1, LinkFacts, DescendsTail
    <3>3. Top(wallet) - 1 \in Int
      BY LinkFacts
    <3>4. Top(list) = Top(wallet) - 1
      BY <3>1, <3>2, <3>3, TopOfDescending
    <3> QED BY <1>3, <3>1, <3>4, LinkFacts
  <2>3. CASE list # <<>> /\ ~TipReplaced
    <3>1. list = wallet /\ wallet # <<>>
      BY <2>3
    <3>2. Height[wallet[1]] = Len(chain) /\ chain[Len(chain)] = wallet[1]
      BY <1>3, <2>3, <3>1 DEF TipReplaced, Top
    <3>3. OnChain(wallet[1])
      BY <3>2, LinkFacts DEF OnChain
    <3>4. Top(wallet) \in Int
      BY LinkFacts
    <3> QED BY <3>1, <3>3, <3>4, LinkFacts, FollowDown
  <2> QED BY <2>1, <2>2, <2>3
<1> HIDE DEF list
<1>4. Goal' = Len(chain)
  <2>1. Len(chain) \in Nat /\ Len(chain) >= Top(list)
    BY <1>1, <1>2, LinkFacts
  <2> QED BY <1>1, <1>2, <2>1, BatchesReach DEF Goal
<1>5. TipInv'
  <2>1. Top(wallet') = Len(chain) => OnServer(list)
    BY <1>1, <1>3
  <2> QED BY <1>1, <1>4, <2>1 DEF TipInv, OnServer, OnChain
<1> QED BY <1>1, <1>2, <1>5, NoBatch DEF WalletLinked

(* The last of the batches left, when the first is taken off. *)
LEMMA LastBatch ==
  ASSUME NEW s \in Seq(Nat), s # <<>>
  PROVE  /\ Head(s) \in Nat
         /\ Tail(s) = <<>> => s[Len(s)] = Head(s)
         /\ Tail(s) # <<>> => Tail(s)[Len(Tail(s))] = s[Len(s)]
<1>1. /\ Tail(s) \in Seq(Nat) /\ Len(Tail(s)) = Len(s) - 1 /\ Len(s) \in Nat /\ Head(s) = s[1]
      /\ \A i \in 1..Len(Tail(s)) : Tail(s)[i] = s[i+1]
      /\ Head(s) \in Nat
  BY HeadTailProperties
<1>2. ASSUME Tail(s) = <<>> PROVE Len(s) = 1
  <2>1. Len(Tail(s)) = 0
    BY <1>1, <1>2, EmptySeq
  <2>2. Len(s) - 1 = 0 /\ Len(s) \in Nat
    BY <1>1, <2>1
  <2> QED BY <2>2
<1>3. ASSUME Tail(s) # <<>> PROVE Len(Tail(s)) \in 1..Len(Tail(s)) /\ Len(Tail(s)) + 1 = Len(s)
  <2>1. Len(Tail(s)) # 0
    BY <1>1, <1>3, EmptySeq
  <2> QED BY <1>1, <2>1
<1> QED BY <1>1, <1>2, <1>3

LEMMA SkipBatchLinks ==
  ASSUME LinkInv, SkipBatch
  PROVE  WalletLinked' /\ BatchLinks' /\ TipInv'
<1>1. /\ sync = "batches" /\ todo # <<>> /\ Head(todo) = Top(wallet) /\ todo' = Tail(todo)
      /\ UNCHANGED <<chain, wallet, sync, start>>
  BY DEF SkipBatch
<1>2. todo[Len(todo)] = Len(chain)
  BY <1>1, LinkFacts DEF TipInv, Goal
<1>3. Goal' = Len(chain)
  BY <1>1, <1>2, LinkFacts, LastBatch DEF Goal
<1>4. TipInv'
  BY <1>1, <1>3, LinkFacts DEF TipInv, OnServer, OnChain
<1> QED BY <1>1, <1>4, LinkFacts, NoBatch DEF WalletLinked

LEMMA BeginBatchLinks ==
  ASSUME LinkInv, BeginBatch
  PROVE  WalletLinked' /\ BatchLinks' /\ TipInv'
<1>1. /\ sync = "batches" /\ todo # <<>> /\ sync' = "setup" /\ todo' = Tail(todo)
      /\ start' = Head(todo) /\ UNCHANGED <<chain, wallet>>
  BY DEF BeginBatch
<1>2. todo[Len(todo)] = Len(chain)
  BY <1>1, LinkFacts DEF TipInv, Goal
<1>3. Goal' = Len(chain)
  BY <1>1, <1>2, LinkFacts, LastBatch DEF Goal
<1> QED BY <1>1, <1>3, LinkFacts, NoBatch DEF WalletLinked, TipInv

(* The height a contiguous list goes down to. *)
LEMMA BottomOfDescending ==
  ASSUME NEW s \in Seq(Block), Descends(s, Top(s))
  PROVE  Bottom(s) = Top(s) - Len(s) + 1
<1>1. CASE s = <<>>
  BY <1>1 DEF Bottom, Top
<1>2. CASE s # <<>>
  <2>1. Len(s) \in 1..Len(s) /\ Top(s) \in Int
    BY <1>2, TopType
  <2> QED BY <1>2, <2>1 DEF Bottom, Descends
<1> QED BY <1>1, <1>2

LEMMA SetupBatchLinks ==
  ASSUME LinkInv, SetupBatch
  PROVE  WalletLinked' /\ BatchLinks' /\ TipInv'
<1>1. /\ sync = "setup" /\ sync' = "running" /\ existing' = wallet
      /\ blocks' = <<>> /\ blks' = <<>> /\ ch' = <<>> /\ cache' = <<>>
      /\ fetcher' = "range" /\ UNCHANGED <<chain, wallet, todo, start, expecting>>
  BY DEF SetupBatch
<1>2. expecting = Top(wallet) + 1 /\ start >= expecting
  BY <1>1, LinkFacts DEF PlanInv
<1>3. expecting - Len(wallet) = Bottom(wallet)
  <2>1. Bottom(wallet) = Top(wallet) - Len(wallet) + 1 /\ Len(wallet) \in Nat
    BY LinkFacts, BottomOfDescending
  <2> QED BY <1>2, <2>1, LinkFacts
<1>4. start > Top(wallet)
  BY <1>2, LinkFacts
<1>5. BatchLinks'
  <2>1. OnServer(<<>>)' /\ ~Settled'
    BY <1>1 DEF OnServer, Settled
  <2>2. Bottom(wallet)' = Bottom(wallet) /\ Top(wallet)' = Top(wallet) /\ Linked(wallet)' = Linked(wallet)
    BY <1>1 DEF Bottom, Top, Linked
  <2> QED BY <1>1, <1>3, <1>4, <2>1, <2>2, LinkFacts DEF BatchLinks, OnServer, Linked
<1>6. TipInv'
  BY <1>1, LinkFacts DEF TipInv, Goal
<1> QED BY <1>1, <1>5, <1>6, LinkFacts DEF WalletLinked

-----------------------------------------------------------------------------
(* Committing a batch *)

(* What the wallet's list becomes is the server's chain, block by block. *)
LEMMA CommitFollows ==
  ASSUME LinkInv, Commit
  PROVE  /\ wallet' \in Seq(Block) /\ Len(wallet') >= 1
         /\ Len(wallet') = Smaller(MaxReorg, start - Bottom(wallet) + 1)
         /\ start \in Nat /\ start <= Len(chain) /\ start > Top(wallet)
         /\ Bottom(wallet) \in Nat \ {0} /\ Bottom(wallet) <= start
         /\ \A i \in 1..Len(wallet') : start - i + 1 >= 1 /\ wallet'[i] = chain[start - i + 1]
<1>1. /\ sync = "running" /\ blockTask = "done" /\ fetcher = "done"
      /\ wallet' = FinishGetBlocks
  BY DEF Commit
<1>2. /\ blks = <<>> /\ ch = <<>> /\ cache = <<>> /\ Below = expecting - 1
      /\ Descends(blocks, start) /\ Descends(existing, expecting - 1)
      /\ start >= expecting /\ expecting >= 1
  BY <1>1, LinkFacts DEF BatchInv, FetcherKnows, FetcherEnded, InFlightDescends
<1>3. /\ blocks \in Seq(Block) /\ existing \in Seq(Block) /\ start \in Nat
      /\ Len(blocks) \in Nat /\ Len(existing) \in Nat /\ expecting \in Nat
  BY LinkFacts DEF TypeOK
<1>4. Len(blocks) = start - expecting + 1 /\ Len(blocks) >= 1
  BY <1>2, <1>3 DEF Below
<1>5. OnServer(blocks) /\ Linked(existing) /\ expecting - Len(existing) = Bottom(wallet)
      /\ start > Top(wallet) /\ Joins
  BY <1>1, LinkFacts DEF BatchLinks, Settled
<1>6. \A i \in 1..Len(blocks) : start - i + 1 \in 1..Len(chain) /\ blocks[i] = chain[start - i + 1]
  <2> TAKE i \in 1..Len(blocks)
  <2>1. blocks[i] \in Block /\ Height[blocks[i]] = start - i + 1
    BY <1>2, <1>3 DEF Descends
  <2>2. Height[blocks[i]] \in Nat \ {0}
    BY <2>1, ChainAssumption
  <2>3. Height[blocks[i]] <= Len(chain) /\ chain[Height[blocks[i]]] = blocks[i]
    BY <1>5 DEF OnServer, OnChain
  <2> QED BY <2>1, <2>2, <2>3, LinkFacts
<1>7. start \in 1..Len(chain) /\ expecting \in 1..Len(chain)
  <2>1. 1 \in 1..Len(blocks) /\ Len(blocks) \in 1..Len(blocks)
    BY <1>3, <1>4
  <2>2. start - 1 + 1 \in 1..Len(chain) /\ start - Len(blocks) + 1 \in 1..Len(chain)
    BY <1>6, <2>1
  <2> QED BY <1>3, <1>4, <2>2
<1>8. OnServer(existing)
  <2>1. CASE existing = <<>>
    BY <2>1, OnServerNothing
  <2>2. CASE existing # <<>>
    <3>1. Height[existing[1]] = expecting - 1 /\ Height[existing[1]] \in Nat \ {0} /\ expecting - 1 \in Int
      BY <1>2, <1>3, <2>2, DescendsHead
    <3>2. expecting \in 2..Len(chain)
      BY <1>3, <1>7, <3>1
    <3>3. existing[1] = chain[expecting - 1]
      BY <1>5, <2>2, <3>2, LinkFacts, ChainAssumption DEF Joins
    <3>4. OnChain(existing[1])
      BY <3>1, <3>2, <3>3, LinkFacts DEF OnChain
    <3> QED BY <1>2, <1>3, <1>5, <2>2, <3>1, <3>4, LinkFacts, FollowDown
  <2> QED BY <2>1, <2>2
<1> DEFINE list == blocks \o existing
           n    == Smaller(MaxReorg, Len(list))
<1>9. list \in Seq(Block) /\ Len(list) = Len(blocks) + Len(existing) /\ Descends(list, start)
  <2>1. expecting - 1 = start - Len(blocks)
    BY <1>3, <1>4
  <2>2. Descends(existing, start - Len(blocks))
    BY <1>2, <2>1
  <2> QED BY <1>2, <1>3, <2>2, DescendsConcat
<1>10. OnServer(list)
  BY <1>3, <1>5, <1>8, OnServerConcat
<1>11. Len(list) = start - Bottom(wallet) + 1 /\ Bottom(wallet) \in Int /\ Bottom(wallet) <= start
  BY <1>3, <1>4, <1>5, <1>9
<1> HIDE DEF list
<1>12. n \in Nat /\ n >= 1 /\ n <= Len(list) /\ n = Smaller(MaxReorg, start - Bottom(wallet) + 1)
  BY <1>3, <1>9, <1>11, SizeAssumption DEF Smaller
<1>13. wallet' = SubSeq(list, 1, n)
  BY <1>1 DEF FinishGetBlocks, list
<1> HIDE DEF n
<1>14. wallet' \in Seq(Block) /\ Len(wallet') = n /\ \A i \in 1..n : wallet'[i] = list[i]
  <2>1. \A i \in 1..n : list[i] \in Block
    BY <1>9, <1>12
  <2>2. /\ SubSeq(list, 1, n) \in Seq(Block)
        /\ Len(SubSeq(list, 1, n)) = IF 1 <= n THEN n - 1 + 1 ELSE 0
        /\ \A i \in 1 .. n - 1 + 1 : SubSeq(list, 1, n)[i] = list[1 + i - 1]
    BY <1>12, <2>1, SubSeqProperties
  <2> QED BY <1>12, <1>13, <2>2
<1>15. ASSUME NEW i \in 1..n PROVE start - i + 1 >= 1 /\ wallet'[i] = chain[start - i + 1]
  <2>1. i \in 1..Len(list)
    BY <1>9, <1>12
  <2>2. list[i] \in Block /\ Height[list[i]] = start - i + 1
    BY <1>9, <2>1 DEF Descends
  <2>3. Height[list[i]] \in Nat \ {0}
    BY <2>2, ChainAssumption
  <2>4. chain[Height[list[i]]] = list[i]
    BY <1>10, <2>1 DEF OnServer, OnChain
  <2> QED BY <1>14, <2>2, <2>3, <2>4
<1>16. Bottom(wallet) >= 1
  <2>1. CASE wallet = <<>>
    BY <2>1 DEF Bottom
  <2>2. CASE wallet # <<>>
    <3>1. wallet[Len(wallet)] \in Block
      BY <2>2, LinkFacts
    <3> QED BY <2>2, <3>1, ChainAssumption DEF Bottom
  <2> QED BY <2>1, <2>2
<1> QED BY <1>3, <1>5, <1>7, <1>11, <1>12, <1>14, <1>15, <1>16, LinkFacts

LEMMA CommitLinks ==
  ASSUME LinkInv, Commit
  PROVE  WalletLinked' /\ BatchLinks' /\ TipInv'
<1>1. sync = "running" /\ sync' = "batches" /\ UNCHANGED <<chain, todo, start>>
  BY DEF Commit
<1>2. /\ wallet' \in Seq(Block) /\ Len(wallet') >= 1 /\ Len(wallet') \in Nat
      /\ start \in Nat /\ start <= Len(chain)
      /\ \A i \in 1..Len(wallet') : start - i + 1 >= 1 /\ wallet'[i] = chain[start - i + 1]
  BY CommitFollows
<1>3. \A i \in 1..Len(wallet') : start - i + 1 \in 1..Len(chain)
  BY <1>2, LinkFacts
<1>4. Linked(wallet')
  <2>1. ASSUME NEW i \in 1..Len(wallet') - 1 PROVE Prev[wallet'[i]] = wallet'[i+1]
    <3>1. i \in 1..Len(wallet') /\ i + 1 \in 1..Len(wallet')
      BY <1>2
    <3>2. wallet'[i] = chain[start - i + 1] /\ wallet'[i+1] = chain[start - (i + 1) + 1]
      BY <1>2, <3>1
    <3>3. start - i + 1 \in 1..Len(chain) /\ start - (i + 1) + 1 \in 1..Len(chain)
      BY <1>3, <3>1
    <3> DEFINE k == start - i + 1
    <3>4. k \in 2..Len(chain) /\ k - 1 = start - (i + 1) + 1
      BY <1>2, <3>3, LinkFacts
    <3>5. Prev[chain[k]] = chain[k-1]
      BY <3>4, LinkFacts, ChainAssumption
    <3> QED BY <3>2, <3>4, <3>5
  <2> QED BY <2>1 DEF Linked
<1>5. \A i \in 1..Len(wallet') : OnChain(wallet'[i])
  <2> TAKE i \in 1..Len(wallet')
  <2> DEFINE k == start - i + 1
  <2>1. k \in 1..Len(chain) /\ wallet'[i] = chain[k]
    BY <1>2, <1>3
  <2>2. Height[chain[k]] = k /\ k <= Len(chain)
    BY <2>1, LinkFacts, ChainAssumption
  <2> QED BY <2>1, <2>2 DEF OnChain
<1>6. Top(wallet') = start
  <2>1. 1 \in 1..Len(wallet') /\ wallet' # <<>>
    BY <1>2
  <2>2. wallet'[1] = chain[start] /\ start \in 1..Len(chain)
    <3>1. wallet'[1] = chain[start - 1 + 1] /\ start - 1 + 1 \in 1..Len(chain)
      BY <1>2, <1>3, <2>1
    <3> QED BY <1>2, <3>1
  <2> QED BY <2>1, <2>2, LinkFacts, ChainAssumption DEF Top
<1>7. Goal' = Len(chain)
  BY <1>1, <1>6, LinkFacts DEF TipInv, Goal
<1>8. TipInv'
  BY <1>1, <1>5, <1>7 DEF TipInv, OnServer, OnChain
<1> QED BY <1>1, <1>4, <1>8, NoBatch DEF WalletLinked

-----------------------------------------------------------------------------
(* Steps of the tasks *)

(* What a step of the tasks leaves alone, and what follows of TipInv. *)
LEMMA TaskStep ==
  ASSUME LinkInv, sync = "running", UNCHANGED <<chain, wallet, syncVars>>
  PROVE  WalletLinked' /\ TipInv' /\ Bottom(wallet)' = Bottom(wallet) /\ start' > Top(wallet)'
<1>1. start > Top(wallet)
  BY LinkFacts DEF BatchLinks
<1> QED BY <1>1, LinkFacts DEF WalletLinked, Linked, TipInv, Goal, Bottom, Top, syncVars

(* A list on the server's chain now is on the server's chain then. *)
LEMMA OnServerStays ==
  ASSUME chain' = chain, NEW s, OnServer(s)
  PROVE  \A i \in 1..Len(s) : Height[s[i]] <= Len(chain') /\ chain'[Height[s[i]]] = s[i]
BY DEF OnServer, OnChain

LEMMA FetchRangeLinks ==
  ASSUME LinkInv, FetchRange
  PROVE  WalletLinked' /\ BatchLinks' /\ TipInv'
<1> DEFINE lo == Larger(next - Step + 1, expecting)
<1>1. /\ sync = "running" /\ cache = <<>> /\ fetcher = "range" /\ Len(chain) >= next
      /\ cache' = BlockRange(next, lo)
      /\ fetcher' \in {"await", "range"}
      /\ UNCHANGED <<chain, wallet, syncVars, expecting, existing, blocks, blks, ch, reorgQ>>
  BY DEF FetchRange, Working, blockVars
<1>2. next >= expecting /\ next \in Nat /\ expecting \in Nat /\ expecting >= 1 /\ reorgQ = <<>>
  BY <1>1, LinkFacts, BatchFacts DEF FetcherKnows
<1>3. lo \in 1..next /\ next \in 1..Len(chain)
  BY <1>1, <1>2, LinkFacts, SizeAssumption DEF Larger
<1> HIDE DEF lo
<1>4. OnServer(cache')
  BY <1>1, <1>3, LinkFacts, RangeOnServer
<1>5. ~Settled'
  BY <1>1, <1>2 DEF Settled, NoReorg
<1>6. BatchLinks'
  <2>1. OnServer(cache)'
    BY <1>1, <1>4 DEF OnServer, OnChain
  <2>2. (OnServer(blocks) /\ OnServer(blks) /\ OnServer(ch) /\ Linked(existing))'
    BY <1>1, LinkFacts DEF BatchLinks, OnServer, OnChain, Linked
  <2>3. (expecting - Len(existing) = Bottom(wallet))'
    BY <1>1, LinkFacts, TaskStep DEF BatchLinks
  <2> QED BY <1>1, <1>5, <2>1, <2>2, <2>3, TaskStep DEF BatchLinks
<1> QED BY <1>1, <1>6, TaskStep

LEMMA FetchReorgedLinks ==
  ASSUME LinkInv, FetchReorged
  PROVE  WalletLinked' /\ BatchLinks' /\ TipInv'
<1>1. /\ sync = "running" /\ fetcher = "await" /\ reorgQ # <<>>
      /\ Head(reorgQ) \in 1..Len(chain)
      /\ cache' = BlockRange(Head(reorgQ), Head(reorgQ)) /\ reorgQ' = Tail(reorgQ)
      /\ UNCHANGED <<chain, wallet, syncVars, expecting, existing, blocks, blks, ch, fetcher>>
  BY DEF FetchReorged, Working, blockVars
<1>2. reorgQ = <<expecting>>
  BY <1>1, LinkFacts, BatchFacts DEF FetcherKnows, NoReorg
<1>3. reorgQ' = <<>>
  BY <1>1, <1>2
<1>4. OnServer(cache')
  <2>1. Head(reorgQ) \in 1..Head(reorgQ)
    BY <1>1, LinkFacts
  <2> QED BY <1>1, <2>1, LinkFacts, RangeOnServer
<1>5. ~Settled'
  BY <1>1, <1>3 DEF Settled
<1>6. BatchLinks'
  <2>1. OnServer(cache)'
    BY <1>1, <1>4 DEF OnServer, OnChain
  <2>2. (OnServer(blocks) /\ OnServer(blks) /\ OnServer(ch) /\ Linked(existing))'
    BY <1>1, LinkFacts DEF BatchLinks, OnServer, OnChain, Linked
  <2>3. (expecting - Len(existing) = Bottom(wallet))'
    BY <1>1, LinkFacts, TaskStep DEF BatchLinks
  <2> QED BY <1>1, <1>5, <2>1, <2>2, <2>3, TaskStep DEF BatchLinks
<1> QED BY <1>1, <1>6, TaskStep

(* Any other step of the fetcher: it may end, and move a block on. *)
LEMMA FetcherLinks ==
  ASSUME LinkInv, FetchDone \/ FetchFails \/ SendBlock
  PROVE  WalletLinked' /\ BatchLinks' /\ TipInv'
<1>1. /\ sync = "running"
      /\ UNCHANGED <<chain, wallet, syncVars, expecting, existing, blocks, blks>>
  BY DEF FetchDone, FetchFails, SendBlock, Working, blockVars
<1>2. Settled' => Settled
  <2>1. CASE FetchDone
    <3>1. fetcher = "await" /\ reorgQ # <<>> /\ Head(reorgQ) = NoReorg
      BY <2>1 DEF FetchDone
    <3>2. reorgQ = <<NoReorg>> \/ (reorgQ = <<expecting>> /\ expecting >= 1)
      BY <1>1, <3>1, LinkFacts, BatchFacts DEF FetcherKnows
    <3>3. reorgQ = <<NoReorg>>
      BY <3>1, <3>2 DEF NoReorg
    <3> QED BY <3>1, <3>3 DEF Settled
  <2>2. CASE FetchFails
    BY <2>2 DEF FetchFails, Settled
  <2>3. CASE SendBlock
    BY <2>3 DEF SendBlock, Settled
  <2> QED BY <2>1, <2>2, <2>3
<1>3. (OnServer(ch) /\ OnServer(cache))'
  <2>1. CASE FetchDone \/ FetchFails
    BY <1>1, <2>1, LinkFacts DEF BatchLinks, OnServer, OnChain, FetchDone, FetchFails
  <2>2. CASE SendBlock
    <3>1. ch' = Append(ch, cache[1]) /\ cache' = Tail(cache) /\ cache # <<>>
      BY <2>2 DEF SendBlock
    <3>2. ch \in Seq(Block) /\ cache \in Seq(Block) /\ OnServer(ch) /\ OnServer(cache)
      BY <1>1, LinkFacts, BatchFacts DEF BatchLinks
    <3>3. OnServer(ch') /\ OnServer(cache')
      BY <3>1, <3>2, OnServerTail, OnServerAppend
    <3> QED BY <1>1, <3>3 DEF OnServer, OnChain
  <2> QED BY <2>1, <2>2
<1>4. (OnServer(blocks) /\ OnServer(blks) /\ Linked(existing))'
  BY <1>1, LinkFacts DEF BatchLinks, OnServer, OnChain, Linked
<1>5. (expecting - Len(existing) = Bottom(wallet))'
  BY <1>1, LinkFacts, TaskStep DEF BatchLinks
<1>6. (Settled => Joins)'
  BY <1>1, <1>2, LinkFacts DEF BatchLinks, Joins
<1>7. BatchLinks'
  BY <1>1, <1>3, <1>4, <1>5, <1>6, TaskStep DEF BatchLinks
<1> QED BY <1>1, <1>7, TaskStep

(* The block task takes a block of the server's chain. *)
LEMMA CollectLinks ==
  ASSUME LinkInv, NEW cb \in Block, Collect(cb)
  PROVE  /\ sync = "running" /\ UNCHANGED <<chain, wallet, syncVars, fetcher>>
         /\ OnChain(cb)
         /\ (OnServer(blocks) /\ OnServer(blks) /\ OnServer(ch) /\ OnServer(cache))'
<1>1. /\ sync = "running" /\ ch # <<>> /\ cb = ch[1] /\ ch' = Tail(ch)
      /\ UNCHANGED <<chain, wallet, syncVars, fetcher, cache>>
      /\ \/ blocks' = blocks \o blks /\ blks' = <<cb>>
         \/ blocks' = blocks /\ blks' = Append(blks, cb)
  BY DEF Collect
<1>2. /\ blocks \in Seq(Block) /\ blks \in Seq(Block) /\ ch \in Seq(Block)
      /\ OnServer(blocks) /\ OnServer(blks) /\ OnServer(ch) /\ OnServer(cache)
  BY <1>1, LinkFacts, BatchFacts DEF BatchLinks
<1>3. OnServer(ch') /\ OnChain(cb)
  BY <1>1, <1>2, OnServerTail
<1>4. OnServer(blocks') /\ OnServer(blks')
  BY <1>1, <1>2, <1>3, OnServerConcat, OnServerOne, OnServerAppend
<1> QED BY <1>1, <1>2, <1>3, <1>4 DEF OnServer, OnChain

LEMMA ReceiveLinks ==
  ASSUME LinkInv, Receive, TypeOK'
  PROVE  WalletLinked' /\ BatchLinks' /\ TipInv'
<1> PICK cb \in Block : ReceiveMiddle(cb) \/ ReceiveLast(cb) \/ ReceiveReorg(cb)
  BY DEF Receive
<1>1. Collect(cb)
  BY DEF ReceiveMiddle, ReceiveLast, ReceiveReorg
<1>2. /\ sync = "running" /\ UNCHANGED <<chain, wallet, syncVars, fetcher>>
      /\ OnChain(cb)
      /\ (OnServer(blocks) /\ OnServer(blks) /\ OnServer(ch) /\ OnServer(cache))'
  BY <1>1, CollectLinks
<1>3. /\ expecting \in Nat /\ existing \in Seq(Block) /\ expecting - 1 \in Int
      /\ Descends(existing, expecting - 1)
      /\ Linked(existing) /\ expecting - Len(existing) = Bottom(wallet)
  BY <1>2, LinkFacts, BatchFacts DEF BatchLinks
<1>4. (Linked(existing) /\ expecting - Len(existing) = Bottom(wallet))'
  <2>1. CASE ReceiveMiddle(cb) \/ ReceiveLast(cb)
    <3>1. UNCHANGED <<expecting, existing>>
      BY <2>1 DEF ReceiveMiddle, ReceiveLast
    <3> QED BY <1>2, <1>3, <3>1, TaskStep DEF Linked
  <2>2. CASE ReceiveReorg(cb)
    <3>1. existing # <<>> /\ existing' = Tail(existing) /\ expecting' = Height[existing[1]]
      BY <2>2 DEF ReceiveReorg, Mismatch
    <3>2. expecting' = expecting - 1 /\ Len(existing') = Len(existing) - 1 /\ Linked(existing')
      BY <1>3, <3>1, DescendsHead, DescendsTail, LinkedTail
    <3>3. expecting' - Len(existing') = expecting - Len(existing)
      <4>1. Len(existing) \in Nat
        BY <1>3
      <4> QED BY <1>3, <3>2, <4>1
    <3> QED BY <1>2, <1>3, <3>2, <3>3, TaskStep DEF Linked
  <2> QED BY <2>1, <2>2
<1>5. (Settled => Joins)'
  <2>1. CASE ReceiveMiddle(cb)
    <3>1. UNCHANGED <<expecting, existing, reorgQ>>
      BY <2>1 DEF ReceiveMiddle
    <3> QED BY <1>2, <3>1, LinkFacts DEF BatchLinks, Settled, Joins
  <2>2. CASE ReceiveLast(cb)
    <3>1. UNCHANGED <<expecting, existing>> /\ Height[cb] = expecting /\ ~Mismatch(cb)
      BY <2>2 DEF ReceiveLast
    <3>2. chain[expecting] = cb
      BY <1>2, <3>1 DEF OnChain
    <3> QED BY <1>2, <3>1, <3>2 DEF Joins, Mismatch
  <2>3. CASE ReceiveReorg(cb)
    <3>1. /\ existing # <<>> /\ expecting' = Height[existing[1]] /\ Height[cb] = expecting
          /\ reorgQ' = Append(reorgQ, Height[existing[1]])
      BY <2>3 DEF ReceiveReorg, Mismatch
    <3>2. expecting' \in Nat \ {0}
      BY <1>3, <3>1, DescendsHead
    <3>3. fetcher = "failed" \/ (fetcher = "await" /\ reorgQ = <<>>)
      BY <1>1, <3>1, LinkFacts, LowestIsLast
    <3>4. CASE fetcher = "failed"
      BY <1>2, <3>4 DEF Settled
    <3>5. CASE fetcher = "await" /\ reorgQ = <<>>
      <4>1. reorgQ' = <<expecting'>>
        BY <3>1, <3>5
      <4>2. reorgQ' # <<NoReorg>>
        BY <3>2, <4>1 DEF NoReorg
      <4> QED BY <1>2, <3>5, <4>2 DEF Settled
    <3> QED BY <3>3, <3>4, <3>5
  <2> QED BY <2>1, <2>2, <2>3
<1>6. BatchLinks'
  BY <1>2, <1>4, <1>5, TaskStep DEF BatchLinks
<1> QED BY <1>2, <1>6, TaskStep

LEMMA CloseBlocksLinks ==
  ASSUME LinkInv, CloseBlocks
  PROVE  WalletLinked' /\ BatchLinks' /\ TipInv'
<1>1. /\ sync = "running" /\ blocks' = blocks \o blks /\ blks' = <<>>
      /\ UNCHANGED <<chain, wallet, syncVars, expecting, existing, fetcher, cache, reorgQ, ch>>
  BY DEF CloseBlocks, fetchVars
<1>2. OnServer(blocks') /\ OnServer(blks')
  <2>1. blocks \in Seq(Block) /\ blks \in Seq(Block) /\ OnServer(blocks) /\ OnServer(blks)
    BY <1>1, LinkFacts, BatchFacts DEF BatchLinks
  <2> QED BY <1>1, <2>1, OnServerConcat, OnServerNothing
<1>3. (OnServer(blocks) /\ OnServer(blks) /\ OnServer(ch) /\ OnServer(cache) /\ Linked(existing))'
  BY <1>1, <1>2, LinkFacts DEF BatchLinks, OnServer, OnChain, Linked
<1>4. (expecting - Len(existing) = Bottom(wallet))' /\ (Settled => Joins)'
  BY <1>1, LinkFacts, TaskStep DEF BatchLinks, Settled, Joins
<1>5. BatchLinks'
  BY <1>1, <1>3, <1>4, TaskStep DEF BatchLinks
<1> QED BY <1>1, <1>5, TaskStep

(* Trial decryption has nothing to do with it. *)
LEMMA OtherLinks ==
  ASSUME LinkInv, UNCHANGED <<chain, wallet, syncVars, blockVars, fetchVars, ch>>
  PROVE  WalletLinked' /\ BatchLinks' /\ TipInv'
<1> USE DEF syncVars, blockVars, fetchVars
<1>1. WalletLinked' /\ TipInv'
  BY LinkFacts DEF WalletLinked, Linked, TipInv, Goal, Top, OnServer, OnChain
<1>2. (OnServer(blocks) /\ OnServer(blks) /\ OnServer(ch) /\ OnServer(cache) /\ Linked(existing))'
        = (OnServer(blocks) /\ OnServer(blks) /\ OnServer(ch) /\ OnServer(cache) /\ Linked(existing))
  BY DEF OnServer, OnChain, Linked
<1>3. BatchLinks'
  BY <1>2, LinkFacts DEF BatchLinks, Bottom, Top, Settled, Joins
<1> QED BY <1>1, <1>3

-----------------------------------------------------------------------------
(* All the steps together *)

LEMMA LinkStep ==
  ASSUME LinkInv, [Next]_vars, ~RescanDuringSync, ~ServerMovesDuringSync
  PROVE  LinkInv'
<1>1. SyncInv'
  BY SyncInvStep, LinkFacts
<1> SUFFICES WalletLinked' /\ BatchLinks' /\ TipInv'
  BY <1>1 DEF LinkInv
<1>2. TypeOK'
  BY <1>1 DEF SyncInv
<1>3. CASE ServerSwitch
  <2>1. sync' = "idle" /\ wallet' = wallet
    BY <1>3 DEF ServerSwitch, syncVars
  <2> QED BY <2>1, LinkFacts, NoSync DEF WalletLinked
<1>4. CASE ClearAll
  <2>1. sync' = "idle" /\ wallet' = <<>>
    BY <1>4 DEF ClearAll, syncVars
  <2> QED BY <2>1, NoSync DEF WalletLinked, Linked
<1>5. CASE SetInitialBlock
  <2>1. sync' = "idle"
    BY <1>5, LinkFacts DEF SetInitialBlock, PlanInv, syncVars
  <2>2. wallet' = <<>> \/ wallet' = wallet \/ wallet' = <<chain[Birthday]>>
    BY <1>5 DEF SetInitialBlock, InitialBlocks
  <2>3. WalletLinked'
    <3>1. CASE wallet' = wallet
      BY <3>1, LinkFacts DEF WalletLinked
    <3>2. CASE wallet' = <<>>
      BY <3>2 DEF WalletLinked, Linked
    <3>3. CASE wallet' = <<chain[Birthday]>>
      BY <3>3 DEF WalletLinked, Linked
    <3> QED BY <2>2, <3>1, <3>2, <3>3
  <2> QED BY <2>1, <2>3, NoSync
<1>6. CASE StartSync
  BY <1>6, StartSyncLinks
<1>7. CASE SkipBatch
  BY <1>7, SkipBatchLinks
<1>8. CASE BeginBatch
  BY <1>8, BeginBatchLinks
<1>9. CASE SetupBatch
  BY <1>9, SetupBatchLinks
<1>10. CASE SetupPanics \/ EndSync \/ Abort
  <2>1. sync' = "idle" /\ wallet' = wallet
    BY <1>10 DEF SetupPanics, EndSync, Abort
  <2> QED BY <2>1, LinkFacts, NoSync DEF WalletLinked
<1>11. CASE Commit
  BY <1>11, CommitLinks
<1>12. CASE FetchRange
  BY <1>12, FetchRangeLinks
<1>13. CASE FetchReorged
  BY <1>13, FetchReorgedLinks
<1>14. CASE FetchDone \/ FetchFails \/ SendBlock
  BY <1>14, FetcherLinks
<1>15. CASE Receive
  BY <1>2, <1>15, ReceiveLinks
<1>16. CASE CloseBlocks
  BY <1>16, CloseBlocksLinks
<1>17. CASE TrialGroup \/ TrialRest \/ Detect
  BY <1>17, OtherLinks DEF TrialGroup, TrialRest, Detect
<1>18. CASE UNCHANGED vars
  BY <1>18, OtherLinks DEF vars
<1> QED
  BY <1>3, <1>4, <1>5, <1>6, <1>7, <1>8, <1>9, <1>10, <1>11, <1>12, <1>13, <1>14, <1>15,
     <1>16, <1>17, <1>18 DEF Next, Driver, Tasks, Fetcher

LEMMA LinkInvCorrect ==
  ASSUME ~RescanDuringSync, ~ServerMovesDuringSync
  PROVE  Spec => []LinkInv
<1>1. Init => LinkInv
  BY SyncInvInit, LinkInit DEF LinkInv
<1>2. LinkInv /\ [Next]_vars => LinkInv'
  BY LinkStep
<1> QED BY <1>1, <1>2, PTL DEF Spec

(* The wallet's blocks are a piece of one chain, so that a later reorg finds *)
(* in them what it has to be compared with (invalidate_block and             *)
(* finish_get_blocks of block_witness_data.rs).                              *)
THEOREM WalletStaysLinked ==
  ASSUME ~RescanDuringSync, ~ServerMovesDuringSync
  PROVE  Spec => []WalletLinked
<1>1. LinkInv => WalletLinked
  BY DEF LinkInv
<1> QED BY <1>1, LinkInvCorrect, PTL

(* A sync that ends without an error has brought the wallet to the server's  *)
(* tip, and every block of the wallet is on the server's chain (start_sync). *)
THEOREM SyncAlwaysReachesTip ==
  ASSUME ~RescanDuringSync, ~ServerMovesDuringSync
  PROVE  Spec => SyncReachesTip
<1>1. ASSUME LinkInv, EndSync
      PROVE  Top(wallet) = Len(chain) /\ \A i \in 1..Len(wallet) : OnChain(wallet[i])
  <2>1. sync = "batches" /\ todo = <<>>
    BY <1>1 DEF EndSync
  <2>2. Top(wallet) = Len(chain) /\ OnServer(wallet)
    BY <1>1, <2>1, LinkFacts DEF TipInv, Goal
  <2> QED BY <2>2 DEF OnServer
<1>2. LinkInv /\ [Next]_vars =>
        [EndSync => /\ Top(wallet) = Len(chain)
                    /\ \A i \in 1..Len(wallet) : OnChain(wallet[i])]_vars
  BY <1>1
<1> QED BY <1>2, LinkInvCorrect, PTL DEF Spec, SyncReachesTip

-----------------------------------------------------------------------------
(* The refinement of ChainView *)

(* The initial states are those of the view. *)
LEMMA ViewInit == Init => View!Init
BY DEF Init, InitialBlocks, View!Init

(* A batch is one step of the view. *)
LEMMA CommitAdopts ==
  ASSUME LinkInv, Commit
  PROVE  View!Adopt
<1> DEFINE oldest == start - MaxReorg + 1
           lo     == IF oldest > View!BottomOf(wallet) THEN oldest ELSE View!BottomOf(wallet)
<1>1. /\ wallet' \in Seq(Block) /\ Len(wallet') >= 1
      /\ Len(wallet') = Smaller(MaxReorg, start - Bottom(wallet) + 1)
      /\ start \in Nat /\ start <= Len(chain) /\ start > Top(wallet)
      /\ Bottom(wallet) \in Nat \ {0} /\ Bottom(wallet) <= start
      /\ \A i \in 1..Len(wallet') : wallet'[i] = chain[start - i + 1]
  BY CommitFollows
<1>2. View!BottomOf(wallet) = Bottom(wallet) /\ View!TopOf(wallet) = Top(wallet)
  BY DEF View!BottomOf, View!TopOf, Bottom, Top
<1>3. Len(wallet') = start - lo + 1
  BY <1>1, <1>2, SizeAssumption DEF Smaller
<1>4. start \in View!TopOf(wallet) + 1 .. Len(chain)
  BY <1>1, <1>2, LinkFacts
<1> HIDE DEF lo
<1>5. wallet' = View!Segment(start, lo)
  <2>1. View!Segment(start, lo) = [i \in 1..Len(wallet') |-> chain[start - i + 1]]
    BY <1>3 DEF View!Segment
  <2>2. wallet' = [i \in 1..Len(wallet') |-> wallet'[i]]
    BY <1>1
  <2> QED BY <1>1, <2>1, <2>2
<1> QED BY <1>4, <1>5 DEF View!Adopt, Commit, lo

LEMMA ViewStep ==
  ASSUME LinkInv, [Next]_vars, ~RescanDuringSync
  PROVE  [View!Next]_<<chain, wallet>>
<1> SUFFICES ASSUME ~UNCHANGED <<chain, wallet>> PROVE View!Next
  OBVIOUS
<1>1. CASE ServerSwitch
  BY <1>1 DEF ServerSwitch, View!Next, View!Switch
<1>2. CASE ClearAll
  BY <1>2 DEF ClearAll, View!Next, View!Clear
<1>3. CASE SetInitialBlock
  BY <1>3 DEF SetInitialBlock, InitialBlocks, View!Next, View!Restart
<1>4. CASE StartSync
  BY <1>4 DEF StartSync, TipReplaced, View!Next, View!Pop, View!TopOf, Top
<1>5. CASE Commit
  BY <1>5, CommitAdopts DEF View!Next
<1>6. CASE SkipBatch \/ BeginBatch \/ SetupBatch \/ SetupPanics \/ EndSync \/ Abort
  BY <1>6 DEF SkipBatch, BeginBatch, SetupBatch, SetupPanics, EndSync, Abort
<1>7. CASE Fetcher
  BY <1>7 DEF Fetcher, FetchRange, FetchReorged, FetchDone, FetchFails, SendBlock
<1>8. CASE Receive
  BY <1>8 DEF Receive, ReceiveMiddle, ReceiveLast, ReceiveReorg, Collect
<1>9. CASE CloseBlocks \/ TrialGroup \/ TrialRest \/ Detect
  BY <1>9 DEF CloseBlocks, TrialGroup, TrialRest, Detect
<1>10. CASE UNCHANGED vars
  BY <1>10 DEF vars
<1> QED
  BY <1>1, <1>2, <1>3, <1>4, <1>5, <1>6, <1>7, <1>8, <1>9, <1>10 DEF Next, Driver, Tasks

(* Seen from outside, a sync replaces the wallet's blocks in one step by the *)
(* same stretch of the server's chain, extended to a new top: the download   *)
(* from the top down, the reorg handshake and the failures in between do not *)
(* show (start_sync, start_sync_batch, finish_get_blocks).                   *)
THEOREM SyncFollowsChain ==
  ASSUME ~RescanDuringSync, ~ServerMovesDuringSync
  PROVE  Spec => FollowsChain
<1>1. LinkInv /\ [Next]_vars => [View!Next]_<<chain, wallet>>
  BY ViewStep
<1> QED BY <1>1, ViewInit, LinkInvCorrect, PTL DEF Spec, FollowsChain, View!Spec
=============================================================================
