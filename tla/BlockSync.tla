------------------------------ MODULE BlockSync ------------------------------
(***************************************************************************)
(* How the light client follows the server's block chain: one sync         *)
(* (lightclient.rs, start_sync) is a list of batches, and one batch        *)
(* (start_sync_batch) is a set of tokio tasks joined by channels:          *)
(*   - the block fetcher (blaze/fetch_compact_blocks.rs) downloads the     *)
(*     missing heights from the top down, then waits for reorg signals;    *)
(*   - the block task (blaze/block_witness_data.rs, handle h0) collects    *)
(*     them, compares the lowest one with the wallet's newest block, and   *)
(*     invalidates wallet blocks one at a time until the hashes link up;   *)
(*   - trial-decryption workers (blaze/trial_decryptions.rs) add the       *)
(*     wallet's transactions as they find them;                            *)
(*   - the driver commits the collected blocks to the wallet, or gives up. *)
(* The server may change its best chain, the network may fail, and the     *)
(* user may ask for a rescan, which does not take the sync lock.           *)
(*                                                                         *)
(* Lists of blocks are newest first, as in the code.  The hash of a block  *)
(* is the block itself; Prev is its prev_hash field.                       *)
(***************************************************************************)
EXTENDS Integers, Sequences

CONSTANTS
  Block,                  \* block hashes
  Height,                 \* Height[b]: CompactBlock.height
  Prev,                   \* Prev[b]: CompactBlock.prev_hash
  Chains,                 \* best chains the server may have: chain[h] has height h
  Txid,                   \* transactions with an output for this wallet
  TxIn,                   \* TxIn[b]: those mined in block b
  Orchard,                \* the ones whose output is an Orchard note
  Birthday,               \* height of the block a new or cleared wallet starts from
  Batch,                  \* heights per batch (50_000 or 1_000)
  Step,                   \* heights per get_block_range call (STEP)
  Flush,                  \* BlockAndWitnessData.batch_size
  ChanCap,                \* capacity of the block channel (64)
  Trial,                  \* blocks per trial-decryption worker (50)
  MaxReorg,               \* MAX_REORG
  ServerMovesDuringSync,  \* may the server switch chains while a sync runs?
  NetworkFaults,          \* may a request to the server fail?
  RescanDuringSync        \* may the user clear the wallet while a sync runs?

NoReorg == 0      \* the None of the reorg channel; heights start at 1
Absent  == 0      \* the txns entry of a transaction the wallet does not have

(* Chains are linked sequences of blocks, long enough to hold the birthday. *)
ASSUME ChainAssumption ==
  /\ Height \in [Block -> Nat \ {0}]
  /\ Chains \subseteq Seq(Block)
  /\ \A c \in Chains : /\ Len(c) >= Birthday
                       /\ \A h \in 1..Len(c) : Height[c[h]] = h
                       /\ \A h \in 2..Len(c) : Prev[c[h]] = c[h-1]
  /\ TxIn \in [Block -> SUBSET Txid]

ASSUME SizeAssumption ==
  /\ Birthday \in Nat \ {0} /\ Batch \in Nat \ {0} /\ Step \in Nat \ {0}
  /\ Flush \in Nat \ {0} /\ ChanCap \in Nat \ {0} /\ Trial \in Nat \ {0}
  /\ MaxReorg \in Nat \ {0}

ASSUME EnvironmentAssumption ==
  {ServerMovesDuringSync, NetworkFaults, RescanDuringSync} \subseteq BOOLEAN

VARIABLES
  chain,      \* the server's best chain
  wallet,     \* wallet.blocks
  txns,       \* wallet.txns: the height (wtx.block) each known transaction has
  rescan,     \* where do_rescan is, if the user asked for one
  sync,       \* where start_sync is
  todo,       \* latest_block_batches still to run
  start,      \* start_block of the batch
  expecting,  \* last_block_expecting of the block task
  existing,   \* existing_blocks of the batch
  blocks,     \* blocks of the batch visible to every task
  blks,       \* blocks the block task holds back until its next flush
  blockTask,  \* is the block task running?
  fetcher,    \* where the block fetcher is
  next,       \* highest height the fetcher has not asked for
  cache,      \* blocks downloaded by get_block_range and not sent yet
  ch,         \* channel fetcher -> block task
  reorgQ,     \* channel block task -> fetcher
  tch,        \* blocks sent to trial decryption and not given to a worker
  jobs,       \* outputs the workers of this batch still have to record
  stale       \* ... and those of workers left behind by failed batches

syncVars  == <<sync, todo, start>>
blockVars == <<expecting, existing, blocks, blks, blockTask>>
fetchVars == <<fetcher, next, cache, reorgQ>>
trialVars == <<tch, jobs, stale>>
vars == <<chain, wallet, txns, rescan, syncVars, blockVars, fetchVars, ch, trialVars>>

Smaller(x, y) == IF x < y THEN x ELSE y
Larger(x, y)  == IF x > y THEN x ELSE y

(* last_scanned_height; the activation height of the model is 1 *)
Top(list) == IF list = <<>> THEN 0 ELSE Height[list[1]]

(* The outputs trial decryption finds in a list of blocks *)
Outputs(list) == UNION { {list[i]} \X TxIn[list[i]] : i \in 1..Len(list) }

(* A slip of remove_txns_at_height: one height too few. *)
RemoveAboveOnly(known, h) ==
  [t \in Txid |-> IF known[t] > h THEN Absent ELSE known[t]]

(* WalletTxns::remove_txns_at_height *)
RemoveTxnsAtHeight(known, h) ==
  [t \in Txid |-> IF known[t] >= h THEN Absent ELSE known[t]]

(* set_wallet_initial_state: the birthday block, or none if it is unavailable *)
InitialBlocks == {<<>>, <<chain[Birthday]>>}

(* What get_block_range returns for the heights hi down to lo *)
BlockRange(hi, lo) == [i \in 1..(hi - lo + 1) |-> chain[hi - i + 1]]

(* The top height of every batch of one sync: latest_block_batches *)
Batches(last, latest) ==
  [i \in 1..Larger(1, (latest - last + Batch - 1) \div Batch) |->
     Smaller(latest, last + i * Batch)]

Init ==
  /\ chain \in Chains
  /\ wallet \in InitialBlocks
  /\ txns = [t \in Txid |-> Absent]
  /\ rescan = "none"
  /\ sync = "idle" /\ todo = <<>> /\ start = 0
  /\ expecting = 0 /\ existing = <<>> /\ blocks = <<>> /\ blks = <<>>
  /\ blockTask = "done" /\ fetcher = "done" /\ next = 0
  /\ cache = <<>> /\ ch = <<>> /\ reorgQ = <<>>
  /\ tch = <<>> /\ jobs = {} /\ stale = {}

-----------------------------------------------------------------------------
(* The environment *)

(* The server's best chain changes: it grows, or reorganises. *)
ServerSwitch ==
  /\ sync = "idle" \/ ServerMovesDuringSync
  /\ \E c \in Chains \ {chain} : chain' = c
  /\ UNCHANGED <<wallet, txns, rescan, syncVars, blockVars, fetchVars, ch, trialVars>>

(* do_rescan, and the first half of its clear_state: clear_all.  Nothing in  *)
(* clear_state takes the sync lock.                                          *)
ClearAll ==
  /\ sync = "idle" \/ RescanDuringSync
  /\ rescan = "none"
  /\ wallet' = <<>>
  /\ txns' = [t \in Txid |-> Absent]
  /\ rescan' = "cleared"
  /\ UNCHANGED <<chain, syncVars, blockVars, fetchVars, ch, trialVars>>

(* clear_state, second half: set_initial_block leaves a non-empty list alone. *)
SetInitialBlock ==
  /\ rescan = "cleared"
  /\ IF wallet = <<>> THEN wallet' \in InitialBlocks ELSE UNCHANGED wallet
  /\ rescan' = "reset"
  /\ UNCHANGED <<chain, txns, syncVars, blockVars, fetchVars, ch, trialVars>>

-----------------------------------------------------------------------------
(* start_sync: the part that runs between batches *)

(* The server has another block at the height of the wallet's newest one. *)
NeverReplaced == FALSE      \* a slip: the check is forgotten
TipReplaced ==
  /\ wallet # <<>>
  /\ Len(chain) = Top(wallet)
  /\ chain[Len(chain)] # wallet[1]

(* Ask for the tip, pop the newest wallet block if the tip replaces it, and  *)
(* plan the batches.  A server that is behind the wallet is an error and     *)
(* changes nothing.  The sync may be the one do_rescan asks for at its end,  *)
(* or any other.                                                             *)
StartSync ==
  /\ sync = "idle"
  /\ rescan = "cleared" => RescanDuringSync
  /\ Len(chain) >= Top(wallet)
  /\ LET list == IF TipReplaced THEN Tail(wallet) ELSE wallet
     IN /\ wallet' = list
        /\ txns' = IF TipReplaced THEN RemoveTxnsAtHeight(txns, Top(wallet)) ELSE txns
        /\ todo' = Batches(Top(list), Len(chain))
  /\ sync' = "batches"
  /\ rescan' \in IF rescan = "reset" THEN {"reset", "syncing"} ELSE {rescan}
  /\ UNCHANGED <<chain, start, blockVars, fetchVars, ch, trialVars>>

(* start_sync_batch: nothing to do. *)
SkipBatch ==
  /\ sync = "batches" /\ todo # <<>> /\ Head(todo) = Top(wallet)
  /\ todo' = Tail(todo)
  /\ UNCHANGED <<chain, wallet, txns, rescan, sync, start, blockVars, fetchVars, ch, trialVars>>

(* start_sync_batch up to setup_for_sync: the range is fixed from the       *)
(* wallet's height; the list of existing blocks is only read in SetupBatch. *)
BeginBatch ==
  /\ sync = "batches" /\ todo # <<>> /\ Head(todo) # Top(wallet)
  /\ sync' = "setup"
  /\ start' = Head(todo)
  /\ todo' = Tail(todo)
  /\ expecting' = Top(wallet) + 1
  /\ UNCHANGED <<chain, wallet, txns, rescan, existing, blocks, blks, blockTask,
                 fetchVars, ch, trialVars>>

(* setup_for_sync, and spawning the tasks *)
SetupBatch ==
  /\ sync = "setup" /\ start >= expecting
  /\ sync' = "running"
  /\ existing' = wallet
  /\ blocks' = <<>> /\ blks' = <<>> /\ blockTask' = "running"
  /\ fetcher' = "range" /\ next' = start /\ cache' = <<>>
  /\ ch' = <<>> /\ reorgQ' = <<>> /\ tch' = <<>>
  /\ UNCHANGED <<chain, wallet, txns, rescan, todo, start, expecting, jobs, stale>>

(* A rescan ends with its own sync. *)
AfterSync == IF rescan = "syncing" THEN "none" ELSE rescan

(* setup_for_sync panics ("Blocks should be backwards"), which drops the     *)
(* locks of the sync with its thread's stack.                                *)
SetupPanics ==
  /\ sync = "setup" /\ start < expecting
  /\ sync' = "idle" /\ todo' = <<>> /\ rescan' = AfterSync
  /\ UNCHANGED <<chain, wallet, txns, start, blockVars, fetchVars, ch, trialVars>>

EndSync ==
  /\ sync = "batches" /\ todo = <<>>
  /\ sync' = "idle" /\ rescan' = AfterSync
  /\ UNCHANGED <<chain, wallet, txns, todo, start, blockVars, fetchVars, ch, trialVars>>

-----------------------------------------------------------------------------
(* FetchCompactBlocks *)

Working == sync = "running" /\ cache = <<>>

(* A slip: the next range starts one height too low. *)
FetchRangeSkipping ==
  /\ Working /\ fetcher = "range" /\ Len(chain) >= next
  /\ LET lo == Larger(next - Step + 1, expecting) IN
       /\ cache' = BlockRange(next, lo)
       /\ next' = lo - 2
       /\ fetcher' = IF lo = expecting THEN "await" ELSE "range"
  /\ UNCHANGED <<chain, wallet, txns, rescan, syncVars, blockVars, ch, reorgQ, trialVars>>

(* fetch_blocks_range: the next STEP heights, down to the end of the batch. *)
FetchRange ==
  /\ Working /\ fetcher = "range" /\ Len(chain) >= next
  /\ LET lo == Larger(next - Step + 1, expecting) IN
       /\ cache' = BlockRange(next, lo)
       /\ next' = lo - 1
       /\ fetcher' = IF lo = expecting THEN "await" ELSE "range"
  /\ UNCHANGED <<chain, wallet, txns, rescan, syncVars, blockVars, ch, reorgQ, trialVars>>

(* A reorg signal: download the block that replaces the invalidated one. *)
FetchReorged ==
  /\ Working /\ fetcher = "await" /\ reorgQ # <<>>
  /\ Head(reorgQ) \in 1..Len(chain)
  /\ cache' = BlockRange(Head(reorgQ), Head(reorgQ))
  /\ reorgQ' = Tail(reorgQ)
  /\ UNCHANGED <<chain, wallet, txns, rescan, syncVars, blockVars, fetcher, next, ch, trialVars>>

(* No more reorgs: the fetcher ends and drops both senders. *)
FetchDone ==
  /\ Working /\ fetcher = "await" /\ reorgQ # <<>>
  /\ Head(reorgQ) = NoReorg
  /\ fetcher' = "done" /\ reorgQ' = Tail(reorgQ)
  /\ UNCHANGED <<chain, wallet, txns, rescan, syncVars, blockVars, next, cache, ch, trialVars>>

(* The request fails: the network does, or the server no longer has the height. *)
FetchFails ==
  /\ Working
  /\ \/ fetcher = "range" /\ (NetworkFaults \/ Len(chain) < next)
     \/ /\ fetcher = "await" /\ reorgQ # <<>> /\ Head(reorgQ) # NoReorg
        /\ NetworkFaults \/ Len(chain) < Head(reorgQ)
  /\ fetcher' = "failed"
  /\ UNCHANGED <<chain, wallet, txns, rescan, syncVars, blockVars, next, cache, reorgQ, ch, trialVars>>

(* get_block_range hands one downloaded block to both receivers. *)
SendBlock ==
  /\ sync = "running" /\ cache # <<>> /\ Len(ch) < ChanCap
  /\ ch' = Append(ch, Head(cache))
  /\ tch' = Append(tch, Head(cache))
  /\ cache' = Tail(cache)
  /\ UNCHANGED <<chain, wallet, txns, rescan, syncVars, blockVars, fetcher, next, reorgQ, jobs, stale>>

FetcherEnded == fetcher \in {"done", "failed"}

-----------------------------------------------------------------------------
(* The block task *)

(* Collect the next block; every Flush heights make the earlier ones visible. *)
Collect(cb) ==
  /\ sync = "running" /\ blockTask = "running"
  /\ ch # <<>> /\ cb = Head(ch)
  /\ ch' = Tail(ch)
  /\ IF Height[cb] % Flush = 0
       THEN blocks' = blocks \o blks /\ blks' = <<cb>>
       ELSE blks' = Append(blks, cb) /\ UNCHANGED blocks
  /\ UNCHANGED <<chain, wallet, rescan, syncVars, blockTask, fetcher, next, cache, trialVars>>

(* A slip: only the first block is compared, not the ones a reorg fetches. *)
MismatchOnce(cb) ==
  expecting = Top(wallet) + 1 /\ existing # <<>> /\ existing[1] # Prev[cb]

(* Does the lowest block of the batch not build on the wallet's newest one? *)
Mismatch(cb) == existing # <<>> /\ existing[1] # Prev[cb]

ReceiveMiddle(cb) ==
  /\ Collect(cb)
  /\ Height[cb] # expecting
  /\ UNCHANGED <<txns, expecting, existing, reorgQ>>

(* A slip: nobody tells the fetcher that there is no reorg. *)
ReceiveLastSilently(cb) ==
  /\ Collect(cb)
  /\ Height[cb] = expecting /\ ~Mismatch(cb)
  /\ UNCHANGED <<txns, expecting, existing, reorgQ>>

ReceiveLast(cb) ==
  /\ Collect(cb)
  /\ Height[cb] = expecting /\ ~Mismatch(cb)
  /\ reorgQ' = Append(reorgQ, NoReorg)
  /\ UNCHANGED <<txns, expecting, existing>>

(* A slip: the block task goes on expecting the height it had. *)
ReceiveReorgForgetful(cb) ==
  /\ Collect(cb)
  /\ Height[cb] = expecting /\ Mismatch(cb)
  /\ LET h == Height[existing[1]] IN
       /\ existing' = Tail(existing)
       /\ txns' = RemoveTxnsAtHeight(txns, h)
       /\ reorgQ' = Append(reorgQ, h)
  /\ UNCHANGED expecting

(* invalidate_block: drop the newest wallet block of the batch's copy, and   *)
(* the transactions at its height from the wallet itself.                    *)
ReceiveReorg(cb) ==
  /\ Collect(cb)
  /\ Height[cb] = expecting /\ Mismatch(cb)
  /\ LET h == Height[existing[1]] IN
       /\ existing' = Tail(existing)
       /\ txns' = RemoveTxnsAtHeight(txns, h)
       /\ expecting' = h
       /\ reorgQ' = Append(reorgQ, h)

Receive == \E cb \in Block : ReceiveMiddle(cb) \/ ReceiveLast(cb) \/ ReceiveReorg(cb)

(* The channel is closed: make the remaining blocks visible and finish. *)
CloseBlocks ==
  /\ sync = "running" /\ blockTask = "running"
  /\ ch = <<>> /\ cache = <<>> /\ FetcherEnded
  /\ blocks' = blocks \o blks /\ blks' = <<>>
  /\ blockTask' = "done"
  /\ UNCHANGED <<chain, wallet, txns, rescan, syncVars, expecting, existing, fetchVars, ch, trialVars>>

-----------------------------------------------------------------------------
(* TrialDecryptions *)

(* A full group of blocks goes to a worker, and the rest when the channel closes. *)
TrialGroup ==
  /\ sync = "running" /\ Len(tch) >= Trial
  /\ jobs' = jobs \cup Outputs(SubSeq(tch, 1, Trial))
  /\ tch' = SubSeq(tch, Trial + 1, Len(tch))
  /\ UNCHANGED <<chain, wallet, txns, rescan, syncVars, blockVars, fetchVars, ch, stale>>

(* A slip: the blocks handed to the last worker are not taken off the list. *)
TrialRestRepeating ==
  /\ sync = "running" /\ cache = <<>> /\ FetcherEnded
  /\ tch # <<>> /\ Len(tch) < Trial
  /\ jobs' = jobs \cup Outputs(tch)
  /\ UNCHANGED <<chain, wallet, txns, rescan, syncVars, blockVars, fetchVars, ch, tch, stale>>

(* Another: they never get to a worker. *)
TrialRestForgetting ==
  /\ sync = "running" /\ cache = <<>> /\ FetcherEnded
  /\ tch # <<>> /\ Len(tch) < Trial
  /\ tch' = <<>>
  /\ UNCHANGED <<chain, wallet, txns, rescan, syncVars, blockVars, fetchVars, ch, jobs, stale>>

TrialRest ==
  /\ sync = "running" /\ cache = <<>> /\ FetcherEnded
  /\ tch # <<>> /\ Len(tch) < Trial
  /\ jobs' = jobs \cup Outputs(tch)
  /\ tch' = <<>>
  /\ UNCHANGED <<chain, wallet, txns, rescan, syncVars, blockVars, fetchVars, ch, stale>>

(* wait_for_block *)
Visible(h) == blocks # <<>> /\ Height[blocks[Len(blocks)]] <= h

(* A worker records one output it decrypted: a Sapling note needs a witness, *)
(* for which it waits until the block task has made the block visible.       *)
Detect ==
  \E j \in jobs \cup stale :
    /\ j[2] \in Orchard \/ Visible(Height[j[1]])
    /\ txns' = [txns EXCEPT ![j[2]] = Height[j[1]]]
    /\ \/ j \in jobs  /\ jobs'  = jobs \ {j}  /\ UNCHANGED stale
       \/ j \in stale /\ stale' = stale \ {j} /\ UNCHANGED jobs
    /\ UNCHANGED <<chain, wallet, rescan, syncVars, blockVars, fetchVars, ch, tch>>

-----------------------------------------------------------------------------
(* start_sync_batch after the tasks were spawned *)

(* finish_get_blocks: the new blocks, then the old ones they build on. *)
FinishNewOnly  == SubSeq(blocks, 1, Smaller(MaxReorg, Len(blocks)))     \* a slip
FinishGetBlocks ==
  LET list == blocks \o existing IN SubSeq(list, 1, Smaller(MaxReorg, Len(list)))

(* Every task ended well: set_blocks. *)
Commit ==
  /\ sync = "running" /\ blockTask = "done" /\ fetcher = "done"
  /\ tch = <<>> /\ jobs = {}
  /\ blocks' = FinishGetBlocks
  /\ wallet' = blocks'
  /\ existing' = <<>>
  /\ sync' = "batches"
  /\ UNCHANGED <<chain, txns, rescan, todo, start, expecting, blks, blockTask, fetchVars, ch, trialVars>>

(* Some task failed: return without set_blocks.  The driver awaits the block *)
(* task first; the workers it does not wait for carry on.                    *)
Abort ==
  /\ sync = "running" /\ blockTask = "done"
  /\ fetcher = "failed" \/ NetworkFaults
  /\ sync' = "idle" /\ todo' = <<>> /\ rescan' = AfterSync
  /\ stale' = stale \cup jobs \cup Outputs(tch)
  /\ jobs' = {} /\ tch' = <<>>
  /\ UNCHANGED <<chain, wallet, txns, start, blockVars, fetchVars, ch>>

-----------------------------------------------------------------------------
Driver  == StartSync \/ SkipBatch \/ BeginBatch \/ SetupBatch \/ SetupPanics \/ EndSync \/ Commit \/ Abort
Fetcher == FetchRange \/ FetchReorged \/ FetchDone \/ FetchFails \/ SendBlock
Tasks   == Fetcher \/ Receive \/ CloseBlocks \/ TrialGroup \/ TrialRest \/ Detect

Next == ServerSwitch \/ ClearAll \/ SetInitialBlock \/ Driver \/ Tasks

(* Every tokio task that can run is eventually polled, and a batch whose    *)
(* tasks have all ended is eventually finished.  The user and the server    *)
(* owe nothing, and nobody is obliged to start a sync.                      *)
Fairness ==
  /\ WF_vars(Fetcher) /\ WF_vars(Receive) /\ WF_vars(CloseBlocks)
  /\ WF_vars(TrialGroup) /\ WF_vars(TrialRest) /\ WF_vars(Detect)
  /\ WF_vars(SkipBatch \/ BeginBatch \/ SetupBatch \/ SetupPanics \/ EndSync \/ Commit \/ Abort)

Spec == Init /\ [][Next]_vars /\ Fairness
-----------------------------------------------------------------------------
(* Properties *)

TypeOK ==
  /\ chain \in Chains /\ wallet \in Seq(Block)
  /\ txns \in [Txid -> Nat]
  /\ rescan \in {"none", "cleared", "reset", "syncing"}
  /\ sync \in {"idle", "batches", "setup", "running"}
  /\ todo \in Seq(Nat) /\ start \in Nat /\ expecting \in Nat
  /\ existing \in Seq(Block) /\ blocks \in Seq(Block) /\ blks \in Seq(Block)
  /\ blockTask \in {"running", "done"}
  /\ fetcher \in {"range", "await", "done", "failed"}
  /\ next \in Nat /\ cache \in Seq(Block) /\ ch \in Seq(Block)
  /\ reorgQ \in Seq(Nat) /\ tch \in Seq(Block)
  /\ jobs \in SUBSET (Block \X Txid) /\ stale \in SUBSET (Block \X Txid)

(* A list of blocks descends from height h without a gap. *)
Descends(list, h) == \A i \in 1..Len(list) : Height[list[i]] = h - i + 1

(* The wallet's blocks have consecutive heights: is_nf_spent,                *)
(* get_ctx_for_nf_at_height and get_block_timestamp index them by            *)
(* first().height - height.                                                  *)
WalletContiguous == Descends(wallet, Top(wallet))

(* Likewise for the blocks a batch shows to its tasks, while later blocks    *)
(* and replacements of reorganised ones are still coming in.                 *)
VisibleContiguous == sync = "running" => Descends(blocks, start)

(* setup_for_sync's assertion, "Blocks should be backwards", does not fail, *)
(* and neither does the fetcher's "Wrong block order".                      *)
BatchesGoUp ==
  /\ sync = "setup" => start >= expecting
  /\ sync = "running" /\ fetcher = "range" => next >= expecting

(* invalidate_block never pops the wrong height, and the fetcher and the     *)
(* block task agree which block is outstanding: while the fetcher waits for  *)
(* a signal, one is on its way or the block that triggers it is.             *)
HandshakeAgrees ==
  sync = "running" /\ fetcher = "await" =>
    \/ reorgQ = <<NoReorg>> /\ ch = <<>> /\ cache = <<>>
    \/ reorgQ = <<expecting>> /\ ch = <<>> /\ cache = <<>>
    \/ /\ reorgQ = <<>>
       /\ cache # <<>> => Height[cache[Len(cache)]] = expecting
       /\ cache = <<>> => ch # <<>> /\ Height[ch[Len(ch)]] = expecting

(* The invariant behind the four above.  Every block of a batch is in one of *)
(* four places, and together they descend from start without a gap ...       *)
InFlightDescends ==
  /\ Descends(blocks, start)
  /\ Descends(blks, start - Len(blocks))
  /\ Descends(ch, start - Len(blocks) - Len(blks))
  /\ Descends(cache, start - Len(blocks) - Len(blks) - Len(ch))

(* ... down to the height above Below: the next one to download.             *)
Below == start - Len(blocks) - Len(blks) - Len(ch) - Len(cache)

(* What the fetcher, the signals and the block task know of it.              *)
FetcherKnows ==
  /\ fetcher = "range" => next = Below /\ next >= expecting
  /\ fetcher = "await" =>
       \/ reorgQ = <<>> /\ Below = expecting - 1 /\ Len(ch) + Len(cache) > 0
       \/ reorgQ = <<NoReorg>> /\ Below = expecting - 1 /\ ch = <<>> /\ cache = <<>>
       \/ reorgQ = <<expecting>> /\ Below = expecting /\ ch = <<>> /\ cache = <<>>
  /\ fetcher = "range" => reorgQ = <<>>
  /\ fetcher = "done" => Below = expecting - 1 /\ ch = <<>>
  /\ FetcherEnded => cache = <<>>

BatchInv ==
  sync = "running" =>
    /\ expecting >= 1 /\ start >= expecting
    /\ InFlightDescends
    /\ Descends(existing, expecting - 1)
    /\ FetcherKnows
    /\ blockTask = "done" => FetcherEnded /\ blks = <<>> /\ ch = <<>>

(* The batches still to run are in ascending order and above the wallet.     *)
PlanInv ==
  /\ \A i, j \in 1..Len(todo) : i <= j => todo[i] <= todo[j]
  /\ sync = "batches" => \A i \in 1..Len(todo) : todo[i] >= Top(wallet)
  /\ sync \in {"setup", "running"} => \A i \in 1..Len(todo) : todo[i] >= start
  /\ sync = "setup" => expecting = Top(wallet) + 1 /\ start >= expecting
  /\ sync # "idle" => rescan # "cleared"

SyncInv == TypeOK /\ WalletContiguous /\ PlanInv /\ BatchInv

Linked(list) == \A i \in 1..Len(list) - 1 : Prev[list[i]] = list[i+1]

(* The wallet's blocks are a piece of one chain: the blocks kept for future  *)
(* reorgs really are what a reorg has to be compared with.                   *)
WalletLinked == Linked(wallet)

(* Invalidating a block removes the wallet's transactions associated with it *)
(* and no others (the comments on invalidate_block and on its call).  The code *)
(* does not live up to it: a worker may have recorded some of the new blocks *)
(* above, and those are removed as well.                                     *)
InvalidateRemovesItsOwn ==
  [][Receive => \A t \in Txid :
       txns'[t] # txns[t] => \E b \in Block : /\ Height[b] = txns[t]
                                              /\ t \in TxIn[b]
                                              /\ existing # <<>> /\ b = existing[1]]_vars

Scanned(b) == Height[b] > Birthday

Recorded(b) == \A t \in TxIn[b] : txns[t] = Height[b]

(* A sync that ends without an error leaves the wallet with every            *)
(* transaction of the blocks it has scanned, at the height of its block.     *)
SyncMissesNothing ==
  [][EndSync => \A i \in 1..Len(wallet) : Scanned(wallet[i]) => Recorded(wallet[i])]_vars

(* ... and with no other: a transaction recorded at a height the wallet has  *)
(* a block for is in that block, so nothing of an orphaned block is left.    *)
SyncKeepsNoOrphans ==
  [][EndSync => \A t \in Txid : txns[t] # Absent =>
       /\ txns[t] <= Top(wallet)
       /\ \A i \in 1..Len(wallet) : Height[wallet[i]] = txns[t] => t \in TxIn[wallet[i]]]_vars

OnChain(b) == Height[b] <= Len(chain) /\ chain[Height[b]] = b

(* A sync that ends without an error leaves the wallet at the server's tip   *)
(* with every block on the server's chain.                                   *)
SyncReachesTip ==
  [][EndSync => /\ Top(wallet) = Len(chain)
                /\ \A i \in 1..Len(wallet) : OnChain(wallet[i])]_vars

(* Seen from outside, a sync replaces the wallet's blocks in one step by the *)
(* same stretch of the server's chain: the blocks dropped are orphaned, or   *)
(* older than MAX_REORG, and those added are the server's.                   *)
View == INSTANCE ChainView WITH view <- wallet
FollowsChain == View!Spec

(* However often the server changes its mind, the reorg loop of the block    *)
(* task and the fetcher comes to an end.                                     *)
ReorgLoopEnds == sync = "running" ~> blockTask = "done"

(* With a quiet network a sync that was started ends. *)
SyncEnds == sync # "idle" ~> sync = "idle"
=============================================================================
