# Formal models of BitcoinZ Blue

BitcoinZ Blue is a desktop wallet: a Rust light client (`lib/`) that follows a
lightwalletd server and keeps notes, UTXOs, witnesses and keys, a thin native
bridge (`native/`), and an Electron/React user interface (`src/`, `public/`).
This directory holds TLA+ models of the parts where order, concurrency and
failure matter, TLC configurations that check them on small instances, and
TLAPS proofs for instances of every size.  Paths below are relative to the
repository's root.

## 1. Inventory

| Part | State | Operations | Interacts through |
|---|---|---|---|
| Block sync: `lib/src/lightclient.rs` (`start_sync`, `start_sync_batch`), `blaze/fetch_compact_blocks.rs`, block half of `blaze/block_witness_data.rs`, `blaze/syncdata.rs` | `wallet.blocks` (newest first, at most `MAX_REORG`), the batch list, `existing_blocks`, `blocks`, `blks`, `last_block_expecting` | ask for the tip, plan batches, fetch a range, collect, detect a reorg, invalidate a block, commit, fail | block channel (64), reorg channel, `bsync_data`, `wallet.txns` |
| Trial decryption: `blaze/trial_decryptions.rs` | blocks waiting for a worker, workers | group 50 blocks, decrypt, wait for the block to be visible, record a note | block channel, detected-txid channel, `wallet.txns` |
| Witnesses: `blaze/update_notes.rs`, witness half of `block_witness_data.rs`, `fixed_size_buffer.rs`, `WitnessCache` in `lightwallet/data.rs` | per-note witness cache, Orchard bridge tree | extend by a block, start at a new note, truncate on a reorg, checkpoint and rewind | blocks of the batch, detected-txid channel |
| Wallet transactions: `lightwallet/wallet_txns.rs`, `data.rs` | transactions, Sapling and Orchard notes, UTXOs, spent / unconfirmed-spent marks | add output, add spend, remove at a height, expire, clear old witnesses | called by every task under `wallet.txns` |
| Full scan and mempool: `blaze/fetch_full_tx.rs`, `start_mempool_monitor` | two queues | scan a mined or a mempool transaction | `wallet.txns`, `sync_lock` |
| Transparent transactions: `blaze/fetch_taddr_txns.rs` | one stream per address | merge by height and index | full-scan channel |
| Sync locks and status: `lightclient.rs`, `syncdata.rs`, `sync_status.rs` | `sync_lock`, `bsync_data`, `wallet`, counters | sync, save, send, status | the locks |
| Keys: `lightwallet/keys.rs`, `wallet?key.rs` | seed, keys, encrypted, unlocked | encrypt, lock, unlock, remove encryption, new address, import | wallet file, sending |
| Wallet file: `do_save`, `read`, `write` | the file | save, load, back up | `sync_lock`, keys |
| Sending: `send_to_address` | selected notes, marks | select, build, broadcast, mark | `sync_lock`, `wallet.txns`, server |
| gRPC connector: `grpc_connector.rs` | none | requests | server |
| Native bridge: `native/src/lib.rs` | one global client | execute a command | a mutex |
| User interface: `src/rpc.ts`, `Routes.tsx`, `LockContext.tsx`, `securityManager.ts`, screens | application state, timers, PIN state | refresh, poll, send, lock, unlock | native bridge, timers |
| Commands, compact formats, parameters, checkpoints, memo encryption, shell, build | none or constant | parse, convert | - |

What must be right, part by part:

- **Block sync**: the wallet's block list is a contiguous, linked piece of one
  chain; a sync that ends well has every transaction of the blocks it scanned
  and none of orphaned ones; the fetcher and the block task always agree on the
  outstanding block, and their loop ends.
- **Witnesses, wallet transactions, scans**: a note's witness belongs to the
  block it claims; a note is spendable at most once, and one whose spend is
  taken back is spendable again, whichever of five tasks saw what first.
- **Transparent transactions**: they reach the scanner in the order of the
  chain, whatever address they are of.
- **Task tree and locks**: a batch counts as done only when all of it is; no
  task, sync, save or send waits for ever.
- **Keys and file**: no order of commands, saves and stops loses a secret or an
  address the user was told about; a locked wallet is locked in all its parts,
  on disk too; the file has one writer at a time.
- **Sending**: what is selected covers amount and fee; nothing is spent twice;
  what is reported is what happened, and the lock is given back.

`PROJECT.json` lists every hazard with its line and the properties that cover
it.

## 2. Modules

| Module | What it is |
|---|---|
| `BlockSync` | the block sync: driver, block fetcher, block task, trial workers, server, rescan |
| `ChainView` | what the block sync promises to an observer of `wallet.blocks` |
| `MCBlockSync` | a block tree with a one-, a two- and a three-block reorg for TLC |
| `BlockSyncProofs` | theorems about `BlockSync`: heights, who asks for which block, one chain, the tip, `ChainView` |
| `WalletTxns` | the wallet's transactions, notes, UTXOs and witness caches, and everyone who changes them: sync, mempool monitor, send, save and restart |
| `MCWalletTxns` | up to three transactions that pay the wallet, spend its money and pay change, for TLC |
| `WalletTxnsProofs` | theorems about `WalletTxns`: what is recorded is so |
| `WalletTxnsWholeProofs` | theorems about `WalletTxns`: what is so is recorded, and what waits at the server keeps its notes |
| `SyncPipeline` | the tasks of a sync, the channels and locks between them, their failures, and what a failed batch leaves running |
| `MCSyncPipeline` | two transparent addresses with interleaved transactions |
| `SyncPipelineProofs` | theorems about `SyncPipeline` |
| `WalletKeys` | the operations on the wallet's keys, as operators: one lock is around all of them |
| `LightClient` | extends `WalletKeys`: the commands that change keys or file, side by side, every save in its steps, stops and restarts |
| `MCLightClient` | one imported key, a right and a wrong password |
| `LightClientProofs` | theorems about `LightClient`: what was promised is kept, one writer |
| `LightClientKeyProofs` | theorems about `LightClient`: secrets, locking, derived addresses |
| `SendTx` | sending and shielding with amounts, beside locking, rescans, syncs and the monitor |
| `MCSendTx` | three notes, one of a viewing key, and a UTXO; two senders |
| `SendTxProofs` | theorems about `SendTx` |
| `FiniteSums` | lemmas on finite sets, least elements and sums, for the proofs |

The modules cut the library by what shares state most closely.  `BlockSync` has
the blocks, `WalletTxns` what the tasks do to transactions, `SyncPipeline` when
the tasks run and end, `LightClient` keys and file, `SendTx` money.  Where one
meets another it keeps the other's step as a single action: a sync is one step
in `SendTx` and a few in `LightClient`; a send is two in `WalletTxns`; fetching
the blocks is one in `WalletTxns` and `SyncPipeline`.

Definitions introduced by "A slip" in a module are what the code would do after
a plausible mistake.  Nothing in `Next` uses them; they serve to see that the
properties notice such a mistake.

### BlockSync

One action per step between two points where another task can run.  Variables
keep the code's names where they have one: `expecting` is
`last_block_expecting`, `existing` is `existing_blocks`, `todo` the rest of
`latest_block_batches`, `ch` the 64-place channel from the fetcher to the block
task, `reorgQ` the unbounded channel back, `cache` what `get_block_range` holds
between the server and the channels, `tch` the blocks trial decryption has
received and not yet given to a worker, `jobs` what workers still have to
record, `stale` the same for workers of a failed batch, which nobody aborts.

- Driver: `StartSync` (tip request, the one-block reorg check, the batch
  list), `SkipBatch`, `BeginBatch` (reads the wallet's height), `SetupBatch`
  (reads the wallet's blocks, spawns the tasks) or `SetupPanics`, `Commit`,
  `Abort`, `EndSync`.  `BeginBatch` and `SetupBatch` are two actions because the
  code awaits in between.
- Fetcher: `FetchRange` for one request of `STEP` heights, top down;
  `FetchReorged` and `FetchDone` for the signals; `SendBlock` hands one block to
  both receivers; `FetchFails` for a failed request or a height the server no
  longer has.
- Block task: `ReceiveMiddle`, `ReceiveLast`, `ReceiveReorg` for one block of
  the channel; `CloseBlocks` when the channel closes.
- Trial decryption: `TrialGroup`, `TrialRest`, `Detect`.
- Environment: `ServerSwitch`; `ClearAll` and `SetInitialBlock` are
  `do_rescan`'s `clear_state`, which does not take `sync_lock`.

Abstractions.  A block's hash is the block itself and `Prev` its `prev_hash`.
`TxIn` says which of the wallet's transactions trial decryption finds in a block
(keys and cryptography are left out); a transaction is its recorded height
(`wtx.block`) or `Absent`.  A Sapling output is recorded only when its block is
visible, because its nullifier needs a witness; one in `Orchard` is not held
back.  The tasks that only read the blocks (`update_notes`, transparent and
full transactions) are not part of this module; a failure of theirs is
`Abort` under `NetworkFaults`.  `get_block_range` filters nothing that matters
here.  The activation height is 1, so `Top(<<>>) = 0`.

`ChainView` is the abstract specification: a wallet's list of blocks is changed
only by popping orphaned blocks, adopting the server's, clearing, and putting
the birthday block back.  `FollowsChain` says `BlockSync` implements it, with
`wallet` for `view`; batches, channels and signals are invisible.

### WalletTxns

One action per acquisition of the `txns` lock.  `txns` is
`WalletTxns.current`: a transaction is its height, its unconfirmed flag, the set
of notes its spent totals count (`paid`), and per pool one note with `spent`,
`pending` (`unconfirmed_spent`), `change`, and for Sapling whether its nullifier
is known (`keyed`) and its witness cache.  A witness cache is the range of
blocks it has witnesses for; `whole` says whether the newest one knows the
outputs that come after the note in its own block.

- `wallet_txns.rs`, one operator per method: `GetOrCreateTx`,
  `AddNewTaddrOutput`, `MarkTxidUtxoSpent`, `AddTaddrSpent`, `MarkTxidNfSpent`,
  `AddNewSpent`, `AddPendingNote`, `AddNewSaplingNote`, `AddNewOrchardNote`,
  `RemoveTxids`, `RemoveTxnsAtHeight`, `ClearExpiredMempool`,
  `ClearOldWitnesses`, `NotesForUpdating` and others.
- Sync: `StartSync`, `InvalidateBlock` (one block of a reorg), `BlocksDone`,
  `Detect` (trial decryption records a note), `ReadOldNotes`, `LookUpSpent` and
  `LookUpUnspent` (one worker of `update_notes`), `RecordSpend`, `OrchardPass`,
  `FinishSync`.
- `scan_full_tx`, lock by lock: `ScanOutputs`, `ScanInputs`, `MarkUtxo`,
  `RecordUtxos`, `ScanSpends`, `RecordSpends`, `ScanNotes`; started in order by
  `ScanTaddr`, in any order by `ScanFull`, and by `ScanStreamed` and a send.
- `Broadcast`, `MarkSelected` for `send_to_address`; `Save`, `Restart`.
- Server: `Mine`, `Reorg`, `Arrive` at the mempool, `Stream` to the monitor.

Abstractions.  All notes are of keys that can spend: a note of an imported
viewing key gets no witness (`lib/src/lightwallet/wallet_txns.rs:687`) and is
passed over by `get_notes_for_updating` (`wallet_txns.rs:222`); see the
observations below, and `SendTx` for what selection and balances make of it.  A
transaction pays the wallet at most one output per pool, so a
note is a transaction and a pool, and amounts, keys, memos, outgoing metadata
and prices are left out.  A block is the set of its transactions that concern
the wallet, in the order of `TxOrder`.  A sync is one batch and its blocks are
fetched at once, because how they are fetched is the subject of `BlockSync`.
The transparent streams are already merged: one transaction once, in chain
order.  `FinishSync` joins the last lock acquisitions of a batch, which
only clear what is old, and the save that follows.  `Loaded` returns what was
saved because the file holds every field modelled here, `unconfirmed_spent`
included.  `LookUpUnspent` has no step for a note whose next block lies below
the batch: `wait_for_block` would wait for ever.

### SyncPipeline

`start_sync` and `start_sync_batch` with the tasks they spawn.  `pc` is where a
thread in `do_sync` is, one action per await that can block: `TakeLock`,
`GetLatest`, `StartNew`, `NextBatch`, `SetUp`, `BlocksDone` (the earliest block
is known), `TasksDone` or `TaskFails` (the four handles of the first wait),
`Verified`, `BatchDone` or `ScanFails`, `Finish`.  `job[b]` holds the tasks of
batch `b`.  Those with a request of their own have a state (`fetch`, `append`,
`taddrs`); the others only pass work on, and `Trial`, `Notes` and `Full` say
when their handles give what, from what is over before them: a task ends when
every sender of its channel is gone.

`work` is everything that takes the read lock of `bsync_data` and waits for a
block with it in hand (`wait_for_block` polls under the lock): the witness of a
new note, the updates of old and new notes, the timestamps of full and of
transparent transactions.  `WaitForBlock`, `Witness`, `IsSpent`,
`UpdateWitness`, `ScanFull`, `ScanTaddr` are its steps; `UpdateWitness` takes
the read lock a second time.  The lock is tokio's, which is fair: `ReadFree` is
false as soon as a writer waits.  `have` is `bsync_data`'s list of blocks,
which batches share: after a failed batch its tasks look into the next one's.
`FetchTaddrs` takes one stream per address and cuts it where it breaks off;
`LowestStream` is the merge.

Left out: what the tasks do to the wallet (`WalletTxns`), reorgs
(`BlockSync`).  `verify_sapling_tree` is one step that finds nothing, since
nothing fills its `verification_list`: the line that would is commented out
(`lib/src/blaze/block_witness_data.rs:598`).

### WalletKeys and LightClient

A key is its address, its kind, whether it is `locked`, whether the spending
key is in memory (`key`) and the password its encrypted copy is made with
(`enc`).  `LockKey`, `UnlockKey`, `EncryptKey`, `RemoveKeyEncryption` are the
methods of `wallettkey.rs` and `walletzkey.rs`; `UpTo` is what is left of a
list when one of its keys is an error, because the code returns from the middle
of its loop.  `Lock`, `Unlock`, `Encrypt`, `RemoveEncryption`, `AddAddress`,
`EnsureHdTaddresses`, the three imports, `Read` and `ReadWallet` are those of
`keys.rs` and `lightwallet.rs`.  Each is an operator from keys to keys.

`LightClient` has the threads.  `native/src/lib.rs` runs `sync`, `rescan`,
`import` and `send` in threads of their own and makes the caller wait for every
other command (`CallerFree`); the monitor's sync is another thread.  A `send`
changes no key and does not save, so it is not in this module: `SendTx` has it,
with its locks.  `task[p]` is what
a thread does and knows.  The steps of a command lie between two acquisitions
of a lock: `MayImport` and `PushKey` are two because `add_imported_sk` checks
and adds under two locks, `SeeEncrypted`, `SeeUnlocked` and `LockAgain` are the
three calls at the start of `do_save`, `GrabLock` takes `sync_lock` unless the
save is a sync's own, `ReadUnlocked`, `WriteKeys`, `WriteTxns` are
`LightWallet::write` into a buffer, the last of them also `File::create`, and
`WriteFile` is `write_all`, with what the command does then (`AfterSave`).
Every save can fail where the code returns an error (`Fails`).  `Stop` is
possible at any time and `Launch` reads the file, if it is whole.

`promised` holds what the user was told (an address or key of a command that
returned without an error), `used` the addresses that scanned transactions use,
as far as they make the wallet derive more.  `raced` records that the user
encrypted between the check and the push of an import, or unlocked between the
check and the write of a save: two slits that the code leaves open, see below.
Cryptography, encodings and birthdays are left out.

### SendTx

`do_send` and `do_shield` one lock at a time: `Send` and `Shield` (which read
balances before any lock), `ResetProgress` (takes `sync_lock`), `Check`,
`MapKeys`, `Select`, `Build`, `Broadcast`, `Mark`, `ScanOwn`.  A step ends the
send with an error, or panics where the code unwraps; a panic unwinds, so the
lock is released, and nothing is recorded (`Panics`).  `SpendableNotes`,
`SelectSaplingNotes`, `SelectUtxos`, `SelectNotesAndUtxos` are the selection,
with values; `VerifiedZBalance`, `SpendableZBalance`, `TBalance` the balances.
A coin is what somebody else's transaction pays the wallet.  It is mined at
`CoinHeight`; before that the mempool monitor may see it (`Sight`), and then it is
recorded with the height of the server's newest block (`sighted`): an unmined
note counts for what asks for the height alone, but has no witness; an unmined
UTXO is selected like any other.  `Watched` are the notes of imported viewing
keys, which have no spending key and no witnesses.
`Broadcast` is accepted unless it conflicts, and the answer may be lost.
Beside it: `LockWallet`, `UnlockWallet`, `ClearState` of a rescan, which do not
wait for `sync_lock`; `Sight` and `Monitor`, which neither do; `Sync` as one
step; `Mine`.  Left out are proofs, memos and change notes; reorgs, the expiry of
unmined coins and scans of what is mined by then (`WalletTxns` has these); a
viewing key whose spending key is imported later; and Orchard notes:
`bitcoinz_params.rs` never activates their upgrade.

## 3. Runs

Deadlock checking is off in all runs but those of `BlockSync`: with no command
at work and the server quiet, nothing has to happen.  Each property has a
mutant, a plausible slip in one definition under which TLC finds it violated.

### BlockSync

Bounds: a tree of ten blocks, chains up to five blocks, `Birthday = 2`, so that
`a1` is below the wallet and `c2` orphans the wallet's first block; batches,
steps, flushes and channel of two, so that a sync has several batches, a batch
several requests, and the channel fills; `MaxReorg = 4`, one less than the
longest chain, so that blocks are dropped from the bottom.  `Trial = 10` exceeds
every batch (only the rest group runs), as it does in the code when a wallet is
fewer than fifty blocks behind; in `blocksync_early_workers` batches of four
are larger than `Trial = 2`, and in `blocksync_faulty` workers start early, too.
There `Birthday = 3` lies above the first batch of a wallet that has no block, so
that a birthday block put back during a sync makes `setup_for_sync` panic
(`SetupPanics`).  Small sizes are enough because the code compares heights and
the lowest link only; the proofs cover every size.

| Run | Question | Answer |
|---|---|---|
| `blocksync_stable` | the server reorganises only between syncs, nothing fails | all holds: the inductive invariant of the proofs, nothing missed, nothing left over, the tip reached, the abstract specification implemented, every sync ends |
| `blocksync_faulty` | the server reorganises, requests fail and the wallet is cleared, all during a sync; workers start early | types, the handshake and the end of the reorg loop hold all the same |
| `blocksync_early_workers` | does invalidating a block remove the block's transactions, and no others, when workers start before the reorg is found? | no: a note of a new block that a worker has recorded is removed as well (finding) |

Fairness is weak fairness of every tokio task and of the driver once a sync has
started: tokio polls every task that can run, and none of these steps competes
with another for a lock for ever (locks are tokio's fair `RwLock`s, held for one
step).  The server, the user and the start of a sync owe nothing.
`ReorgLoopEnds` and the `SyncEnds` of this module say nothing about
`update_notes`; the `SyncEnds` of `WalletTxns` does.

### WalletTxns

Bounds: the transactions form a chain, `b` spending everything `a` pays the
wallet and `c` what `b` pays back, so that a note can be found, spent and given
back, and its spender spent in turn.  `MaxHeight` bounds the server's chain;
`MaxReorg` (100 in the code) is small, so that witnesses are dropped, expired
transactions removed and old witnesses cleared within it.  Reorgs replace fewer
blocks than `MaxReorg`: `MaxDepth` is smaller.  Not every run reaches every
limit: in `wallettxns_reorg` `MaxReorg` is as large as the chain, so that nothing
is trimmed; `wallettxns_restart`, with `MaxReorg = 3` in chains of seven blocks and
reorgs of up to two, reaches caches trimmed from below, caches that were cleared,
notes with one witness left, and notes with a trimmed cache whose spend is taken
back.  `Sent = {b}` makes `b` the
wallet's own transaction; `ExpiryDelta` is the time a transaction may wait.

| Run | Instance | Question | Answer |
|---|---|---|---|
| `wallettxns_reorg` | three transactions; `a` pays a Sapling note and a UTXO, `b` spends both, `c` the change; one reorg of up to three blocks, also during a sync | does the wallet agree with the chain after any reorg, in whatever order the scans, trial decryption and `update_notes` run? | yes: nothing lost, every spend seen, no phantom spend, totals and change right, a confirmed spend is only forgotten with its block |
| `wallettxns_restart` | two transactions, Sapling and Orchard; chains of more than two `MAX_REORG`; one reorg of up to `MAX_REORG` - 1 blocks; saves, and restarts at any step | are enough witnesses kept, and cleared late enough?  Does a sync after a restart repair what the interrupted one left? | yes: every unspent note has a witness (one fewer kept, and a reorg takes the last), and every spend is seen |
| `wallettxns_mempool` | two transactions, Sapling, the monitor, a send, expiry | does the mempool disturb a sync? | not while streamed transactions are scanned before they are mined; witnesses are current, every spend is seen, marks go with the transaction that made them, reserved notes are not offered again, every sync ends |
| `wallettxns_orchard_reorg` | two transactions, Orchard, one reorg | are spent marks undone with their spender? | no: Orchard notes are forgotten (finding) |

`FairSpec` is weak fairness of the sync's tasks and of the scans they start, for
the reasons above.  The monitor's scans, the server, sends, saves and restarts
owe nothing.  The step properties and invariants are checked without fairness.

### SyncPipeline

Bounds: two syncs of up to two batches in all, so that a failed batch is
followed by another, in the same sync or in the next; batches of two blocks, of
which none, one or both may come; an old note or a new one, in the batch's
older block, so that what was found lies below blocks that came first; two
transparent addresses with three transactions, one of them of a block the wallet already has.  One
client: a second one only waits at `sync_lock`, which `LightClient` has with
several threads.

| Run | Question | Answer |
|---|---|---|
| `syncpipeline` | any request fails, at any point | a batch that counts as done is done; transparent transactions come in order; no index wraps around although batches share their blocks; a sync that hangs waits for a task that an earlier batch left behind, and nothing else |
| `syncpipeline_hang` | does every sync end? | no: without any block, the update of old notes waits for block 0 with the lock in hand (finding) |

Fairness is weak fairness of all steps together: as long as some task can go
on, one does.  That is less than tokio gives, and enough, because nothing in
the pipeline can be repeated for ever.  Requests are answered, with an error at
worst; the code has no timeouts.

### LightClient

Bounds: the caller and one background thread; one key to import, as spending,
transparent or view key; new transparent addresses up to two keys; one address
in use, and `Gap = 1`, so that its use derives the next one; syncs of one
batch; a right and a wrong password, which are symmetric.  `NewO = 0`, as in
files of older versions, lets `ReadWallet` add the missing address.  About 4.6 million states: two threads
are enough for every race between two saves, or a save and a command, and the
theorems cover more.

| Run | Question | Answer |
|---|---|---|
| `lightclient` | any commands side by side, stopped and started at any step | what was promised is kept; no secret is lost; locking and encryption stay whole and the file of an encrypted wallet has no secrets, unless the user hits one of the two slits; HD addresses have no hole and their gap is kept; one writer at a time |
| `lightclient_stopped_save` | is the seed always on disk, or the program running? | no: `File::create` empties the only file (finding) |

All are safety properties, without fairness.

### SendTx

Bounds: two senders (the bridge has a thread for each `send`); amounts that the
UTXO covers, that it and the larger note cover exactly (with the fee), and one
that is no amount of money, besides the whole verified balance and `shield`; two
sends; a note of a viewing key; heights with a gap, so that the anchor lies at,
above and below the notes, and a note and the UTXO can be seen before they are
mined, the note long enough to count as verified.

| Run | Question | Answer |
|---|---|---|
| `sendtx` | two sends, or a send and a `shield`, with everything that does not wait for them | what is selected covers amount and fee, with as few notes as possible, the spendable balance is what can be sent, nothing spent twice, what is reported as sent was sent and marked, every send ends |

Fairness is weak fairness of each sender's steps, and strong fairness of taking
`sync_lock`: tokio's mutex serves its waiters in order.

### Observed, not kept as runs

Reading the code for the models, and checking wider instances of them, showed
more behaviours that a reader of this code should know of.  They mark the edge
of what the properties above claim; "fails" says that TLC found the property
violated on an instance that allows the behaviour.

- The server reorganises between two requests of one batch: only the lowest
  link of a batch is compared, and a batch of two chains is committed
  (`lib/src/grpc_connector.rs:171`; `WalletLinked` fails).
- What `blocksync_early_workers` shows to be removed is not found again: that
  sync ends well without it (`SyncMissesNothing` fails on the same instance).
- A reorg makes a spent note unspent: the worker that continues its witness
  waits for a block below the batch (`lib/src/blaze/block_witness_data.rs:646`;
  `SyncEnds` of `WalletTxns` fails).
- A mempool transaction that is scanned after the sync recorded it becomes
  unconfirmed again, and expires (`lib/src/lightwallet/wallet_txns.rs:405`;
  `NothingLost` fails).
- The entire verified balance, which the help of `send` offers
  (`lib/src/commands.rs:702`), cannot always be sent: `verified_zbalance` counts
  every unspent note at or below the anchor, also those of imported viewing keys
  and those only seen in the mempool, which `select_sapling_notes` never takes
  (`lib/src/lightwallet.rs:935`, `1207`; that such an amount is covered fails
  for one note of each kind).  `SpendableIsSpendable` is about the balance that
  asks for key and witness.
- Orchard keys are not locked: `Keys::encrypt` and `Keys::lock` go over `tkeys`
  and `zkeys`, and leave the spending keys in `okeys`, of which
  `lib/src/lightwallet/keys.rs:124` says "If wallet is locked, only viewing keys
  are present." (`lib/src/lightwallet/keys.rs:765`; `Lock` and
  `EncryptKey` have it so, and a locked wallet with an Orchard key is reached).
- A send that panics (an amount above all money, the wallet locked between two
  checks, cleared before or after the broadcast) leaves a progress with neither
  a transaction nor an error, for which the user interface polls for ever
  (`lib/src/lightwallet.rs:1129`).
- The user encrypts between the check and the push of an import: the key has no
  copy, and the wallet can never be unlocked again; or unlocks between the
  check and the write of a save: the file of an encrypted wallet has its keys
  (`lib/src/lightwallet.rs:650`, `440`; without `raced`, `UnlockWorks` and
  `EncryptedFile` fail).
- The spend of a note of an imported viewing key is looked for only in the batch
  that brings the note: `get_notes_for_updating` passes such a note over in every
  later one, and it stays unspent in the balances unless its spender is scanned
  for another reason (`lib/src/lightwallet/wallet_txns.rs:222`).
- `do_sync` marks the sync as finished after it released `sync_lock`; another
  one that has begun meanwhile then counts as finished
  (`lib/src/lightclient.rs:1346`).
- A sync whose first request fails never gets a new sync id, which the loading
  screen waits for (`lib/src/lightclient.rs:1403`,
  `src/components/LoadingScreen.tsx:281`); and `last_error` is never set.
- `verify_sapling_tree` has nothing to verify, and its loop ignores what a
  verification returns (`lib/src/blaze/block_witness_data.rs:598`).
- `ensure_hd_zaddresses` is called by nobody (`lib/src/lightwallet/keys.rs:570`):
  a restored wallet does not derive Sapling addresses beyond the first.
- `encrypt`, `lock`, `unlock` and `decrypt` do not save; what they did is lost
  if nothing else saves before the program stops.
- A failed batch's workers are not aborted and write into the next sync
  (`lib/src/lightclient.rs:1598`).
- A transaction recorded by a failed batch stays when a reorg then replaces its
  block: the wallet never had the block, so nothing is invalidated
  (`lib/src/lightwallet/wallet_txns.rs:176`).
- A rescan during a sync clears the wallet without the sync lock: the sync
  commits its top, the rescan's own sync starts there, and what was cleared
  below is not found again; `setup_for_sync` can also meet a list of blocks
  above its batch and panic (`lib/src/lightclient.rs:1149`,
  `lib/src/blaze/syncdata.rs:47`).
- A note found and spent in one batch, and given back by a reorg of the spend
  alone, continues from a witness that lacks the rest of its block
  (`lib/src/blaze/update_notes.rs:132`).
- A reorg of exactly `MAX_REORG` blocks pops every witness of an old note
  (`lib/src/lightwallet/data.rs:166`, `lib/src/lightclient.rs:1635`).
- The scan of an unconfirmed transaction marks a UTXO as spent, at the height of
  the scan, not as pending (`lib/src/blaze/fetch_full_tx.rs:249`).
- With two transparent inputs, one of them found in the same batch, a full scan
  can compute the total before the second input is known and store it last
  (`lib/src/blaze/fetch_full_tx.rs:218`).
- A reorg drops a sent transaction that still waits at the server, and with it
  the marks on the notes it spends (`lib/src/lightwallet/wallet_txns.rs:184`).
  A restart between the broadcast and the next save does the same.
- `unconfirmed_spent` is written to the file and read back
  (`lib/src/lightwallet/data.rs:308`, `551`, `675`), although the comments at
  `data.rs:321`, `446` and `564` say it is not.
- With the monitor and a reorg, an orphaned transaction that is streamed again
  gets the stream's height and escapes the removal of the blocks above
  (`lib/src/lightclient.rs:1271`).

## 4. Proofs

| Module | Theorems | Assuming |
|---|---|---|
| `BlockSyncProofs` | `TypeCorrect` | |
| | `SyncInvCorrect`, `WalletStaysContiguous`, `VisibleStaysContiguous`, `BatchesAlwaysGoUp`, `HandshakeAlwaysAgrees` | `~RescanDuringSync` |
| | `WalletStaysLinked`, `SyncAlwaysReachesTip`, `SyncFollowsChain` (refinement of `ChainView`) | `~RescanDuringSync`, `~ServerMovesDuringSync` |
| `WalletTxnsProofs` | `TypeCorrect`, `ChangeMarkedCorrect` | |
| | `SpendersKeptCorrect` | `NoOrchard`, `~(Monitor /\ Restarts)` |
| | `SpendsRealCorrect` | `InTime`, `NoOrchard`, `~(Monitor /\ Restarts)` |
| | `UnspentKeepsWitnessCorrect` | `InTime`, `MaxDepth < MaxReorg` |
| `WalletTxnsWholeProofs` | `NothingLostCorrect`, `SpendsSeenCorrect`, `SpentStaysSpentCorrect` | `InTime`, `NoOrchard`, `MaxDepth < MaxReorg` |
| | `FundsAccountedCorrect` | the same, and `OneUtxo` |
| | `WitnessCurrentCorrect` | `InTime`, `MaxReorgs = 0`, `MaxDepth < MaxReorg` |
| | `PendingSpendsMarkedCorrect` | `InTime`, `NoOrchard`, `MaxReorgs = 0`, `~Restarts`, `MaxDepth < MaxReorg` |
| `SyncPipelineProofs` | `DoneIsWholeCorrect`, `TaddrInOrderCorrect`, `IndexInRangeCorrect` | |
| `LightClientProofs` | `PromisedKeptCorrect`, `OneWriterCorrect` | |
| `LightClientKeyProofs` | `NothingForgottenCorrect`, `EncryptedFileCorrect`, `UnlockWorksCorrect` | |
| | `HdContiguousCorrect`, `GapKeptCorrect` | `ForeignImports` |
| `SendTxProofs` | `SpendsOnceCorrect`, `SentIsMarkedCorrect`, `SelectionRightCorrect`, `SpendableIsSpendableCorrect` | |

Each rests besides on the named assumptions about constants in its model
(`ChainAssumption`, `SizeAssumption`, `TxAssumption`, `OrderAssumption`,
`BoundAssumption`, `KeyAssumption`, `ClientAssumption`, `PipelineAssumption`,
`SendAssumption`),
which TLC evaluates on the runs of that model.  Why the assumptions in the table
are made is told below.  `FiniteSums`
has what several proofs need of finite sets: induction over subsets, and that
the fold behind the models' totals is a sum.

### BlockSyncProofs

None of the four properties is inductive: whether the new blocks join the old
ones at `Commit` depends on what was in the channel when the last signal was
sent.  `SyncInv` adds where every block of the batch is.  The lists `blocks`,
`blks`, `ch` and `cache` together descend without a gap from `start` to
`Below + 1` (`InFlightDescends`), `existing` descends from `expecting - 1`, and
`FetcherKnows` ties `Below`, the fetcher's state and the signal channel
together: while blocks are fetched `next = Below`; while the fetcher waits,
either the block at `expecting` is the last one in flight, or the channel holds
exactly the signal for it.  `PlanInv` says the remaining batches ascend and are
not below the wallet.  The proof has one lemma per action that touches the
blocks; the lemmas on descending lists (`DescendsAppend`, `DescendsConcat`,
`DescendsTail`, `DescendsPrefix`) and on server ranges (`RangeDescends`) carry
the arithmetic.  A rescan that puts the birthday block back during a sync breaks
`BatchesGoUp`, hence `~RescanDuringSync`.  The runs check `SyncInv`, of which
`WalletContiguous` is a part and which implies `VisibleContiguous` and
`BatchesGoUp`.

Heights are not enough for what an observer sees: that the blocks are of one
chain.  `LinkInv` adds to `SyncInv` that what is fetched lies on the server's
chain and what is left of the old blocks is linked and goes down to the
wallet's oldest block (`BatchLinks`), that the two fit together once the block
task has told the fetcher that there is no reorg (`Settled => Joins`), and that
the last batch ends at the tip (`TipInv`).  A list that is linked and whose
first block is on the chain is on the chain down to its end: the proof takes
the least position that is not (`LeastNat`), because the induction theorems
cannot be instantiated.  `SyncFollowsChain` shows for every action that it is
a step of `ChainView` or a stutter.  The server must keep its chain during a
sync: see the first observation above.

### WalletTxnsProofs

One lemma per operation of `wallet_txns.rs` says what it makes of the map of
transactions (`GetOrCreateIs`, `AddNewSpentIs`, `RemoveTxidsIs`, ...), and one
that it makes a good wallet of a good one (`GoodWallet`: types, a note only in
pools that the transaction pays, change if and only if something is spent).
`CoreInv` adds what the queues of a batch and the scans are about, which says
that what is going to be marked is there: `MarkTxidNfSpent` unwraps.  That the
notes of a batch have all been recorded when the Orchard pass begins
(`phase = "orchard" => detect = {} /\ ~oldNotes`) was found missing by the
proof.

`SpendersKept` speaks of moments when nobody is changing the wallet, and is
nowhere near inductive.  `SpendInv` says that whatever a note is spent or
reserved by is in the wallet, or is about to be (`Marking`, `Reserving`): a scan
that has marked a UTXO has its total still to add, `update_notes` has marked a
note and queued its spender, a send has marked what it selected and scans its
own transaction.  The last one is the delicate one: `AddNewSpent` is called only
for notes that `ScanSpends` finds unspent, so `SendInv` follows the selected
notes through the scan.  What removes transactions (`RemoveTxnsAtHeight`,
`ClearExpiredMempool`) is a `Removal`: it takes away whole transactions and
every mark that is by one of them.  Both assumptions are the code's:
`remove_txids` leaves Orchard notes alone (a finding), and a save between the
marking of a UTXO by the monitor's scan and the recording of its spender is a
file that has the mark only, which a restart then reads.

`SpendsReal` and `UnspentKeepsWitness` rest on a second invariant, `HistInv`,
which relates the wallet to the blocks it comes from:

- `ChainInv` has the three lists of blocks a sync works with: what the server's
  chain shares with the wallet's goal, what of the old blocks is kept, what
  `invalidate_block` has left of them so far.  A transaction is in one block of
  each.
- `WalletInv` says of the wallet, and of the file, that what it takes for mined
  is in these blocks at its height (`ConfirmedIn`), that a mark is by a
  transaction that spends the note, and for a Sapling note that this
  transaction is in the wallet or is in `found`, the queue between the two
  writes of `update_notes` (`SpentIn`), and how far back witnesses reach
  (`WitnessIn`).  Which blocks these are depends on the phase: during the reorg
  the old ones up to the last that is not invalidated, in a batch the new ones.
- `ScanWork` and `NoteWork` say of the tasks of a batch that the heights and
  notes they hold are right for the new blocks, although they read them before
  other tasks changed the wallet.
- `WaitInv` and `MonitorInv` are for the mempool monitor, which scans beside all
  of this without the sync lock.  What waits at the server is not mined, and
  nothing mined spends the same; what the monitor has been streamed still waits;
  and no block of the wallet's, or of the batch, is one the server does not
  have.  So a transaction that is being scanned as unconfirmed is in no block the
  wallet knows or is about to know (`ScannedWaits`), whichever step of a sync
  the scan falls into, and its marks and totals come in no one's way.

That an unspent note has a witness is not inductive, because a reorg takes
witnesses from the new end and makes spent notes unspent, and
`clear_old_witnesses` takes all of them from notes spent long ago.  So
`WitnessOK` speaks of every note: its witnesses reach back to its own block, or
to the oldest block a reorg can leave (`Reaches`), or its spend is so old that
no reorg takes it back.  A note whose witness is being updated cannot be of the
last kind (`NoteWork`).

The assumptions of these two.  `InTime` is about the monitor, which is on by
default: it is off, or there is no reorg and what it is streamed is scanned
before it is mined.  Both parts are needed: a transaction that is streamed again
after a reorg gets the height of the stream and escapes invalidation (see the
observations above), and one that is mined while it is being scanned is turned
back into a pending one (another one there), so that `ConfirmedIn` is not true and
`SpendsReal` fails.  A reorg of `MAX_REORG` blocks or more pops all witnesses of
a note (see there, too), hence `MaxDepth < MaxReorg`; and `remove_txids` leaves
Orchard notes alone.  `wallettxns_reorg` and `wallettxns_restart` meet them
without the monitor and with a reorg, `wallettxns_mempool` the other way round; they leave any
number of transactions, blocks, sends, saves and, without the monitor, reorgs
and restarts.

### WalletTxnsWholeProofs

The converse: what the chain has is in the wallet.  At rest this is one
predicate, `HasAll(txns, Mined(synced))`: every output is a note of a confirmed
transaction, every spend marks its note and is counted in the spender's totals.
`NothingLost`, `SpendsSeen` and `FundsAccounted` read three things off it.  In a
batch it is not true, and `WholeInv` says by how much:

- `ProperInv`: in each of the lists of blocks a note is paid before it is spent
  and spent once.  The server sees to it; `OrderAssumption`, that `TxOrder` has
  a transaction after those it spends, lets it.
- `BatchInv`: in a batch the wallet has all of the blocks that are kept; of a new
  block an output may be missing that is somebody's to bring (`OutputDue`:
  trial decryption, or an address scan), a spend that somebody will still mark
  (`SpendDue`: trial decryption, the reading of the old notes, an entry of
  `update_notes` that starts no higher than the spender, a scan of the spender
  that has not passed the marking), and a count that is still to be added
  (`CountDue`: an entry of `found`, or a scan about to add a UTXO).  Each task's step
  discharges what it was due for, or hands it on to the next queue; that is the
  proof.
- `IdleInv` and `SavedInv`: outside batches nothing is missing from what the
  wallet's blocks, up to the ones being invalidated, have; nor from the file.
- `PaidInv`: a transaction's totals count only what it spends.
- `SendFree`: what a send has selected is not spent in the wallet's blocks.
- `TaddrInv` and `UtxoInv`: the address scan comes to the transactions in the
  order of the chain, one at a time, and the UTXOs a scan is going to mark are
  among those it counts, which its transaction spends.

The proof has one lemma per action.  Every operation of `wallet_txns.rs` that a
batch uses makes a ledger entry for one transaction and leaves the others alone
(`Ledger`), so that a step needs an argument for one transaction only.
`SpentStaysSpent` follows: what is marked by a kept block is still marked after
the step, because `HasAll` says so before and after, and a note has one spender.

`WitnessCurrent` needs no reorg (`CalmInv`: nothing is ever dropped, so what is
kept is what was synced) and, in `NewestInv`, where every live note's newest
witness is: of an old note at the last block kept, while `update_notes` has
still to come to it; of a new one anywhere, while its entry, which starts at its
own block, is queued; and otherwise at the end of the view.

`PendingSpendsMarked` relates the wallet's marks to what the server holds, and so
the wallet's expiry of a transaction to the server's.  `PendInv` has four parts:

- `DateInv`: a transaction that is in the wallet, in a scan or streamed as
  unconfirmed at a height can wait for `ExpiryDelta` blocks after the next, and
  no longer;
- `PoolInv`: what waits is not expired, spends nothing that another one waiting
  spends, and no parent of it that is not mined has expired before the newest
  block; what is mined is so by its expiry height;
- `AloneInv`: nothing of the wallet's own that waits spends what a send is
  about to spend;
- `HeldInv`: what is the wallet's own and waits has its notes marked by it,
  except for a send between its broadcast and its marks.

`clear_expired_mempool` waits for `MAX_REORG` blocks, more than `ExpiryDelta`, so
what it removes cannot wait any more, nor be mined later; if it was mined, then
`HasAll` has it as confirmed, and it is not removed.  What a batch or a scan
marks a note with is mined, or waits, and by `PoolInv` nothing else that waits
spends that note.

The monitor's scans need one lemma more (`ScannedFits`): what is scanned is of
this batch and at its height, or is mined nowhere and spends nothing that the
blocks spend, so that a scan as unconfirmed can undo nothing that is due.

Why the assumptions are made.  `InTime` and `NoOrchard` for the reasons given
above: a streamed transaction gets the stream's height, and `remove_txids` does
not take marks off Orchard notes.  A reorg of `MAX_REORG` blocks leaves notes
without witness, whose spend is then not looked for.  `OneUtxo`, for the totals
alone, says that no transaction spends two of the wallet's UTXOs: with two, the
scan that knew only one of them can be the last to write the total (an
observation above, and TLC finds it as soon as one instance has it).  A reorg can
leave a note's witness short of its block (another observation), hence
`MaxReorgs = 0` for `WitnessCurrent`.  `PendingSpendsMarked` has in addition
`~Restarts`, because a reorg and a restart really take such marks off (an
observation too): the reorg drops the sent transaction, the restart forgets the
marks that no save had got to.

### SyncPipelineProofs

`DoneIsWhole` speaks of the step in which a batch is counted as done.  `Inv`
says of every batch, past ones included, which work its tasks can still
produce (`WorkOK`, `StreamsOK`, after `Ended`), of the client which handles it
has joined (`Current`), and of a batch that failed that its blocks were there
(`Past`), because tasks it left behind look into the next batch's blocks.  One
lemma (`TaskInv`) serves all steps of tasks: they only move on what is theirs.
`PipelineAssumption` has each stream by height, as the server sends the
transactions of one address; a stream that breaks off is a prefix.  `Nobody` is
not a client.

### LightClientProofs and LightClientKeyProofs

`PromisedKept` is not inductive: whether the file has an address after
`WriteFile` depends on what the buffer had, and that on who could promise
something after the keys were copied.  `Inv` adds, thread by thread, what it
knows (`TaskOK`): who writes, or is in a sync, holds `sync_lock`; the address a
command is going to promise is in the wallet from its first save step on; and a
copy of the keys has every address that was promised, and the one that is about
to be.  The second half of the argument is that no operation drops an address
(`Keeps`): one lemma per operation of `WalletKeys` (`LockRegrows`,
`EncryptRegrows`, `UnlockRegrows`, `RemoveEncryptionRegrows`,
`AddAddressGrows`, `EnsureGrows`, `ImportGrows`, `ReadGrows`), which rest on
lemmas about lists whose keys are changed in place or that grow at the end.
`OthersOK` says that a step of one thread does not disturb what another knows;
`StepKeeps` and its special cases turn it into one lemma per action.  The keys'
type is weaker than `Keys` (`KeysIn(S)` for some set of addresses `S`), because
`NextPosition` chooses a highest number, which only a list of HD keys that has
one gives: `HasTop` says so, for transparent keys, where it matters.

`KeysInv` goes on from there with what the keys are like: what holds whatever
happens (`Safe`: every secret is there, or its copy under the password the seed
is encrypted with), what holds unless the user hit one of the two slits
(`Well`: a wallet is locked in all of its parts or in none), and what holds of
derived keys (`Hd`).  It says it of the keys in memory, of the file, and of the
buffer of every save (`StepOK`), because a save copies keys under one lock and
writes them under another.  `Safe` has a peculiarity that the proof brought to
light: an error in the middle of `Keys::lock` leaves a wallet unlocked whose
seed is cleared; that the first transparent key is derived, and locked by then,
is what makes the state harmless (`FirstHd`).

`HdContiguous` and `GapKept` hold for imports of other wallets' keys only
(`ForeignImports`).  Without it TLC finds that the user imports a key of this
wallet's own seed at a position that has not been derived yet; when the position
is derived, the key is there already, as an imported one.

### SendTxProofs

`NetMarked` is at the centre: what the network has accepted is marked, but for
what the sender that holds `sync_lock` is about to mark.  `StillFree` follows
what was selected to the broadcast, beside a rescan, a sync and the monitor,
which do not wait.  `SelectionRight` is about the selection alone: that as few
notes as possible are taken is an exchange argument over the sums (no set of
notes is worth more than as many of the largest).  `SpendableIsSpendable`
relates the heights that the spendable balance compares to the witnesses that
selection counts, with notes of viewing keys and unmined ones among them
(`SpendableByAnchor`).

### Model-checked only

- Liveness (`SyncEnds`, `ReorgLoopEnds`, `SyncsEnd`, `OnlyLeftoversBlock`,
  `SendEnds`): fairness and `ENABLED` are out of the prover's reach.
- `SyncMissesNothing` and `SyncKeepsNoOrphans` of `BlockSync`: they hold if trial
  decryption starts after the reorgs of a batch are over, which the instance has
  by sizes (`Trial` exceeds a batch) and the code does not have in general.
- What recursive definitions compute for every input.  No module that is proved
  about has one; sums are folds, and what is needed of them is in `FiniteSums`.

## 5. Not modelled, and what is left

- The Orchard bridge tree with its checkpoints and rewinds: no Orchard note
  occurs on this network.
- Memos, outgoing metadata, prices, `adjust_spendable_status`: they change
  nothing that a property above relates.
- The user interface: its timers, polls and PIN lock run in one thread of
  JavaScript; what they read of the library is modelled there.  Replacing the
  client behind the bridge while threads of the old one run is left out: the
  interface initialises it once.
- A server that answers with a lower tip than before, and a server that
  answers never: the code handles neither.

Next would be a model of the polls of the user interface on top of
`SyncPipeline` and `SendTx`.

Not planned: cryptography and its encodings, parsing, formatting, generated
code, packaging.
