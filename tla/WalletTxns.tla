------------------------------ MODULE WalletTxns ------------------------------
(***************************************************************************)
(* What the wallet knows about its transactions, notes and UTXOs           *)
(* (lightwallet/wallet_txns.rs), and everybody who changes it:             *)
(*   - a sync (lightclient.rs, start_sync_batch) removes what a reorg      *)
(*     orphaned, records the outputs trial decryption finds, looks for the *)
(*     spends of old and new notes, scans transparent transactions in      *)
(*     order and full transactions in any order, passes over the Orchard   *)
(*     spends, and expires old mempool transactions;                       *)
(*   - the mempool monitor scans what the server streams, without the      *)
(*     sync lock;                                                          *)
(*   - a send, under the sync lock, selects notes, broadcasts, marks them  *)
(*     and scans its own transaction.                                      *)
(* Each action is what happens between two acquisitions of the txns lock;  *)
(* FinishSync joins the last ones of a batch, which only clear what is old. *)
(*                                                                         *)
(* A transaction pays this wallet at most one output per pool, so a note   *)
(* is a pair <<transaction, pool>>: "s" Sapling, "o" Orchard, "t"          *)
(* transparent.  A block is the set of the transactions in it that concern *)
(* the wallet.  How blocks are fetched is the subject of BlockSync.        *)
(***************************************************************************)
EXTENDS Integers, Sequences

CONSTANTS
  TxOrder,      \* the transactions, in an order they can have inside a block
  Outs,         \* Outs[t]: the pools t pays this wallet in
  Spends,       \* Spends[t]: the wallet's notes t spends
  Sent,         \* the transactions this wallet makes; others come from outside
  NoTx,         \* the None of Option<TxId>
  MaxReorg,     \* MAX_REORG
  AnchorOffset, \* config.anchor_offset
  ExpiryDelta,  \* how long a transaction can wait for a block
  MaxHeight,    \* bound: blocks in the server's chain
  MaxReorgs,    \* bound: times the server reorganises
  MaxDepth,     \* bound: how many of the wallet's blocks a reorg replaces
  Monitor,      \* config.monitor_mempool
  LateMempool,  \* may a streamed transaction be mined before it is scanned?
  Restarts      \* may the program stop and start again?

Txs   == {TxOrder[i] : i \in 1..Len(TxOrder)}
Pools == {"s", "o", "t"}
Note  == Txs \X Pools

ASSUME TxAssumption ==
  /\ TxOrder \in Seq(Txs)
  /\ NoTx \notin Txs
  /\ Sent \subseteq Txs
  /\ Outs \in [Txs -> SUBSET Pools]
  /\ Spends \in [Txs -> SUBSET Note]
  /\ \A t \in Txs : \A n \in Spends[t] : n[2] \in Outs[n[1]]

(* A transaction comes after those it spends. *)
ASSUME OrderAssumption ==
  \A t \in Txs : \A n \in Spends[t] :
    \E i, j \in 1..Len(TxOrder) : i < j /\ TxOrder[i] = n[1] /\ TxOrder[j] = t

ASSUME BoundAssumption ==
  /\ MaxReorg \in Nat \ {0} /\ AnchorOffset \in Nat
  /\ ExpiryDelta \in Nat /\ ExpiryDelta < MaxReorg
  /\ MaxHeight \in Nat /\ MaxReorgs \in Nat /\ MaxDepth \in 0..MaxReorg
  /\ {Monitor, LateMempool, Restarts} \subseteq BOOLEAN

VARIABLES
  chain,    \* the server's blocks, lowest first
  mempool,  \* transactions the server would mine
  expiry,   \* expiry[t]: the last height t can be mined at; 0: not made yet
  reorgs,   \* how often the server has reorganised
  shared,   \* how many blocks of view (or of synced) the server still has
  txns,     \* WalletTxns.current
  synced,   \* the chain up to the wallet's newest block
  saved,    \* txns as the wallet file has them
  phase,    \* who holds sync_lock, and where he is
  view,     \* the chain a sync has fetched
  left,     \* how many of synced's blocks the sync has not invalidated
  keep,     \* how many of them view begins with
  detect,   \* outputs trial decryption has still to record
  oldNotes, \* must update_notes still read the notes from before the batch?
  upd,      \* notes update_notes has still to look up
  found,    \* spends found and marked on the note, but not yet recorded
  taddrQ,   \* transactions of the transparent addresses, not yet scanned
  fullQ,    \* transactions to be downloaded and scanned
  scans,    \* scan_full_tx calls in progress
  streamQ,  \* mempool transactions streamed and not yet scanned
  sending   \* the transaction being sent

serverVars == <<chain, mempool, expiry, reorgs>>
queueVars  == <<detect, oldNotes, upd, found, taddrQ, fullQ>>
syncVars   == <<phase, view, left, keep, queueVars>>
vars == <<serverVars, shared, txns, synced, saved, syncVars, scans, streamQ, sending>>

Smaller(x, y) == IF x < y THEN x ELSE y
Larger(x, y)  == IF x < y THEN y ELSE x

(* The map f with k mapped to v *)
Put(f, k, v) == [x \in DOMAIN f \cup {k} |-> IF x = k THEN v ELSE f[x]]

(* What a chain contains, where, and which transaction in it spends a note *)
Mined(c)          == UNION {c[h] : h \in 1..Len(c)}
HeightIn(c, t)    == CHOOSE h \in 1..Len(c) : t \in c[h]
SpendersIn(c, n)  == {y \in Mined(c) : n \in Spends[y]}

-----------------------------------------------------------------------------
(* WalletTxns: the operations *)

(* WitnessCache: a witness for the end of each block from..top.  The first *)
(* one, made when the note is found, is not whole: it does not know the     *)
(* later outputs of its block.                                              *)
NoWitness       == [from |-> 1, top |-> 0, whole |-> FALSE]
Witnesses(c)    == (c.top + 1) - c.from
FirstWitness(h) == [from |-> h, top |-> h, whole |-> FALSE]

(* pop: forget the blocks from height up *)
Pop(c, height) == [c EXCEPT !.top = Larger(c.from - 1, Smaller(@, height - 1))]
PopNote(d, height) == [d EXCEPT !.witness = Pop(@, height)]

(* A slip: one witness too few is kept. *)
UpdateAfterBlockShort(c, last) ==
  IF c.top >= last THEN c
  ELSE [c EXCEPT !.from = Larger(@, last - MaxReorg + 2), !.top = last]

(* update_witness_after_block: read on to the batch's last block, and keep *)
(* the latest MAX_REORG witnesses.                                         *)
UpdateAfterBlock(c, last) ==
  IF c.top >= last THEN c
  ELSE [c EXCEPT !.from = Larger(@, last - MaxReorg + 1), !.top = last]

(* keyed is FALSE for a Sapling note whose nullifier is not known yet.  An  *)
(* Orchard note is placed once it has a position in the bridge tree.        *)
NewNote(keyed, witness, change) ==
  [spent |-> NoTx, at |-> 0, pending |-> NoTx,
   keyed |-> keyed, witness |-> witness, placed |-> FALSE, change |-> change]

Known(w, n)      == n[1] \in DOMAIN w /\ n[2] \in DOMAIN w[n[1]].notes
NoteOf(w, n)     == w[n[1]].notes[n[2]]
SetNote(w, n, d) == [w EXCEPT ![n[1]].notes = Put(@, n[2], d)]

(* total_funds_spent_in: paid is what the wallet thinks t spent of its own *)
FundsSpentIn(w, t) == IF t \in DOMAIN w THEN w[t].paid ELSE {}

(* A slip: a transaction that is there already is left as it is. *)
GetOrLeaveTx(w, t, height, unconfirmed) ==
  IF t \notin DOMAIN w
    THEN Put(w, t, [block |-> height, unconfirmed |-> unconfirmed, paid |-> {}, notes |-> <<>>])
    ELSE w

GetOrCreateTx(w, t, height, unconfirmed) ==
  IF t \notin DOMAIN w
    THEN Put(w, t, [block |-> height, unconfirmed |-> unconfirmed, paid |-> {}, notes |-> <<>>])
    ELSE IF w[t].unconfirmed # unconfirmed
           THEN [w EXCEPT ![t].block = height, ![t].unconfirmed = unconfirmed]
           ELSE w

(* A slip: only Orchard notes are made change. *)
MarkOrchardChange(w, t) ==
  IF FundsSpentIn(w, t) = {} THEN w
  ELSE [w EXCEPT ![t].notes =
          [p \in DOMAIN @ |-> IF p = "o" THEN [@[p] EXCEPT !.change = TRUE] ELSE @[p]]]

CheckNotesMarkChange(w, t) ==
  IF FundsSpentIn(w, t) = {} THEN w
  ELSE [w EXCEPT ![t].notes =
          [p \in DOMAIN @ |-> IF p = "t" THEN @[p] ELSE [@[p] EXCEPT !.change = TRUE]]]

AddNewTaddrOutput(w, t, height, unconfirmed) ==
  LET g == GetOrCreateTx(w, t, height, unconfirmed)
  IN IF Known(g, <<t, "t">>) THEN g ELSE SetNote(g, <<t, "t">>, NewNote(TRUE, NoWitness, FALSE))

MarkTxidUtxoSpent(w, n, spender, height) ==
  IF Known(w, n)
    THEN SetNote(w, n, [NoteOf(w, n) EXCEPT !.spent = spender, !.at = height, !.pending = NoTx])
    ELSE w

(* A slip: the total of the transparent funds replaces the others. *)
AddTaddrSpentOnly(w, t, height, unconfirmed, utxos) ==
  CheckNotesMarkChange([GetOrCreateTx(w, t, height, unconfirmed) EXCEPT ![t].paid = utxos], t)

AddTaddrSpent(w, t, height, unconfirmed, utxos) ==
  LET g == GetOrCreateTx(w, t, height, unconfirmed)
  IN CheckNotesMarkChange([g EXCEPT ![t].paid = {n \in @ : n[2] # "t"} \cup utxos], t)

(* mark_txid_s_nf_spent, mark_txid_o_nf_spent: the note must be there *)
MarkTxidNfSpent(w, n, spender, height) ==
  SetNote(w, n, [NoteOf(w, n) EXCEPT !.spent = spender, !.at = height, !.pending = NoTx])

(* add_new_s_spent, add_new_o_spent *)
AddNewSpent(w, t, height, unconfirmed, n) ==
  LET g == [GetOrCreateTx(w, t, height, unconfirmed)
              EXCEPT ![t].block = height, ![t].paid = @ \cup {n}]
      marked == CheckNotesMarkChange(g, t)
  IN IF unconfirmed \/ ~Known(marked, n) THEN marked
     ELSE SetNote(marked, n, [NoteOf(marked, n) EXCEPT !.spent = t, !.at = height])

AddPendingNote(w, t, height) ==
  LET g == [GetOrCreateTx(w, t, height, TRUE) EXCEPT ![t].block = height]
  IN IF Known(g, <<t, "s">>) THEN g
     ELSE SetNote(g, <<t, "s">>, NewNote(FALSE, NoWitness, FundsSpentIn(w, t) # {}))

AddNewOrchardNote(w, t, height) ==
  LET g == [GetOrCreateTx(w, t, height, FALSE) EXCEPT ![t].block = height]
  IN IF Known(g, <<t, "o">>) THEN g
     ELSE SetNote(g, <<t, "o">>, NewNote(TRUE, NoWitness, FundsSpentIn(w, t) # {}))

AddNewSaplingNote(w, t, height) ==
  LET g == [GetOrCreateTx(w, t, height, FALSE) EXCEPT ![t].block = height]
      n == <<t, "s">>
  IN IF Known(g, n) /\ NoteOf(g, n).keyed
       THEN SetNote(g, n, [NoteOf(g, n) EXCEPT !.witness = FirstWitness(height)])
       ELSE SetNote(g, n, NewNote(TRUE, FirstWitness(height), FundsSpentIn(w, t) # {}))

(* Slips: only reservations are given back, only spends are. *)
RollBackPending(p, d, removed) ==
  [d EXCEPT !.pending = IF @ \in removed THEN NoTx ELSE @]
RollBackSpent(p, d, removed) ==
  [d EXCEPT !.spent = IF @ \in removed THEN NoTx ELSE @,
            !.at    = IF d.spent \in removed THEN 0 ELSE @]

(* What remove_txids undoes on one note; it leaves Orchard notes alone. *)
RollBack(p, d, removed) ==
  IF p = "o" THEN d
  ELSE [d EXCEPT !.spent   = IF @ \in removed THEN NoTx ELSE @,
                 !.at      = IF d.spent \in removed THEN 0 ELSE @,
                 !.pending = IF @ \in removed THEN NoTx ELSE @]

RemoveTxids(w, removed) ==
  [t \in DOMAIN w \ removed |->
     [w[t] EXCEPT !.notes = [p \in DOMAIN @ |-> RollBack(p, @[p], removed)]]]

(* A slip: the block below goes, too. *)
RemoveTxnsBelowToo(w, height) ==
  RemoveTxids(w, {t \in DOMAIN w : w[t].block + 1 >= height})

RemoveTxnsAtHeight(w, height) ==
  LET rest == RemoveTxids(w, {t \in DOMAIN w : w[t].block >= height})
  IN [t \in DOMAIN rest |-> [rest[t] EXCEPT !.notes =
        [p \in DOMAIN @ |-> PopNote(@[p], height)]]]

ClearExpiredMempool(w, latest) ==
  RemoveTxids(w, {t \in DOMAIN w : w[t].unconfirmed /\ w[t].block < latest - MaxReorg})

ClearOldWitnesses(w, latest) ==
  [t \in DOMAIN w |-> [w[t] EXCEPT !.notes =
     [p \in DOMAIN @ |->
        IF p = "s" /\ @[p].spent # NoTx /\ @[p].at < latest - MaxReorg
          THEN [@[p] EXCEPT !.witness = NoWitness] ELSE @[p]]]]

(* Slips: the notes of the newest block are left out; spent notes are not. *)
NotesBefore(w, before) ==
  {n \in Note : /\ n[2] = "s" /\ Known(w, n)
                /\ ~w[n[1]].unconfirmed /\ w[n[1]].block < before
                /\ Witnesses(NoteOf(w, n).witness) > 0 /\ NoteOf(w, n).spent = NoTx}
NotesSpentOrNot(w, before) ==
  {n \in Note : /\ n[2] = "s" /\ Known(w, n)
                /\ ~w[n[1]].unconfirmed /\ w[n[1]].block <= before
                /\ Witnesses(NoteOf(w, n).witness) > 0}

(* get_notes_for_updating *)
NotesForUpdating(w, before) ==
  {n \in Note : /\ n[2] = "s" /\ Known(w, n)
                /\ ~w[n[1]].unconfirmed /\ w[n[1]].block <= before
                /\ Witnesses(NoteOf(w, n).witness) > 0 /\ NoteOf(w, n).spent = NoTx}

(* get_unspent_s_nullifiers, get_unspent_o_nullifiers *)
UnspentNullifiers(w, pool) ==
  {n \in Note : /\ n[2] = pool /\ Known(w, n)
                /\ NoteOf(w, n).keyed /\ NoteOf(w, n).spent = NoTx}

(* A slip: reserved notes are offered again. *)
SelectUnspent(w, top) ==
  {n \in Note : /\ Known(w, n) /\ NoteOf(w, n).spent = NoTx
                /\ n[2] = "s" => Witnesses(NoteOf(w, n).witness) > AnchorOffset
                /\ n[2] = "o" => NoteOf(w, n).placed /\ w[n[1]].block + AnchorOffset <= top}

(* What select_notes_and_utxos may choose from.  UTXOs need no confirmation. *)
Selectable(w, top) ==
  {n \in Note : /\ Known(w, n)
                /\ NoteOf(w, n).spent = NoTx /\ NoteOf(w, n).pending = NoTx
                /\ n[2] = "s" => Witnesses(NoteOf(w, n).witness) > AnchorOffset
                /\ n[2] = "o" => NoteOf(w, n).placed /\ w[n[1]].block + AnchorOffset <= top}

Transparent(t) == "t" \in Outs[t] \/ \E n \in Spends[t] : n[2] = "t"

Init ==
  /\ chain = <<{}>> /\ synced = <<{}>> /\ shared = 1
  /\ mempool = {} /\ expiry = [t \in Txs |-> 0] /\ reorgs = 0
  /\ txns = <<>> /\ saved = <<>>
  /\ phase = "idle" /\ view = <<>> /\ left = 1 /\ keep = 1
  /\ detect = {} /\ oldNotes = FALSE /\ upd = {} /\ found = {}
  /\ taddrQ = {} /\ fullQ = {} /\ scans = {} /\ streamQ = <<>> /\ sending = NoTx

-----------------------------------------------------------------------------
(* The server *)

(* Could t be mined after chain c and the transactions in others? *)
Valid(t, c, others) ==
  /\ t \notin Mined(c) /\ Len(c) < expiry[t]
  /\ \A n \in Spends[t] : /\ n[1] \in Mined(c) \/ (n[2] = "t" /\ n[1] \in others)
                          /\ SpendersIn(c, n) = {}

Conflict(t, u) == t # u /\ Spends[t] \cap Spends[u] # {}

Streamed == {streamQ[i] : i \in 1..Len(streamQ)} \cup
            {[tx |-> s.tx, height |-> s.height] : s \in {r \in scans : r.by = "mempool"}}
StreamedTxs == {r.tx : r \in Streamed}

(* A block arrives.  It evicts what it contains, what it conflicts with and  *)
(* what has expired from the mempool.                                        *)
Mine(S) ==
  /\ Len(chain) < MaxHeight
  /\ \A t \in S : /\ Valid(t, chain, S)
                  /\ \A u \in S : ~Conflict(t, u)
  /\ chain' = Append(chain, S)
  /\ mempool' = {t \in mempool : Valid(t, Append(chain, S), mempool)}
  /\ LateMempool \/ StreamedTxs \subseteq mempool'
  /\ UNCHANGED <<expiry, reorgs, shared, txns, synced, saved, syncVars, scans, streamQ, sending>>

(* The server goes back to its first k blocks; some of the transactions it   *)
(* drops return to the mempool.                                               *)
Reorg(k, back) ==
  /\ reorgs < MaxReorgs /\ k < Len(chain)
  /\ k + MaxDepth >= Len(synced) /\ k + MaxDepth >= Len(view)
  /\ chain' = SubSeq(chain, 1, k)
  /\ shared' = Smaller(shared, k)
  /\ reorgs' = reorgs + 1
  /\ back \subseteq Mined(chain) \ Mined(chain')
  /\ mempool' = {t \in mempool \cup back : Valid(t, chain', mempool \cup back)}
  /\ UNCHANGED <<expiry, txns, synced, saved, syncVars, scans, streamQ, sending>>

(* Somebody else makes a transaction. *)
Arrive(t) ==
  /\ t \notin Sent /\ expiry[t] = 0
  /\ expiry' = [expiry EXCEPT ![t] = Len(chain) + 1 + ExpiryDelta]
  /\ \A n \in Spends[t] : /\ n[1] \in Mined(chain) \/ (n[2] = "t" /\ n[1] \in mempool)
                          /\ SpendersIn(chain, n) = {}
  /\ \A u \in mempool : ~Conflict(t, u)
  /\ mempool' = mempool \cup {t}
  /\ UNCHANGED <<chain, reorgs, shared, txns, synced, saved, syncVars, scans, streamQ, sending>>

(* get_mempool_stream delivers a transaction to monitor_mempool. *)
Stream(t) ==
  /\ Monitor /\ t \in mempool /\ t \notin StreamedTxs
  /\ streamQ' = Append(streamQ, [tx |-> t, height |-> Len(chain)])
  /\ UNCHANGED <<serverVars, shared, txns, synced, saved, syncVars, scans, sending>>

-----------------------------------------------------------------------------
(* A sync *)

(* start_sync and the block half of start_sync_batch: the wallet is behind, *)
(* or the server has other blocks.                                          *)
StartSync ==
  /\ phase = "idle"
  /\ Len(chain) >= Len(synced)
  /\ Len(chain) > Len(synced) \/ shared < Len(synced)
  /\ phase' = "reorg" /\ view' = chain
  /\ keep' = Smaller(shared, Len(synced)) /\ shared' = Len(chain)
  /\ UNCHANGED <<serverVars, txns, synced, saved, left, queueVars, scans, streamQ, sending>>

(* invalidate_block, for the highest orphaned block first *)
InvalidateBlock ==
  /\ phase = "reorg" /\ left > keep
  /\ txns' = RemoveTxnsAtHeight(txns, left)
  /\ left' = left - 1
  /\ UNCHANGED <<serverVars, shared, synced, saved, phase, view, keep, queueVars, scans, streamQ,
                 sending>>

NewTxs == UNION {view[h] : h \in (keep + 1)..Len(view)}

(* Reorgs are done: every processor of the batch gets its work. *)
BlocksDone ==
  /\ phase = "reorg" /\ left = keep
  /\ phase' = "scan"
  /\ detect' = {n \in NewTxs \X {"s", "o"} : n[2] \in Outs[n[1]]}
  /\ oldNotes' = TRUE
  /\ taddrQ' = {t \in NewTxs : Transparent(t)}
  /\ UNCHANGED <<serverVars, shared, txns, synced, saved, view, left, keep, upd, found, fullQ,
                 scans, streamQ, sending>>

(* Transactions without a transparent part only get memos in a full scan. *)
FullScan(t) == {u \in {t} : Transparent(u)}

(* update_notes has the transaction of a new note scanned, too. *)
FreshScan(n) == IF n[2] = "s" /\ n[1] \in NewTxs THEN FullScan(n[1]) ELSE {}

(* trial_decrypt_batch finds an output of a new block. *)
Detect(n) ==
  /\ phase = "scan" /\ n \in detect
  /\ detect' = detect \ {n}
  /\ LET h == HeightIn(view, n[1])
     IN IF n[2] = "o"
          THEN /\ txns' = AddNewOrchardNote(txns, n[1], h)
               /\ fullQ' = fullQ \cup FullScan(n[1])
               /\ UNCHANGED upd
          ELSE /\ txns' = AddNewSaplingNote(txns, n[1], h)
               /\ upd' = upd \cup {[note |-> n, at |-> h]}
               /\ UNCHANGED fullQ
  /\ UNCHANGED <<serverVars, shared, synced, saved, phase, view, left, keep, oldNotes, found, taddrQ,
                 scans, streamQ, sending>>

(* update_notes, task h0: the notes from before the batch *)
ReadOldNotes ==
  /\ phase = "scan" /\ oldNotes
  /\ oldNotes' = FALSE
  /\ upd' = upd \cup {[note |-> n, at |-> keep + 1] : n \in NotesForUpdating(txns, keep)}
  /\ UNCHANGED <<serverVars, shared, txns, synced, saved, phase, view, left, keep, detect, found,
                 taddrQ, fullQ, scans, streamQ, sending>>

(* A slip: the search begins one block too high. *)
SpendingTxsAbove(u) == {y \in NewTxs : u.note \in Spends[y] /\ HeightIn(view, y) > u.at}

(* is_nf_spent: the blocks of the batch, from height u.at up *)
SpendingTxs(u) == {y \in NewTxs : u.note \in Spends[y] /\ HeightIn(view, y) >= u.at}

(* A worker of update_notes, or a step of the Orchard pass, finds the spend. *)
LookUpSpent(u) ==
  /\ u \in upd
  /\ upd' = upd \ {u}
  /\ \E y \in SpendingTxs(u) :
       /\ txns' = MarkTxidNfSpent(txns, u.note, y, HeightIn(view, y))
       /\ found' = found \cup {[note |-> u.note, spender |-> y]}
  /\ UNCHANGED <<serverVars, shared, synced, saved, phase, view, left, keep, detect, oldNotes, taddrQ,
                 fullQ, scans, streamQ, sending>>

(* A worker finds no spend and updates the witnesses, a new note's to the   *)
(* end of its block first.  wait_for_block waits for the block after the    *)
(* newest witness; a batch never brings a block below its first.            *)
LookUpUnspent(u) ==
  /\ u \in upd /\ SpendingTxs(u) = {}
  /\ upd' = upd \ {u}
  /\ LET start == IF u.note[1] \in NewTxs THEN [FirstWitness(u.at) EXCEPT !.whole = TRUE]
                  ELSE NoteOf(txns, u.note).witness
     IN /\ start.top >= keep
        /\ txns' = SetNote(txns, u.note,
                     [NoteOf(txns, u.note) EXCEPT !.witness = UpdateAfterBlock(start, Len(view))])
  /\ fullQ' = fullQ \cup FreshScan(u.note)
  /\ UNCHANGED <<serverVars, shared, synced, saved, phase, view, left, keep, detect, oldNotes, found,
                 taddrQ, scans, streamQ, sending>>

(* ... and record the spend with the transaction that made it. *)
RecordSpend(f) ==
  /\ f \in found
  /\ found' = found \ {f}
  /\ txns' = AddNewSpent(txns, f.spender, HeightIn(view, f.spender), FALSE, f.note)
  /\ fullQ' = fullQ \cup FullScan(f.spender) \cup FreshScan(f.note)
  /\ UNCHANGED <<serverVars, shared, synced, saved, phase, view, left, keep, detect, oldNotes, upd,
                 taddrQ, scans, streamQ, sending>>

(* update_orchard_spends_and_witnesses: positions for the new notes, and the *)
(* spends of those that are unspent when it starts                           *)
OrchardPass ==
  /\ phase = "scan"
  /\ detect = {} /\ ~oldNotes /\ upd = {} /\ found = {}
  /\ phase' = "orchard"
  /\ upd' = {u \in [note : UnspentNullifiers(txns, "o"), at : {keep + 1}] : SpendingTxs(u) # {}}
  /\ txns' = [t \in DOMAIN txns |-> [txns[t] EXCEPT !.notes =
                [p \in DOMAIN @ |-> IF p = "o" /\ t \in NewTxs
                                      THEN [@[p] EXCEPT !.placed = TRUE] ELSE @[p]]]]
  /\ UNCHANGED <<serverVars, shared, synced, saved, view, left, keep, detect, oldNotes, found,
                 taddrQ, fullQ, scans, streamQ, sending>>

(* The end of start_sync_batch, and the save that follows it *)
FinishSync ==
  /\ phase = "orchard" /\ upd = {} /\ found = {} /\ taddrQ = {} /\ fullQ = {}
  /\ \A s \in scans : s.by = "mempool"
  /\ txns' = ClearExpiredMempool(ClearOldWitnesses(txns, Len(view)), Len(view))
  /\ saved' = txns'
  /\ synced' = view
  /\ phase' = "idle" /\ view' = <<>> /\ left' = Len(view) /\ keep' = Len(view)
  /\ UNCHANGED <<serverVars, shared, queueVars, scans, streamQ, sending>>

-----------------------------------------------------------------------------
(* scan_full_tx.  A call goes through the steps "outputs", "inputs", "mark"  *)
(* (only with UTXOs to mark), "spends" and "notes" (only when unconfirmed).  *)

NewScan(by, t, height, unconfirmed) ==
  [by |-> by, tx |-> t, height |-> height, unconfirmed |-> unconfirmed,
   step |-> "outputs", utxos |-> {}, toMark |-> {}]

(* A slip: the streams of the addresses are not merged by height. *)
Unordered(t, u) == FALSE

(* The height order of the transparent transactions *)
Before(t, u) ==
  \/ HeightIn(view, t) < HeightIn(view, u)
  \/ /\ HeightIn(view, t) = HeightIn(view, u)
     /\ \E i, j \in 1..Len(TxOrder) : i < j /\ TxOrder[i] = t /\ TxOrder[j] = u

(* One transparent transaction at a time, in order *)
ScanTaddr(t) ==
  /\ t \in taddrQ /\ \A u \in taddrQ : ~Before(u, t)
  /\ \A s \in scans : s.by # "taddr"
  /\ taddrQ' = taddrQ \ {t}
  /\ scans' = scans \cup {NewScan("taddr", t, HeightIn(view, t), FALSE)}
  /\ UNCHANGED <<serverVars, shared, txns, synced, saved, phase, view, left, keep, detect, oldNotes,
                 upd, found, fullQ, streamQ, sending>>

(* Downloaded transactions, each in a task of its own *)
ScanFull(t) ==
  /\ t \in fullQ
  /\ fullQ' = fullQ \ {t}
  /\ scans' = scans \cup {NewScan("full", t, HeightIn(view, t), FALSE)}
  /\ UNCHANGED <<serverVars, shared, txns, synced, saved, phase, view, left, keep, detect, oldNotes,
                 upd, found, taddrQ, streamQ, sending>>

(* Streamed transactions, one at a time *)
ScanStreamed ==
  /\ streamQ # <<>>
  /\ \A s \in scans : s.by # "mempool"
  /\ scans' = scans \cup {NewScan("mempool", Head(streamQ).tx, Head(streamQ).height, TRUE)}
  /\ streamQ' = Tail(streamQ)
  /\ UNCHANGED <<serverVars, shared, txns, synced, saved, syncVars, sending>>

At(s, step) == s \in scans /\ s.step = step
Goto(s, r)  == scans' = (scans \ {s}) \cup {r}

(* The end of a call; a send releases sync_lock after its own. *)
Done(s) ==
  /\ scans' = scans \ {s}
  /\ phase' = IF s.by = "send" THEN "idle" ELSE phase
  /\ sending' = IF s.by = "send" THEN NoTx ELSE sending

Scanning == UNCHANGED <<serverVars, shared, synced, saved, view, left, keep, queueVars, streamQ>>
InScan   == Scanning /\ UNCHANGED <<phase, sending>>

(* Step 1: the transparent outputs *)
ScanOutputs(s) ==
  /\ At(s, "outputs")
  /\ txns' = IF "t" \in Outs[s.tx]
               THEN AddNewTaddrOutput(txns, s.tx, s.height, s.unconfirmed) ELSE txns
  /\ Goto(s, [s EXCEPT !.step = "inputs"])
  /\ InScan

(* Step 2, under the read lock: which of the wallet's UTXOs are spent? *)
ScanInputs(s) ==
  /\ At(s, "inputs")
  /\ LET mine == {n \in Spends[s.tx] : n[2] = "t" /\ Known(txns, n)}
     IN \/ mine # {} /\ Goto(s, [s EXCEPT !.step = "mark", !.utxos = mine, !.toMark = mine])
                     /\ InScan
        \/ mine = {} /\ s.unconfirmed /\ Goto(s, [s EXCEPT !.step = "spends"]) /\ InScan
        \/ mine = {} /\ ~s.unconfirmed /\ Done(s) /\ Scanning
  /\ UNCHANGED txns

(* ... marked later, one at a time *)
MarkUtxo(s) ==
  /\ At(s, "mark")
  /\ \E n \in s.toMark :
       /\ txns' = MarkTxidUtxoSpent(txns, n, s.tx, s.height)
       /\ Goto(s, [s EXCEPT !.toMark = @ \ {n}])
  /\ InScan

(* ... and their total added to the transaction *)
RecordUtxos(s) ==
  /\ At(s, "mark") /\ s.toMark = {}
  /\ txns' = AddTaddrSpent(txns, s.tx, s.height, s.unconfirmed, s.utxos)
  /\ \/ s.unconfirmed /\ Goto(s, [s EXCEPT !.step = "spends"]) /\ InScan
     \/ ~s.unconfirmed /\ Done(s) /\ Scanning

(* Step 3: which of our unspent Sapling notes are spent? *)
ScanSpends(s) ==
  /\ At(s, "spends")
  /\ Goto(s, [s EXCEPT !.step = "notes", !.toMark = Spends[s.tx] \cap UnspentNullifiers(txns, "s")])
  /\ InScan /\ UNCHANGED txns

(* ... recorded with the transaction, but not on the notes *)
RecordSpends(s) ==
  /\ At(s, "notes")
  /\ \E n \in s.toMark :
       /\ txns' = AddNewSpent(txns, s.tx, s.height, TRUE, n)
       /\ Goto(s, [s EXCEPT !.toMark = @ \ {n}])
  /\ InScan

(* Step 4a.  Step 5 repeats check_notes_mark_change, which every addition of *)
(* a spend has already done.                                                 *)
ScanNotes(s) ==
  /\ At(s, "notes") /\ s.toMark = {}
  /\ txns' = IF "s" \in Outs[s.tx] THEN AddPendingNote(txns, s.tx, s.height) ELSE txns
  /\ Done(s) /\ Scanning

-----------------------------------------------------------------------------
(* A send, a save, a restart *)

(* send_to_address_internal up to the broadcast, when the server accepts.    *)
(* Every UTXO is selected, and as many notes as are needed.                  *)
Broadcast(t) ==
  /\ phase = "idle" /\ t \in Sent /\ expiry[t] = 0
  /\ LET free == Selectable(txns, Len(synced))
     IN /\ Spends[t] # {} /\ Spends[t] \subseteq free
        /\ {n \in free : n[2] = "t"} \subseteq Spends[t]
  /\ expiry' = [expiry EXCEPT ![t] = Len(synced) + 1 + ExpiryDelta]
  /\ Len(chain) < expiry'[t]
  /\ \A n \in Spends[t] : /\ n[1] \in Mined(chain) \/ (n[2] = "t" /\ n[1] \in mempool)
                          /\ SpendersIn(chain, n) = {}
  /\ \A u \in mempool : ~Conflict(t, u)
  /\ mempool' = mempool \cup {t}
  /\ phase' = "send" /\ sending' = t
  /\ UNCHANGED <<chain, reorgs, shared, txns, synced, saved, view, left, keep, queueVars, scans, streamQ>>

(* Mark what was selected, then scan the transaction as unconfirmed. *)
MarkSelected ==
  /\ phase = "send"
  /\ txns' = [t \in DOMAIN txns |-> [txns[t] EXCEPT !.notes =
                [p \in DOMAIN @ |-> IF <<t, p>> \in Spends[sending]
                                      THEN [@[p] EXCEPT !.pending = sending] ELSE @[p]]]]
  /\ phase' = "sendscan"
  /\ scans' = scans \cup {NewScan("send", sending, Len(synced) + 1, TRUE)}
  /\ UNCHANGED <<serverVars, shared, synced, saved, view, left, keep, queueVars, streamQ, sending>>

(* do_save(true): waits for sync_lock *)
Save ==
  /\ phase = "idle" /\ saved # txns
  /\ saved' = txns
  /\ UNCHANGED <<serverVars, shared, txns, synced, syncVars, scans, streamQ, sending>>

(* What is left of a wallet after write and read: all of it *)
Loaded(w) == w

(* The program stops at any point and starts again from the file.  Every end *)
(* of a sync saves, so the file's blocks are the ones synced last.           *)
Restart ==
  /\ Restarts
  /\ txns' = Loaded(saved) /\ saved' = txns'
  /\ shared' = IF phase \in {"reorg", "scan", "orchard"} THEN Smaller(shared, keep) ELSE shared
  /\ phase' = "idle" /\ view' = <<>> /\ left' = Len(synced) /\ keep' = Len(synced)
  /\ detect' = {} /\ oldNotes' = FALSE /\ upd' = {} /\ found' = {}
  /\ taddrQ' = {} /\ fullQ' = {} /\ scans' = {} /\ streamQ' = <<>> /\ sending' = NoTx
  /\ UNCHANGED <<serverVars, synced>>

Server == \/ \E S \in SUBSET Txs : Mine(S)
          \/ \E k \in 1..Len(chain), back \in SUBSET Txs : Reorg(k, back)
          \/ \E t \in Txs : Arrive(t) \/ Stream(t)

Sync == \/ StartSync \/ InvalidateBlock \/ BlocksDone \/ ReadOldNotes \/ OrchardPass \/ FinishSync
        \/ \E n \in detect : Detect(n)
        \/ \E u \in upd : LookUpSpent(u) \/ LookUpUnspent(u)
        \/ \E f \in found : RecordSpend(f)
        \/ \E t \in taddrQ : ScanTaddr(t)
        \/ \E t \in fullQ : ScanFull(t)

ScanStep(s) == \/ ScanOutputs(s) \/ ScanInputs(s) \/ MarkUtxo(s) \/ RecordUtxos(s)
               \/ ScanSpends(s) \/ RecordSpends(s) \/ ScanNotes(s)

Scan == ScanStreamed \/ \E s \in scans : ScanStep(s)

User == \/ \E t \in Sent : Broadcast(t)
        \/ MarkSelected \/ Save \/ Restart

Next == Server \/ Sync \/ Scan \/ User
Spec == Init /\ [][Next]_vars

(* Spawned tasks are run, and the end of a batch is reached when they end.   *)
FairSpec == /\ Spec /\ WF_vars(Sync)
            /\ WF_vars(\E s \in scans : s.by # "mempool" /\ ScanStep(s))

-----------------------------------------------------------------------------
(* Properties *)

(* Nobody is in the middle of changing the wallet, and the server still has  *)
(* the blocks of the last sync.                                              *)
AtRest == phase = "idle" /\ scans = {} /\ shared = Len(synced)

WalletNotes == {n \in Note : Known(txns, n)}

(* After a sync, every transaction of the wallet's chain that pays or spends *)
(* its money is in the wallet, confirmed and at its height, whatever reorgs, *)
(* mempool sightings and expiries came before (get_or_create_tx).            *)
NothingLost ==
  AtRest => \A t \in Mined(synced) :
              Outs[t] # {} \/ Spends[t] # {} =>
                /\ t \in DOMAIN txns /\ ~txns[t].unconfirmed
                /\ txns[t].block = HeightIn(synced, t)
                /\ DOMAIN txns[t].notes = Outs[t]

(* After a sync, a note the wallet's chain spends is marked spent by the     *)
(* transaction that spends it: neither the batch that brings the note, nor   *)
(* the order of update_notes and the full scans, nor a reorg hides a spend.  *)
SpendsSeen ==
  AtRest => \A n \in WalletNotes :
              n[1] \in Mined(synced) =>
                \A y \in SpendersIn(synced, n) : NoteOf(txns, n).spent = y

(* A note is marked spent only by a transaction of the wallet's chain, a UTXO *)
(* also by one that is not mined yet: a reorg and an expiry give both back.   *)
SpendsReal ==
  AtRest => \A n \in WalletNotes :
    LET t == NoteOf(txns, n).spent
    IN \/ t = NoTx \/ t \in SpendersIn(synced, n)
       \/ n[2] = "t" /\ t \in DOMAIN txns /\ txns[t].unconfirmed

(* What a note is spent or reserved by is in the wallet: remove_txids undoes *)
(* the marks of what it removes.                                             *)
SpendersKept ==
  AtRest => \A n \in WalletNotes :
              {NoteOf(txns, n).spent, NoteOf(txns, n).pending} \subseteq DOMAIN txns \cup {NoTx}

(* The spent totals of a mined transaction count each note it spends.        *)
FundsAccounted ==
  AtRest => \A t \in Mined(synced) \cap DOMAIN txns : txns[t].paid = Spends[t]

(* A shielded note is change exactly if its transaction spends the wallet's  *)
(* money, in whichever order outputs and spends are found.                   *)
ChangeMarked ==
  AtRest => \A n \in WalletNotes :
              n[2] # "t" => (NoteOf(txns, n).change <=> txns[n[1]].paid # {})

(* A Sapling note that may still be spent has witnesses, also after a reorg  *)
(* takes back its spend: as many are kept as the longest reorg can pop, and   *)
(* one more (update_witness_after_block), and clear_old_witnesses waits until *)
(* no reorg can take back the spend.                                         *)
UnspentKeepsWitness ==
  \A n \in WalletNotes :
    n[2] = "s" /\ NoteOf(txns, n).keyed /\ NoteOf(txns, n).spent = NoTx
      => Witnesses(NoteOf(txns, n).witness) > 0

(* After a sync, the newest witness of a note that may be spent is right for *)
(* the newest block: it has seen every output up to there.                   *)
WitnessCurrent ==
  AtRest => \A n \in WalletNotes :
              n[2] = "s" /\ NoteOf(txns, n).keyed /\ NoteOf(txns, n).spent = NoTx
                => NoteOf(txns, n).witness.whole /\ NoteOf(txns, n).witness.top = Len(synced)

(* The wallet never offers a note for spending that one of its own           *)
(* transactions, still waiting at the server, already spends.                *)
PendingSpendsMarked ==
  phase = "idle" =>
    \A t \in Sent \cap mempool : Spends[t] \cap Selectable(txns, Len(synced)) = {}

(* A confirmed spend is forgotten only when its block is invalidated.        *)
SpentStaysSpent ==
  [][\A n \in WalletNotes :
       NoteOf(txns, n).spent \in SpendersIn(SubSeq(synced, 1, Smaller(left, left')), n)
         => Known(txns', n) /\ NoteOf(txns', n).spent = NoteOf(txns, n).spent]_vars

(* A sync ends: none of its workers waits for a block that will not come.   *)
SyncEnds == phase = "scan" ~> phase = "idle"
=============================================================================
