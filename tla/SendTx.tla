-------------------------------- MODULE SendTx --------------------------------
(***************************************************************************)
(* Sending and shielding (do_send, do_shield, send_to_address and the       *)
(* selection of notes and UTXOs in lightwallet.rs), one lock at a time, with *)
(* the amounts.  Beside it run what does not wait for sync_lock: the caller *)
(* locks the wallet or clears it for a rescan, and the mempool monitor adds  *)
(* and marks what it sees.  A sync takes sync_lock and is one step here;     *)
(* BlockSync and WalletTxns have its details.                               *)
(*                                                                         *)
(* A coin is a Sapling note or a UTXO somebody pays the wallet; it is mined  *)
(* at CoinHeight, and may be seen in the mempool before.                    *)
(***************************************************************************)
EXTENDS Integers, FiniteSets, FiniteSetsExt

CONSTANTS
  Coin, Utxos,   \* the coins, and those that are transparent
  Value,         \* [Coin -> Nat]
  CoinHeight,    \* [Coin -> Nat], where the chain has it
  Watched,       \* notes of imported viewing keys
  Senders,       \* threads of the bridge
  Amounts,       \* what one asks to send
  Fee,           \* DEFAULT_FEE
  MaxMoney,      \* above it an Amount is an error, which is unwrapped
  AnchorOffset,  \* config.anchor_offset
  Heights,       \* heights of the chain, in order, at which there is a sync
  MaxSends       \* bound: sends

Nobody  == "nobody"
NoTx    == 0
NoCoins == {}

ASSUME SendAssumption ==
  /\ Nobody \notin Senders
  /\ IsFiniteSet(Coin) /\ Utxos \subseteq Coin
  /\ Value \in [Coin -> Nat] /\ CoinHeight \in [Coin -> Nat]
  /\ Watched \subseteq Coin \ Utxos
  /\ {Fee, MaxMoney, AnchorOffset, MaxSends} \subseteq Nat
  /\ Amounts \subseteq Nat /\ Heights \subseteq Nat /\ 0 \in Heights

VARIABLES
  known,     \* the coins in the wallet's transactions
  spent,     \* those of them that are spent: notes by blocks, UTXOs by any scan
  pending,   \* the transaction a send has spent it in (unconfirmed_spent)
  sighted,   \* the height an unmined coin is recorded with, 0 for others
  top,       \* height of the wallet's newest block; the oldest is 0
  tree,      \* is there an Orchard witness tree?
  unlocked,  \* keys.unlocked
  syncLock,  \* who holds sync_lock
  progress,  \* send_progress
  task,      \* the senders
  net,       \* transactions the network has accepted: [id, coins]
  mined,     \* ids of those that are in a block
  cleared,   \* did a rescan forget pending spends?
  lost       \* has a sender not learnt that its transaction was accepted?

vars == <<known, spent, pending, sighted, top, tree, unlocked, syncLock, progress, task,
          net, mined, cleared, lost>>
wallet == <<known, spent, pending, sighted, top, tree>>
ghosts == <<cleared, lost>>

Total(coins)    == MapThenSumSet(LAMBDA c : Value[c], coins)
InputsOf(txs)   == UNION {tx.coins : tx \in txs}
Notes           == Coin \ Utxos

(* A slip: what a pending transaction spends is included. *)
UnspentOrPending == known \ spent

Unspent == {c \in known \ spent : pending[c] = NoTx}

Idle == [step |-> "idle", amount |-> 0, shield |-> FALSE, coins |-> NoCoins]

Init ==
  /\ known = {} /\ spent = {} /\ pending = [c \in Coin |-> NoTx]
  /\ sighted = [c \in Coin |-> 0]
  /\ top = 0 /\ tree = FALSE /\ unlocked = TRUE /\ syncLock = Nobody
  /\ progress = [id |-> 0, sending |-> FALSE, result |-> "none"]
  /\ task = [p \in Senders |-> Idle]
  /\ net = {} /\ mined = {} /\ cleared = FALSE /\ lost = FALSE

-----------------------------------------------------------------------------
(* Balances *)

(* get_target_height_and_anchor_offset, and the anchor made of them: at most *)
(* AnchorOffset below the next block, but not below the oldest block.        *)
TargetHeight == top + 1
AnchorAbove  == IF TargetHeight > AnchorOffset THEN TargetHeight - AnchorOffset ELSE 0
AnchorHeight == AnchorAbove - 1

(* wtx.block: a transaction that is not mined has the height it was seen at. *)
OnChain(c) == CoinHeight[c] <= top
BlockOf(c) == IF OnChain(c) THEN CoinHeight[c] ELSE sighted[c]

(* A note has a witness for its block and every one above; it has none as    *)
(* long as it is not mined, or if its key cannot spend.                      *)
Witnesses(c) == IF OnChain(c) /\ c \notin Watched THEN (top - CoinHeight[c]) + 1 ELSE 0

Verified         == {c \in Unspent \cap Notes : BlockOf(c) <= AnchorHeight}
VerifiedZBalance == Total(Verified)

(* A slip: the witnesses are not looked at. *)
SpendableByHeight == Total({c \in Verified : c \notin Watched})

SpendableZBalance == Total({c \in Verified : c \notin Watched /\ Witnesses(c) > 0})

(* UTXOs with an unconfirmed spend are counted, too. *)
TBalance == Total((known \cap Utxos) \ spent)

-----------------------------------------------------------------------------
(* Selection *)

(* A note is selected with its spending key and the witness AnchorOffset     *)
(* below the top.                                                           *)
SpendableNotes == {c \in (Unspent \cap Notes) \ Watched :
                     unlocked /\ Value[c] > 0 /\ Witnesses(c) >= AnchorOffset + 1}

(* A slip: the smallest first. *)
SmallestFirst(c, d) == Value[c] <= Value[d]

(* The order the notes are sorted by; which of two equal ones is first is    *)
(* anyone's guess.                                                          *)
LargestFirst(c, d) == Value[c] >= Value[d]

Prefixes(notes) == {P \in SUBSET notes : \A c \in P, d \in notes \ P : LargestFirst(c, d)}

(* The shortest prefix that reaches the target, or all *)
SelectSaplingNotes(target) ==
  LET enough == {P \in Prefixes(SpendableNotes) : Total(P) >= target}
  IN IF enough = {} THEN SpendableNotes
     ELSE CHOOSE P \in enough : \A Q \in enough : Cardinality(P) <= Cardinality(Q)

(* Whether they are mined is not asked. *)
SelectUtxos == Unspent \cap Utxos

(* All UTXOs; notes for the rest, unless they are enough *)
SelectNotesAndUtxos(target, tOnly) ==
  SelectUtxos \cup
    IF tOnly \/ Total(SelectUtxos) >= target THEN {}
    ELSE SelectSaplingNotes(target - Total(SelectUtxos))

(* When the notes are exactly enough, or not enough, Orchard notes are looked *)
(* for, which unwraps the tree.  There are none on this network.             *)
LooksForOrchard(target, tOnly) ==
  /\ ~tOnly /\ Total(SelectUtxos) < target
  /\ Total(SelectNotesAndUtxos(target, tOnly)) <= target

-----------------------------------------------------------------------------
(* The sender *)

At(p, step)   == task[p].step = step
Goto(p, step) == task' = [task EXCEPT ![p].step = step]

(* set_send_error, set_send_success; the lock is released. *)
Ends(p, result) ==
  /\ progress' = [progress EXCEPT !.sending = FALSE, !.result = result]
  /\ syncLock' = Nobody
  /\ task' = [task EXCEPT ![p] = Idle]

(* A slip: the lock is not released. *)
PanicsHolding(p) == Goto(p, "panicked") /\ UNCHANGED <<progress, syncLock>>

(* A panic releases it as well, and leaves the progress as it is. *)
Panics(p) ==
  /\ syncLock' = Nobody
  /\ Goto(p, "panicked")
  /\ UNCHANGED progress

(* send; "entire-verified-zbalance" is looked up before anything is locked.  *)
Send(p) ==
  /\ At(p, "idle") /\ progress.id < MaxSends
  /\ \E a \in Amounts \cup (IF VerifiedZBalance >= Fee THEN {VerifiedZBalance - Fee} ELSE {}) :
       task' = [task EXCEPT ![p] = [Idle EXCEPT !.step = "wait", !.amount = a]]
  /\ UNCHANGED <<wallet, unlocked, syncLock, progress, net, mined, ghosts>>

(* shield: so is the transparent balance. *)
Shield(p) ==
  /\ At(p, "idle") /\ progress.id < MaxSends /\ TBalance > Fee
  /\ task' = [task EXCEPT ![p] = [Idle EXCEPT !.step = "wait", !.amount = TBalance - Fee,
                                              !.shield = TRUE]]
  /\ UNCHANGED <<wallet, unlocked, syncLock, progress, net, mined, ghosts>>

ResetProgress(p) ==
  /\ At(p, "wait") /\ syncLock = Nobody
  /\ syncLock' = p
  /\ progress' = [id |-> progress.id + 1, sending |-> FALSE, result |-> "none"]
  /\ Goto(p, "check")
  /\ UNCHANGED <<wallet, unlocked, net, mined, ghosts>>

(* Is it unlocked; is the amount one? *)
Check(p) ==
  /\ At(p, "check")
  /\ IF ~unlocked THEN Ends(p, "error")
     ELSE IF task[p].amount + Fee > MaxMoney THEN Panics(p)
     ELSE Goto(p, "map") /\ UNCHANGED <<progress, syncLock>>
  /\ UNCHANGED <<wallet, unlocked, net, mined, ghosts>>

(* get_taddr_to_sk_map unwraps every transparent key. *)
MapKeys(p) ==
  /\ At(p, "map")
  /\ IF unlocked THEN Goto(p, "select") /\ UNCHANGED <<progress, syncLock>> ELSE Panics(p)
  /\ UNCHANGED <<wallet, unlocked, net, mined, ghosts>>

TargetAmount(t) == t.amount + Fee

Select(p) ==
  /\ At(p, "select")
  /\ LET target == TargetAmount(task[p])
         coins  == SelectNotesAndUtxos(target, task[p].shield)
     IN IF LooksForOrchard(target, task[p].shield) /\ ~tree THEN Panics(p)
        ELSE IF Total(coins) < target THEN Ends(p, "error")
        ELSE /\ task' = [task EXCEPT ![p].step = "build", ![p].coins = coins]
             /\ progress' = [progress EXCEPT !.sending = TRUE]
             /\ UNCHANGED syncLock
  /\ UNCHANGED <<wallet, unlocked, net, mined, ghosts>>

Build(p) ==
  /\ At(p, "build")
  /\ \/ Ends(p, "error")
     \/ /\ Goto(p, "broadcast")
        /\ progress' = [progress EXCEPT !.sending = FALSE]
        /\ UNCHANGED syncLock
  /\ UNCHANGED <<wallet, unlocked, net, mined, ghosts>>

(* The network accepts the transaction, unless it spends what another one    *)
(* does; the request may fail before that, or after.                        *)
Conflicts(p) == task[p].coins \cap InputsOf(net) # {}
Accepted(p) ==
  /\ ~Conflicts(p)
  /\ net' = net \cup {[id |-> progress.id, coins |-> task[p].coins]}
Broadcast(p) ==
  /\ At(p, "broadcast")
  /\ \/ Accepted(p) /\ Goto(p, "mark") /\ UNCHANGED <<progress, syncLock, lost>>
     \/ Accepted(p) /\ Ends(p, "error") /\ lost' = TRUE
     \/ Ends(p, "error") /\ UNCHANGED <<net, lost>>
  /\ UNCHANGED <<wallet, unlocked, mined, cleared>>

(* A slip: only the UTXOs are marked. *)
MarkUtxosOnly(coins) == coins \cap Utxos

MarkedCoins(coins) == coins

(* The transactions of the selected coins are looked up, and unwrapped. *)
Mark(p) ==
  /\ At(p, "mark")
  /\ IF task[p].coins \subseteq known
       THEN /\ pending' = [c \in Coin |-> IF c \in MarkedCoins(task[p].coins) THEN progress.id ELSE pending[c]]
            /\ Goto(p, "scan") /\ UNCHANGED <<progress, syncLock>>
       ELSE Panics(p) /\ UNCHANGED pending
  /\ UNCHANGED <<known, spent, sighted, top, tree, unlocked, net, mined, ghosts>>

(* scan_full_tx of a transaction that is not mined: the UTXOs that the wallet *)
(* has are spent by it (mark_txid_utxo_spent), its notes are left alone      *)
(* (add_new_s_spent).                                                       *)
Seen(coins) == coins \cap Utxos \cap known

ScanUnconfirmed(coins) ==
  /\ spent' = spent \cup Seen(coins)
  /\ pending' = [c \in Coin |-> IF c \in Seen(coins) THEN NoTx ELSE pending[c]]
  /\ UNCHANGED <<known, sighted, top, tree>>

(* A send scans its own transaction, before it is done. *)
ScanOwn(p) ==
  /\ At(p, "scan")
  /\ ScanUnconfirmed(task[p].coins)
  /\ Ends(p, "txid")
  /\ UNCHANGED <<unlocked, net, mined, ghosts>>

-----------------------------------------------------------------------------
(* Beside it *)

LockWallet   == unlocked /\ unlocked' = FALSE /\ UNCHANGED <<wallet, syncLock, progress, task, net, mined, ghosts>>
UnlockWallet == ~unlocked /\ unlocked' = TRUE /\ UNCHANGED <<wallet, syncLock, progress, task, net, mined, ghosts>>

(* do_rescan clears the wallet before its sync waits for the lock. *)
ClearState ==
  /\ known' = {} /\ spent' = {} /\ pending' = [c \in Coin |-> NoTx]
  /\ sighted' = [c \in Coin |-> 0] /\ top' = 0 /\ tree' = FALSE
  /\ cleared' = TRUE
  /\ UNCHANGED <<unlocked, syncLock, progress, task, net, mined, lost>>

(* Transactions of the wallet that are in a block up to h: no block spends   *)
(* what is not mined.                                                       *)
MinedBy(h) == {tx \in net : tx.id \in mined /\ \A c \in tx.coins : CoinHeight[c] <= h}

(* A sync up to the next height; what is mined is spent and not pending.     *)
Sync ==
  /\ syncLock = Nobody
  /\ \E h \in Heights :
       /\ h > top /\ \A g \in Heights : g > top => h <= g
       /\ top' = h
       /\ known' = known \cup {c \in Coin : CoinHeight[c] <= h}
       /\ sighted' = [c \in Coin |-> IF CoinHeight[c] <= h THEN 0 ELSE sighted[c]]
       /\ spent' = spent \cup (known' \cap InputsOf(MinedBy(h)))
       /\ pending' = [c \in Coin |-> IF c \in spent' THEN NoTx ELSE pending[c]]
       /\ tree' = TRUE
  /\ UNCHANGED <<unlocked, syncLock, progress, task, net, mined, ghosts>>

(* The monitor scans a transaction that pays the wallet and is not mined yet: *)
(* its height is that of the server's newest block, and whether the wallet    *)
(* knows it already is not asked (add_pending_note, add_new_taddr_output).    *)
(* What is mined before it is scanned is in WalletTxns.                      *)
Sight == \E c \in Coin, h \in Heights :
  /\ ~OnChain(c) /\ h < CoinHeight[c]
  /\ known' = known \cup {c} /\ sighted' = [sighted EXCEPT ![c] = h]
  /\ UNCHANGED <<spent, pending, top, tree, unlocked, syncLock, progress, task, net, mined, ghosts>>

(* The monitor scans a transaction of the wallet that is not mined yet. *)
Monitor == \E tx \in net :
  /\ tx.id \notin mined
  /\ ScanUnconfirmed(tx.coins)
  /\ UNCHANGED <<unlocked, syncLock, progress, task, net, mined, ghosts>>

Mine == \E tx \in net :
  /\ mined' = mined \cup {tx.id}
  /\ UNCHANGED <<wallet, unlocked, syncLock, progress, task, net, ghosts>>

Step(p) ==
  \/ ResetProgress(p) \/ Check(p) \/ MapKeys(p) \/ Select(p) \/ Build(p)
  \/ Broadcast(p) \/ Mark(p) \/ ScanOwn(p)

Next ==
  \/ \E p \in Senders : Send(p) \/ Shield(p) \/ Step(p)
  \/ LockWallet \/ UnlockWallet \/ ClearState \/ Sync \/ Sight \/ Monitor \/ Mine

(* The threads run on, and sync_lock serves its waiters in order. *)
Fairness == \A p \in Senders : WF_vars(Step(p)) /\ SF_vars(ResetProgress(p))

Spec == Init /\ [][Next]_vars /\ Fairness

-----------------------------------------------------------------------------
(* Properties *)

(* A send fails for want of funds only if all that is spendable is less than *)
(* amount and fee, and takes no more notes than the amount needs             *)
(* (select_notes_and_utxos: "Select the minimum number of notes").           *)
SelectionRight == \A a \in Amounts :
  LET target == a + Fee
      taken  == SelectNotesAndUtxos(target, FALSE)
  IN /\ Total(SelectUtxos \cup SpendableNotes) >= target => Total(taken) >= target
     /\ \A other \in SUBSET SpendableNotes :
          Total(SelectUtxos \cup other) >= target =>
            Cardinality(taken \cap Notes) <= Cardinality(other)

(* The spendable balance is what an unlocked wallet can send, and no less,    *)
(* whatever is mined, seen or watched and however few blocks the wallet has: *)
(* the balance compares heights with the anchor's, the selection counts      *)
(* witnesses (spendable_zbalance, SpendableSaplingNote::from).               *)
SpendableIsSpendable == unlocked =>
  /\ SpendableZBalance = Total(SpendableNotes)
  /\ Total(SelectNotesAndUtxos(SpendableZBalance, FALSE)) >= SpendableZBalance

(* The wallet sends no transaction that conflicts with one it sent before,   *)
(* unless a rescan has made it forget that, or the answer was lost.          *)
SpendsOnce == \A p \in Senders : At(p, "broadcast") /\ Conflicts(p) => cleared \/ lost

(* A send that is reported as sent was accepted by the network, and what it  *)
(* spends is not spendable any more, until a rescan.                         *)
SentIsMarked ==
  progress.result = "txid" =>
    \E tx \in net : tx.id = progress.id /\ (tx.coins \cap Unspent = {} \/ cleared)

(* Every send comes to an end: it lets go of sync_lock.                     *)
SendEnds == \A p \in Senders : (task[p].step \in {"wait", "check"}) ~> (task[p].step \in {"idle", "panicked"})
=============================================================================
