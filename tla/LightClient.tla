------------------------------ MODULE LightClient ------------------------------
(***************************************************************************)
(* The commands of a light client that change its keys or its file, at      *)
(* work side by side (native/src/lib.rs, commands.rs, lightclient.rs).  The *)
(* bridge runs sync, rescan, import and send in a thread of their own, and   *)
(* every other command while the caller waits; the mempool monitor starts   *)
(* syncs.  A send changes no key and does not save: it is in SendTx.         *)
(*                                                                         *)
(* A command goes through the steps between two acquisitions of a lock: the *)
(* RwLock of the keys, held for one step only, and sync_lock, held over     *)
(* many.  A save locks an unlocked wallet again, takes sync_lock (a sync    *)
(* has it already), writes keys and transactions to a buffer, one after the *)
(* other, creates the file, which empties it, and writes the buffer.        *)
(*                                                                         *)
(* Of the transactions only those are modelled that use a transparent       *)
(* address, since they make the wallet derive more.                         *)
(***************************************************************************)
EXTENDS WalletKeys

CONSTANTS
  Background,    \* threads for sync, rescan and import, one of them the monitor's
  Imports,       \* addresses whose keys may be imported
  NewPools,      \* pools new addresses are asked for in
  UsedAddresses, \* transparent addresses of the wallet used on the chain
  NewZ, NewO,    \* Sapling and Orchard addresses of a new wallet
  MaxKeys,       \* bound: keys in one pool
  MaxBatches     \* bound: batches of a sync

User   == "user"
Tasks  == Background \cup {User}
Nobody == "nobody"

ASSUME ClientAssumption ==
  /\ User \notin Background /\ Nobody \notin Tasks
  /\ Imports \subseteq Address /\ UsedAddresses \subseteq Nat
  /\ {MaxKeys, NewZ, NewO} \subseteq Nat /\ MaxBatches \in Nat \ {0}
  /\ NewPools \subseteq {"u", "z", "t"}

VARIABLES
  running,   \* is the program running?
  keys,      \* wallet.keys
  used,      \* addresses used by transactions scanned while it was unlocked
  syncLock,  \* who holds sync_lock
  task,      \* what every thread is doing
  file,      \* the wallet file
  promised,  \* what the user was told is in the wallet: <<pool, address>>
  raced      \* were the keys encrypted or unlocked between a check and its use?

vars == <<running, keys, used, syncLock, task, file, promised, raced>>

(* A snapshot of the wallet, as written to the buffer and to the file *)
Empty == [keys |-> [NewKeys(0, 0) EXCEPT !.t = <<>>], used |-> {}]

(* cmd is the command, step what it does next, arg the address at stake, buf *)
(* the buffer of its save, grab whether that save takes sync_lock, and left  *)
(* how many batches its sync still has.                                     *)
Idle == [cmd |-> "none", step |-> "idle", arg |-> <<>>, buf |-> Empty, grab |-> TRUE, left |-> 0]
Begin(cmd, step, arg) == [Idle EXCEPT !.cmd = cmd, !.step = step, !.arg = arg]

Pool(ks, pool) == CASE pool = "u" -> ks.o [] pool = "z" -> ks.z [] pool = "t" -> ks.t

Init ==
  /\ running = TRUE
  /\ keys = NewKeys(NewZ, NewO)
  /\ used = {} /\ syncLock = Nobody
  /\ task = [p \in Tasks |-> Idle]
  /\ file = [whole |-> TRUE, keys |-> keys, used |-> {}]
  /\ promised = {} /\ raced = FALSE

At(p, step)   == running /\ task[p].step = step
Goto(p, step) == task' = [task EXCEPT ![p].step = step]
End(p)        == task' = [task EXCEPT ![p] = Idle]

(* The caller waits for its command before it gives another. *)
CallerFree == running /\ task[User] = Idle
Between(steps) == \E p \in Tasks : task[p].step \in steps

-----------------------------------------------------------------------------
(* Commands of one step: encrypt, unlock, lock, decrypt.  None of them saves. *)

KeyCommand(ks) ==
  /\ CallerFree
  /\ keys' = ks
  /\ UNCHANGED <<running, used, syncLock, task, file, promised>>

EncryptCommand ==
  /\ \E p \in Passwords : KeyCommand(Encrypt(keys, p))
  /\ raced' = (raced \/ Between({"push"}))
UnlockCommand ==
  /\ \E p \in Passwords : KeyCommand(Unlock(keys, p))
  /\ raced' = (raced \/ Between({"writeKeys"}))
LockCommand    == KeyCommand(Lock(keys)) /\ UNCHANGED raced
DecryptCommand == \E p \in Passwords : KeyCommand(RemoveEncryption(keys, p)) /\ UNCHANGED raced

-----------------------------------------------------------------------------
(* Starting the others *)

StartCommand(p, t) ==
  /\ task' = [task EXCEPT ![p] = t]
  /\ UNCHANGED <<running, keys, used, syncLock, file, promised, raced>>

(* save, quit; new, which looks at the lock first *)
SaveCommand == CallerFree /\ StartCommand(User, Begin("save", "relock1", <<>>))
NewAddressCommand ==
  /\ CallerFree /\ keys.unlocked
  /\ \E pool \in NewPools :
       /\ Len(Pool(keys, pool)) < MaxKeys
       /\ StartCommand(User, Begin("new", "derive", <<pool, 0>>))

(* sync, rescan; import, which looks at the lock first.  The monitor gives   *)
(* its command without the caller.                                          *)
SyncCommand(p)   == running /\ task[p] = Idle /\ StartCommand(p, Begin("sync", "sync", <<>>))
RescanCommand(p) == CallerFree /\ task[p] = Idle /\ StartCommand(p, Begin("rescan", "clear", <<>>))
ImportCommand(p) ==
  /\ CallerFree /\ task[p] = Idle /\ keys.unlocked
  /\ \E x \in Imports, kind \in {"tk", "sk", "vk"} :
       /\ Len(Pool(keys, IF kind = "tk" THEN "t" ELSE "z")) < MaxKeys
       /\ StartCommand(p, Begin("import", "mayImport", <<kind, x>>))

-----------------------------------------------------------------------------
(* do_new_address, and the three imports *)

Derive(p) ==
  /\ At(p, "derive")
  /\ LET pool == task[p].arg[1]
         more == Pool(AddAddress(keys, pool), pool)
     IN IF keys.unlocked
          THEN /\ keys' = AddAddress(keys, pool)
               /\ task' = [task EXCEPT ![p].step = "relock1",
                                       ![p].arg = <<pool, more[Len(more)].id>>]
          ELSE End(p) /\ UNCHANGED keys
  /\ UNCHANGED <<running, used, syncLock, file, promised, raced>>

KeyExists(kind, x) ==
  CASE kind = "tk" -> x \in Ids(keys.t)
    [] kind = "sk" -> x \in Spendable(keys.z)
    [] kind = "vk" -> x \in Ids(keys.z)

(* Spending keys only go into a wallet that is not encrypted, view keys only *)
(* into one that is not locked.  The key is looked for after that, and added *)
(* after it was not found.                                                   *)
MayImport(p) ==
  /\ At(p, "mayImport")
  /\ LET kind == task[p].arg[1]
     IN IF /\ IF kind = "vk" THEN keys.unlocked ELSE ~keys.encrypted
           /\ ~KeyExists(kind, task[p].arg[2])
          THEN Goto(p, "push") ELSE End(p)
  /\ UNCHANGED <<running, keys, used, syncLock, file, promised, raced>>

PushKey(p) ==
  /\ At(p, "push")
  /\ LET kind == task[p].arg[1]  x == task[p].arg[2]
     IN /\ keys' = CASE kind = "tk" -> AddImportedTk(keys, x)
                     [] kind = "sk" -> AddImportedSk(keys, x)
                     [] kind = "vk" -> AddImportedVk(keys, x)
        /\ task' = [task EXCEPT ![p].step = "relock1",
                                ![p].arg = <<IF kind = "tk" THEN "t" ELSE "z", x>>]
  /\ UNCHANGED <<running, used, syncLock, file, promised, raced>>

-----------------------------------------------------------------------------
(* do_sync and do_rescan *)

(* clear_state, without sync_lock *)
ClearState(p) ==
  /\ At(p, "clear")
  /\ used' = {}
  /\ Goto(p, "sync")
  /\ UNCHANGED <<running, keys, syncLock, file, promised, raced>>

LockSync(p) ==
  /\ At(p, "sync") /\ syncLock = Nobody
  /\ syncLock' = p
  /\ \E n \in 1..MaxBatches :
       task' = [task EXCEPT ![p].step = "batch", ![p].left = n, ![p].grab = FALSE]
  /\ UNCHANGED <<running, keys, used, file, promised, raced>>

(* A batch scans a transaction with an output to a transparent address.     *)
(* While the wallet is locked, no address is added for it.                  *)
FindAddress(p) ==
  /\ At(p, "batch") /\ keys.unlocked
  /\ \E n \in UsedAddresses \ used :
       /\ n \in Ids(keys.t) /\ n + Gap < MaxKeys
       /\ keys' = EnsureHdTaddresses(keys, n)
       /\ used' = used \cup {n}
  /\ UNCHANGED <<running, syncLock, task, file, promised, raced>>

(* The batch is done, and saved; or it fails, and the sync with it. *)
EndBatch(p) ==
  /\ At(p, "batch")
  /\ task' = [task EXCEPT ![p].step = "relock1", ![p].left = @ - 1]
  /\ UNCHANGED <<running, keys, used, syncLock, file, promised, raced>>
Fails(p) ==
  /\ syncLock' = IF syncLock = p THEN Nobody ELSE syncLock
  /\ End(p)
FailBatch(p) ==
  /\ At(p, "batch")
  /\ Fails(p)
  /\ UNCHANGED <<running, keys, used, file, promised, raced>>

-----------------------------------------------------------------------------
(* do_save.  When it fails, its command does nothing more. *)

(* is_encrypted, is_unlocked_for_spending, lock: three steps *)
SeeEncrypted(p) ==
  /\ At(p, "relock1")
  /\ Goto(p, IF keys.encrypted THEN "relock2" ELSE "grab")
  /\ UNCHANGED <<running, keys, used, syncLock, file, promised, raced>>
SeeUnlocked(p) ==
  /\ At(p, "relock2")
  /\ Goto(p, IF keys.unlocked THEN "relock3" ELSE "grab")
  /\ UNCHANGED <<running, keys, used, syncLock, file, promised, raced>>
LockAgain(p) ==
  /\ At(p, "relock3")
  /\ keys' = Lock(keys)
  /\ IF LockError(keys) \/ keys'.unlocked THEN Fails(p)
     ELSE Goto(p, "grab") /\ UNCHANGED syncLock
  /\ UNCHANGED <<running, used, file, promised, raced>>

(* A slip: the save of a command does not wait for a sync. *)
MayWriteAlways(p) == TRUE

(* Outside of a sync, a save waits for sync_lock. *)
MayWrite(p) == task[p].grab => syncLock = Nobody

(* LightWallet::write reads encrypted and unlocked one after the other, then *)
(* writes the keys, then the transactions.                                  *)
GrabLock(p) ==
  /\ At(p, "grab") /\ MayWrite(p)
  /\ syncLock' = p
  /\ Goto(p, IF keys.encrypted THEN "write" ELSE "writeKeys")
  /\ UNCHANGED <<running, keys, used, file, promised, raced>>

(* A slip: it is written whether it is unlocked or not. *)
WriteUnlocked(p) ==
  /\ At(p, "write")
  /\ Goto(p, "writeKeys")
  /\ UNCHANGED <<running, keys, used, syncLock, file, promised, raced>>

ReadUnlocked(p) ==
  /\ At(p, "write")
  /\ IF keys.unlocked THEN Fails(p) ELSE Goto(p, "writeKeys") /\ UNCHANGED syncLock
  /\ UNCHANGED <<running, keys, used, file, promised, raced>>
WriteKeys(p) ==
  /\ At(p, "writeKeys")
  /\ task' = [task EXCEPT ![p].step = "writeTxns", ![p].buf.keys = keys]
  /\ UNCHANGED <<running, keys, used, syncLock, file, promised, raced>>

(* When the buffer is complete the file is created, which empties it. *)
WriteTxns(p) ==
  /\ At(p, "writeTxns")
  /\ task' = [task EXCEPT ![p].step = "bytes", ![p].buf.used = used]
  /\ file' = [whole |-> FALSE, keys |-> Empty.keys, used |-> {}]
  /\ UNCHANGED <<running, keys, used, syncLock, promised, raced>>

MoreBatches(t) == t.left > 0

(* What comes after the save: the next batch, the end of the sync; the       *)
(* rescan's own save; the import's rescan, or not.                          *)
AfterSave(p) ==
  LET t    == task[p]
      done == [t EXCEPT !.buf = Empty]
  IN IF ~t.grab
       THEN IF MoreBatches(t)
              THEN syncLock' = p /\ task' = [task EXCEPT ![p] = [done EXCEPT !.step = "batch"]]
              ELSE /\ syncLock' = Nobody
                   /\ IF t.cmd = "sync" THEN End(p)
                      ELSE task' = [task EXCEPT ![p] = [done EXCEPT !.step = "relock1", !.grab = TRUE]]
       ELSE /\ syncLock' = Nobody
            /\ \/ End(p)
               \/ t.cmd = "import" /\ task' = [task EXCEPT ![p] = Begin("rescan", "clear", <<>>)]

WriteFile(p) ==
  /\ At(p, "bytes")
  /\ file' = [whole |-> TRUE, keys |-> task[p].buf.keys, used |-> task[p].buf.used]
  /\ promised' = IF task[p].cmd \in {"new", "import"} THEN promised \cup {task[p].arg} ELSE promised
  /\ AfterSave(p)
  /\ UNCHANGED <<running, keys, used, raced>>

-----------------------------------------------------------------------------
(* The program stops at any time; it starts again if it can read the file. *)

Stop ==
  /\ running
  /\ running' = FALSE
  /\ task' = [p \in Tasks |-> Idle] /\ syncLock' = Nobody
  /\ keys' = Empty.keys /\ used' = {}
  /\ UNCHANGED <<file, promised, raced>>

Launch ==
  /\ ~running /\ file.whole
  /\ running' = TRUE
  /\ keys' = ReadWallet(file.keys) /\ used' = file.used
  /\ UNCHANGED <<syncLock, task, file, promised, raced>>

-----------------------------------------------------------------------------

(* What a thread does on its way to the end of its command *)
Step(p) ==
  \/ Derive(p) \/ MayImport(p) \/ PushKey(p)
  \/ ClearState(p) \/ LockSync(p) \/ EndBatch(p) \/ FailBatch(p)
  \/ SeeEncrypted(p) \/ SeeUnlocked(p) \/ LockAgain(p) \/ GrabLock(p)
  \/ ReadUnlocked(p) \/ WriteKeys(p) \/ WriteTxns(p) \/ WriteFile(p)

Next ==
  \/ EncryptCommand \/ UnlockCommand \/ LockCommand \/ DecryptCommand
  \/ SaveCommand \/ NewAddressCommand
  \/ \E p \in Background : SyncCommand(p) \/ RescanCommand(p) \/ ImportCommand(p)
  \/ \E p \in Tasks : Step(p) \/ FindAddress(p)
  \/ Stop \/ Launch

Spec == Init /\ [][Next]_vars

-----------------------------------------------------------------------------
(* Properties *)

Knows(ks, a) == a[2] \in Ids(Pool(ks, a[1]))

(* An address or key the user was told the wallet has is in memory and in   *)
(* the file, whatever else was written meanwhile, and so it is there after   *)
(* the program was stopped (do_new_address, do_import_*, do_save).          *)
PromisedKept ==
  \A a \in promised : (running => Knows(keys, a)) /\ (file.whole => Knows(file.keys, a))

(* No order of encrypt, lock, unlock, decrypt, import, save and restart      *)
(* loses the seed or an imported key: each is there, or encrypted with the   *)
(* wallet's password, in memory and in the file.                            *)
NothingForgotten ==
  (running => Recoverable(keys)) /\ (file.whole => Recoverable(file.keys))

(* The file of an encrypted wallet holds no spending key and no seed, unless *)
(* the user was faster than a check (Keys, LightWallet::write, do_save).     *)
EncryptedFile == ~raced /\ file.whole /\ file.keys.encrypted => NoSecrets(file.keys)

(* The wallet is never locked in part only, and the password it was          *)
(* encrypted with unlocks all of it, also after a restart.                  *)
UnlockWorks ==
  LET unlocks(ks) == Whole(ks) /\ Whole(IF ks.unlocked THEN ks ELSE Unlock(ks, ks.encSeed))
  IN ~raced => (running => unlocks(keys)) /\ (file.whole => unlocks(ReadWallet(file.keys)))

(* Imports between them leave no hole in the HD addresses: all are found     *)
(* again from the seed phrase (add_oaddr, add_zaddr, add_taddr,              *)
(* ensure_hd_taddresses).                                                    *)
HdContiguous ==
  /\ running => Restorable(keys.o) /\ Restorable(keys.z) /\ Restorable(keys.t)
  /\ file.whole => Restorable(file.keys.o) /\ Restorable(file.keys.z) /\ Restorable(file.keys.t)

(* Where the wallet knows that an address was used it also knows the next    *)
(* ones, in memory and in the file, whose parts are written one after the    *)
(* other (ensure_hd_taddresses, LightWallet::write).                        *)
GapKept ==
  (running => GapAfter(keys, used)) /\ (file.whole => GapAfter(file.keys, file.used))

(* Only the holder of sync_lock writes the file, outside of a sync and in one. *)
OneWriter == \A p \in Tasks :
  task[p].step \in {"write", "writeKeys", "writeTxns", "bytes"} => syncLock = p

(* keys.rs:418-419: "in case of a disaster, we can still recover the seed".  *)
SeedOnDisk == file.whole \/ running
=============================================================================
