----------------------------- MODULE SyncPipeline -----------------------------
(***************************************************************************)
(* The tasks of a sync (start_sync, start_sync_batch in lightclient.rs):    *)
(* who waits for whom, which channel ends when, which request fails, and    *)
(* who holds the two locks, sync_lock and the one around bsync_data.  A     *)
(* batch that fails returns at once; the tasks that it has started run on,  *)
(* on the same bsync_data as those of the next one.  What the tasks do to   *)
(* the wallet is in WalletTxns; reorgs are in BlockSync.                    *)
(***************************************************************************)
EXTENDS Integers, Sequences, FiniteSets

CONSTANTS
  Clients,     \* threads that call do_sync
  Blocks,      \* blocks of a batch
  NoteAt,      \* the block of a batch, as they arrive, that has a new note
  NoteSets,    \* which notes there may be, of "old" (in the wallet before the
               \* batch) and "new" (that the batch finds)
  Streams,     \* per transparent address, the heights of its transactions,
               \* relative to the wallet's top, in the server's order
  Faults,      \* requests that may fail: "latest", "tree", "blocks",
               \* "witness", "taddr", "fulltx"
  MaxSyncs,    \* bound: syncs
  MaxBatches   \* bound: batches

Nobody == "nobody"
Batch  == 1..MaxBatches

(* The server has the transactions of an address by height. *)
ASSUME PipelineAssumption ==
  /\ Nobody \notin Clients
  /\ {Blocks, NoteAt, MaxSyncs, MaxBatches} \subseteq Nat
  /\ NoteAt \in 1..Blocks /\ NoteSets \subseteq SUBSET {"old", "new"}
  /\ Streams \in Seq(Seq(0..Blocks))
  /\ \A a \in DOMAIN Streams : \A i, k \in DOMAIN Streams[a] : i < k => Streams[a][i] <= Streams[a][k]

(* What waits for a block with bsync_data's lock in hand: the witness of the *)
(* new note, the updates of the old one and of the new one, the timestamps of *)
(* the new note's transaction and of transparent ones; and the verification. *)
Work == {"witness", "old", "new", "fulltx", "taddr", "verify"}

VARIABLES
  pc,        \* where each client is
  todo,      \* batches it has left
  syncLock,  \* who holds sync_lock
  status,    \* sync_status: [id, inProgress]
  batch,     \* batches started
  job,       \* [Batch -> the tasks of the batch]
  have,      \* bsync_data's blocks: heights of the first (highest) and the last
  top,       \* the wallet's top
  syncs,     \* syncs started
  notes      \* the notes there are; it never changes

vars == <<pc, todo, syncLock, status, batch, job, have, top, syncs, notes>>

Off ==
  [base |-> 0, delivered |-> 0, earliest |-> 0,
   fetch  |-> "off", append |-> "off", taddrs |-> "off",
   work   |-> [w \in Work |-> "none"],
   sender |-> FALSE,  \* does the batch itself have a sender to the scanner?
   left   |-> << >>,  \* what each transparent stream has left
   last   |-> 0]      \* height of the last transparent transaction

NoBlocks == [first |-> 0, last |-> 0]

Init ==
  /\ pc = [p \in Clients |-> "idle"] /\ todo = [p \in Clients |-> 0]
  /\ syncLock = Nobody /\ status = [id |-> 0, inProgress |-> FALSE]
  /\ batch = 0 /\ job = [b \in Batch |-> Off]
  /\ have = NoBlocks /\ top = 0 /\ syncs = 0 /\ notes \in NoteSets

-----------------------------------------------------------------------------
(* The lock of bsync_data *)

Holders == {h \in Batch \X Work : job[h[1]].work[h[2]] \in {"hold", "nested"}}

(* It is fair: nobody reads past a writer that waits. *)
WriterWaits == \E p \in Clients : pc[p] \in {"startNew", "setup"}
ReadFree    == ~WriterWaits
WriteFree   == Holders = {}

Flowing(b) == {a \in DOMAIN job[b].left : job[b].left[a] # << >>}

(* A slip: the first stream that has one. *)
FirstStream(b) == CHOOSE a \in Flowing(b) : \A c \in Flowing(b) : a <= c

(* FetchTaddrTxns takes the lowest of the streams' next transactions. *)
LowestStream(b) == CHOOSE a \in Flowing(b) : \A c \in Flowing(b) :
  \/ Head(job[b].left[a]) < Head(job[b].left[c])
  \/ Head(job[b].left[a]) = Head(job[b].left[c]) /\ a <= c

(* wait_for_block *)
HasBlock(height) == have.last # 0 /\ have.last <= height

Height(b, w) ==
  CASE w = "old"    -> job[b].earliest
    [] w = "taddr"  -> Head(job[b].left[LowestStream(b)])
    [] OTHER        -> job[b].base + Blocks + 1 - NoteAt

SetWork(b, w, s) == job' = [job EXCEPT ![b].work[w] = s]
Ended(s)         == s \in {"ok", "err"}
WorkOver(b, w)   == job[b].work[w] \in {"none", "done", "failed"}
Outcomes(fault)  == IF fault \in Faults THEN {TRUE, FALSE} ELSE {TRUE}

-----------------------------------------------------------------------------
(* What a task's handle gives.  One that only passes work on ends when what   *)
(* sends to it has ended and the work is over:                              *)
(*   trial decryption, with the fetched blocks;                              *)
(*   UpdateNotes, with trial decryption and the notes of the wallet;         *)
(*   FetchTaddrTxns, with the streams;                                       *)
(*   FetchFullTxns, with the two above and the batch's own sender.           *)
Trial(b) ==
  IF ~Ended(job[b].fetch) \/ ~WorkOver(b, "witness") THEN "run"
  ELSE IF job[b].work["witness"] = "failed" THEN "err" ELSE "ok"

Notes(b) ==
  IF Trial(b) = "run" \/ \E w \in {"old", "new"} : ~WorkOver(b, w) \/ job[b].taddrs = "off"
    THEN "run" ELSE "ok"

Full(b) ==
  IF job[b].sender \/ Notes(b) = "run" \/ ~WorkOver(b, "fulltx") THEN "run"
  ELSE IF job[b].work["fulltx"] = "failed" THEN "err"
  ELSE IF ~Ended(job[b].taddrs) \/ ~WorkOver(b, "taddr") THEN "run" ELSE "ok"

-----------------------------------------------------------------------------
(* The client *)

Goto(p, step) == pc' = [pc EXCEPT ![p] = step]

(* start_sync returns: sync_lock is released, and then do_sync calls finish. *)
Return(p) == syncLock' = Nobody /\ Goto(p, "finish")

(* start_sync_batch returns early; what it has started runs on. *)
FailBatch(p) == Return(p) /\ job' = [job EXCEPT ![batch].sender = FALSE]

DoSync(p) ==
  /\ pc[p] = "idle" /\ syncs < MaxSyncs /\ ReadFree
  /\ syncs' = syncs + 1
  /\ Goto(p, "lock")
  /\ UNCHANGED <<todo, syncLock, status, batch, job, have, top, notes>>

TakeLock(p) ==
  /\ pc[p] = "lock" /\ syncLock = Nobody
  /\ syncLock' = p
  /\ Goto(p, "latest")
  /\ UNCHANGED <<todo, status, batch, job, have, top, syncs, notes>>

(* get_latest_block, and the batches up to it *)
GetLatest(p) ==
  /\ pc[p] = "latest"
  /\ \/ "latest" \in Faults /\ Return(p) /\ UNCHANGED todo
     \/ /\ \E n \in 0..(MaxBatches - batch) : todo' = [todo EXCEPT ![p] = n]
        /\ Goto(p, "startNew")
        /\ UNCHANGED syncLock
  /\ UNCHANGED <<status, batch, job, have, top, syncs, notes>>

StartNew(p) ==
  /\ pc[p] = "startNew" /\ WriteFree
  /\ status' = [id |-> status.id + 1, inProgress |-> TRUE]
  /\ Goto(p, "batch")
  /\ UNCHANGED <<todo, syncLock, batch, job, have, top, syncs, notes>>

(* The end of the batches, or the Orchard tree for the next one, if there is *)
(* none yet (whose parsing may fail).                                       *)
NextBatch(p) ==
  /\ pc[p] = "batch"
  /\ \/ todo[p] = 0 /\ Return(p)
     \/ todo[p] > 0 /\ "tree" \in Faults /\ Return(p)
     \/ todo[p] > 0 /\ Goto(p, "setup") /\ UNCHANGED syncLock
  /\ UNCHANGED <<todo, status, batch, job, have, top, syncs, notes>>

(* A batch keeps the id of its sync. *)
NewSyncBatch == [status EXCEPT !.inProgress = TRUE]

(* A slip: the blocks of the last batch are kept. *)
KeptBlocks == have

ClearedBlocks == NoBlocks

(* setup_for_sync, and the tasks are started. *)
SetUp(p) ==
  /\ pc[p] = "setup" /\ WriteFree
  /\ status' = NewSyncBatch
  /\ have' = ClearedBlocks
  /\ batch' = batch + 1
  /\ job' = [job EXCEPT ![batch + 1] =
       [Off EXCEPT !.base = top, !.sender = TRUE, !.fetch = "run", !.append = "run"]]
  /\ Goto(p, "blocks")
  /\ UNCHANGED <<todo, syncLock, top, syncs, notes>>

(* The blocks are there, whether all of them or not.  From here on the        *)
(* transparent transactions are fetched, the tree is verified, and the notes *)
(* updated that the wallet has from before the earliest block; with 0 that is *)
(* all of them, as 0 - 1 wraps around.                                      *)
BlocksDone(p) ==
  /\ pc[p] = "blocks" /\ Ended(job[batch].append)
  /\ job' = [job EXCEPT ![batch].taddrs = "run",
                        ![batch].work["old"] = IF "old" \in notes THEN "queued" ELSE "none",
                        ![batch].work["verify"] = "queued"]
  /\ Goto(p, "join")
  /\ UNCHANGED <<todo, syncLock, status, batch, have, top, syncs, notes>>

(* A slip: the stream fetcher is not waited for. *)
FewerTasks == {job[batch].fetch, Trial(batch), Notes(batch)}

Tasks1 == {job[batch].fetch, job[batch].taddrs, Trial(batch), Notes(batch)}

TaskFails(p) ==
  /\ pc[p] = "join" /\ "err" \in Tasks1
  /\ FailBatch(p)
  /\ UNCHANGED <<todo, status, batch, have, top, syncs, notes>>

TasksDone(p) ==
  /\ pc[p] = "join" /\ Tasks1 = {"ok"}
  /\ Goto(p, "verify")
  /\ UNCHANGED <<todo, syncLock, status, batch, job, have, top, syncs, notes>>

(* A slip: the sender to the scanner outlives the wait for it. *)
SenderKept == job[batch].sender

SenderDropped == FALSE

(* update_orchard_spends_and_witnesses takes the batch's sender with it. *)
Verified(p) ==
  /\ pc[p] = "verify" /\ job[batch].work["verify"] = "done" /\ ReadFree
  /\ job' = [job EXCEPT ![batch].sender = SenderDropped]
  /\ Goto(p, "join2")
  /\ UNCHANGED <<todo, syncLock, status, batch, have, top, syncs, notes>>

ScanFails(p) ==
  /\ pc[p] = "join2" /\ Full(batch) = "err"
  /\ FailBatch(p)
  /\ UNCHANGED <<todo, status, batch, have, top, syncs, notes>>

(* The wallet takes the blocks, and is saved. *)
BatchDone(p) ==
  /\ pc[p] = "join2" /\ Full(batch) = "ok" /\ ReadFree
  /\ top' = top + Blocks
  /\ todo' = [todo EXCEPT ![p] = @ - 1]
  /\ Goto(p, "batch")
  /\ UNCHANGED <<syncLock, status, batch, job, have, syncs, notes>>

(* After the lock: another sync may have begun. *)
Finish(p) ==
  /\ pc[p] = "finish" /\ ReadFree
  /\ status' = [status EXCEPT !.inProgress = FALSE]
  /\ Goto(p, "idle")
  /\ UNCHANGED <<todo, syncLock, batch, job, have, top, syncs, notes>>

-----------------------------------------------------------------------------
(* The tasks; they leave the clients alone. *)

clients == <<pc, todo, syncLock, status, batch, top, syncs, notes>>

(* FetchCompactBlocks: a request of blocks is passed on only as a whole.     *)
(* When it ends, trial decryption starts on the last of them.                *)
Fetch(b) ==
  /\ job[b].fetch = "run"
  /\ \E n \in IF "blocks" \in Faults THEN 0..Blocks ELSE {Blocks} :
       job' = [job EXCEPT ![b].delivered = n, ![b].fetch = IF n = Blocks THEN "ok" ELSE "err",
                          ![b].work["witness"] = IF "new" \in notes /\ n >= NoteAt THEN "queued" ELSE "none"]
  /\ UNCHANGED <<clients, have>>

(* BlockAndWitnessData::start: all that has come when the channel is closed; *)
(* the earliest height is 0 if that is nothing.                             *)
AppendBlocks(b) ==
  /\ job[b].append = "run" /\ Ended(job[b].fetch)
  /\ LET highest == job[b].base + Blocks
         lowest  == IF job[b].delivered = 0 THEN 0 ELSE highest + 1 - job[b].delivered
     IN /\ have' = IF lowest = 0 THEN have
                   ELSE [first |-> IF have = NoBlocks THEN highest ELSE have.first, last |-> lowest]
        /\ job' = [job EXCEPT ![b].earliest = lowest, ![b].append = "ok"]
  /\ UNCHANGED clients

(* get_taddr_txns: a stream per address, in the range from the earliest block. *)
(* One that breaks off looks to the merger like one that ends.              *)
InRange(b, a) ==
  LET heights == [i \in DOMAIN Streams[a] |-> job[b].base + Streams[a][i]]
      below   == {i \in DOMAIN heights : heights[i] < job[b].earliest}
  IN SubSeq(heights, Cardinality(below) + 1, Len(heights))
FetchTaddrs(b) ==
  /\ job[b].taddrs = "run"
  /\ \E cut \in [DOMAIN Streams -> 0..Blocks] :
       LET whole == \A a \in DOMAIN Streams : cut[a] = 0
           came  == [a \in DOMAIN Streams |-> SubSeq(InRange(b, a), 1, Len(InRange(b, a)) - cut[a])]
       IN /\ whole \/ "taddr" \in Faults
          /\ \A a \in DOMAIN Streams : cut[a] <= Len(InRange(b, a))
          /\ job' = [job EXCEPT ![b].taddrs = IF whole THEN "ok" ELSE "err",
                                ![b].left = came,
                                ![b].work["taddr"] = IF \A a \in DOMAIN Streams : came[a] = << >>
                                                     THEN "none" ELSE "queued"]
  /\ UNCHANGED <<clients, have>>

-----------------------------------------------------------------------------
(* The work that holds the lock of bsync_data *)

Holds(b, w) ==
  \/ job[b].work[w] = "hold"
  \/ job[b].work[w] = "queued" /\ ReadFree
Found(b, w) == Holds(b, w) /\ HasBlock(Height(b, w))

(* It waits for its block, with the lock. *)
WaitForBlock(b, w) ==
  /\ job[b].work[w] = "queued" /\ ReadFree /\ ~HasBlock(Height(b, w))
  /\ SetWork(b, w, "hold")
  /\ UNCHANGED <<clients, have>>

(* get_note_witness; the note is sent to be updated. *)
Witness(b) ==
  /\ \/ "witness" \in Faults /\ Holds(b, "witness") /\ SetWork(b, "witness", "failed")
     \/ /\ Found(b, "witness")
        /\ job' = [job EXCEPT ![b].work["witness"] = "done", ![b].work["new"] = "queued"]
  /\ UNCHANGED <<clients, have>>

(* is_nf_spent, and, with its lock in hand, update_witnesses, which takes it *)
(* once more.                                                              *)
IsSpent(b, w) ==
  /\ w \in {"old", "new"} /\ Found(b, w)
  /\ SetWork(b, w, "nested")
  /\ UNCHANGED <<clients, have>>
UpdateWitness(b, w) ==
  /\ w \in {"old", "new"} /\ job[b].work[w] = "nested" /\ ReadFree
  /\ job' = [job EXCEPT ![b].work[w] = "done", ![b].work["fulltx"] = IF w = "new" THEN "queued" ELSE @]
  /\ UNCHANGED <<clients, have>>

(* get_block_timestamp; then the transaction is fetched, without the lock.   *)
ScanFull(b) ==
  /\ Found(b, "fulltx")
  /\ \E ok \in Outcomes("fulltx") : SetWork(b, "fulltx", IF ok THEN "done" ELSE "failed")
  /\ UNCHANGED <<clients, have>>

(* One transparent transaction after the other *)
ScanTaddr(b) ==
  /\ Found(b, "taddr")
  /\ LET more == Cardinality(Flowing(b)) > 1 \/ Len(job[b].left[LowestStream(b)]) > 1
     IN job' = [job EXCEPT ![b].left[LowestStream(b)] = Tail(@), ![b].last = Height(b, "taddr"),
                           ![b].work["taddr"] = IF more THEN "queued" ELSE "done"]
  /\ UNCHANGED <<clients, have>>

(* verify_sapling_tree waits for nobody: it holds the lock for one step.     *)
(* Nothing is ever put into its verification_list, so it finds no fault.     *)
(* If its batch has failed, nobody asks for what it finds.                   *)
Verify(b) ==
  /\ job[b].work["verify"] = "queued" /\ ReadFree /\ job[b].sender
  /\ SetWork(b, "verify", "done")
  /\ UNCHANGED <<clients, have>>

-----------------------------------------------------------------------------
Client(p) ==
  \/ TakeLock(p) \/ GetLatest(p) \/ StartNew(p) \/ NextBatch(p) \/ SetUp(p)
  \/ BlocksDone(p) \/ TaskFails(p) \/ TasksDone(p) \/ Verified(p)
  \/ ScanFails(p) \/ BatchDone(p) \/ Finish(p)

Tasks(b) ==
  \/ Fetch(b) \/ AppendBlocks(b) \/ FetchTaddrs(b)
  \/ Witness(b) \/ ScanFull(b) \/ ScanTaddr(b) \/ Verify(b)
  \/ \E w \in Work \ {"verify"} : WaitForBlock(b, w) \/ IsSpent(b, w) \/ UpdateWitness(b, w)

Steps == (\E p \in Clients : Client(p)) \/ (\E b \in Batch : Tasks(b))

Next == Steps \/ \E p \in Clients : DoSync(p)

(* As long as a task can go on, one does. *)
Spec == Init /\ [][Next]_vars /\ WF_vars(Steps)

-----------------------------------------------------------------------------
(* Properties *)

(* A batch counts as done, and the wallet is saved with its blocks, only when *)
(* all its blocks have come, every note was updated, every transaction of a  *)
(* note and of an address scanned, although streams that break off look as    *)
(* if they ended; and nothing of it is left running (start_sync_batch).       *)
DoneIsWhole == [][top' # top =>
  LET j == job[batch]
  IN /\ j.delivered = Blocks /\ j.earliest = top + 1
     /\ \A w \in notes \cup {"verify"} : j.work[w] = "done"
     /\ "new" \in notes => j.work["fulltx"] = "done"
     /\ Flowing(batch) = {} /\ WorkOver(batch, "taddr")
     /\ {j.fetch, j.taddrs, Trial(batch), Notes(batch)} = {"ok"}]_vars

(* fetch_taddr_txns.rs: transparent transactions reach the scanner "strictly  *)
(* in height order", whatever address they are of and wherever a stream      *)
(* breaks off.                                                              *)
TaddrInOrder == \A b \in Batch :
  Holds(b, "taddr") => job[b].last <= Height(b, "taddr")

(* A task that finds its block does not look above the first one: the        *)
(* difference of heights it takes for an index does not wrap around          *)
(* (is_nf_spent, get_block_timestamp, get_note_witness), although blocks of   *)
(* another batch may be there by now.                                       *)
IndexInRange == \A b \in Batch, w \in Work \ {"verify"} :
  Found(b, w) => Height(b, w) <= have.first

(* A sync does not end only if tasks that an earlier one has left behind     *)
(* hold, for ever, the lock that it or the one before it waits for.          *)
Blocked == WriterWaits /\ Holders # {}
OnlyLeftoversBlock == \A p \in Clients :
  [](pc[p] = "lock" => <>(pc[p] = "idle" \/ []Blocked))

(* lightclient.rs:1346: "Mark the sync data as finished, which should clear  *)
(* everything": the next sync can run, and ends.                            *)
SyncsEnd == \A p \in Clients : (pc[p] = "lock") ~> (pc[p] = "idle")
=============================================================================
