-------------------------- MODULE SyncPipelineProofs --------------------------
(***************************************************************************)
(* Proofs about SyncPipeline, for any number of threads, batches, blocks and *)
(* addresses, with every request that may fail: a batch that counts as done *)
(* is whole (DoneIsWhole), transparent transactions are scanned in order     *)
(* (TaddrInOrder), and no task looks above the blocks there are              *)
(* (IndexInRange).                                                          *)
(***************************************************************************)
EXTENDS SyncPipeline, FiniteSums, SequenceTheorems

-----------------------------------------------------------------------------
(* The inductive invariant: types *)

InSync   == {"latest", "startNew", "batch", "setup", "blocks", "join", "verify", "join2"}
InBatch  == {"blocks", "join", "verify", "join2"}
WorkStep == {"none", "queued", "hold", "nested", "done", "failed"}

Job == [base : Nat, delivered : Nat, earliest : Nat,
        fetch : {"off", "run", "ok", "err"}, append : {"off", "run", "ok"},
        taddrs : {"off", "run", "ok", "err"}, work : [Work -> WorkStep], sender : BOOLEAN,
        left : {<< >>} \cup [DOMAIN Streams -> Seq(Nat)], last : Nat]

TypeOK ==
  /\ pc \in [Clients -> InSync \cup {"idle", "lock", "finish"}]
  /\ todo \in [Clients -> Nat] /\ batch \in 0..MaxBatches /\ top \in Nat
  /\ notes \subseteq {"old", "new"} /\ job \in [Batch -> Job] /\ have \in [first : Nat, last : Nat]

(* One batch's tasks *)

BlocksOK(j) ==
  /\ j.fetch = "ok" => j.delivered = Blocks
  /\ j.delivered <= Blocks
  /\ j.append = "ok" =>
       /\ Ended(j.fetch)
       /\ j.earliest = IF j.delivered = 0 THEN 0 ELSE j.base + Blocks + 1 - j.delivered
  /\ j.append # "ok" => j.taddrs = "off" /\ j.earliest = 0

(* The work on one note follows from the work before it. *)
WorkOK(j) ==
  /\ "new" \in notes /\ j.fetch = "ok" => j.work["witness"] # "none"
  /\ j.work["witness"] = "done" => j.work["new"] # "none"
  /\ j.work["new"] = "done" => j.work["fulltx"] # "none"
  /\ "old" \in notes /\ j.taddrs # "off" => j.work["old"] # "none"
  /\ \A w \in {"old", "new", "taddr", "verify"} : j.work[w] # "failed"

Flows(j) == {a \in DOMAIN j.left : j.left[a] # << >>}

Sorted(s) == \A i, k \in 1..Len(s) : i < k => s[i] <= s[k]

StreamsOK(j) ==
  /\ ~Ended(j.taddrs) => j.work["taddr"] = "none" /\ j.last = 0
  /\ Flows(j) # {} <=> j.work["taddr"] \in {"queued", "hold"}
  /\ j.work["taddr"] # "nested"
  /\ \A a \in Flows(j) : /\ Sorted(j.left[a]) /\ j.last <= j.left[a][1]
                         /\ \A i \in 1..Len(j.left[a]) : j.left[a][i] <= j.base + Blocks

JobsOK == \A b \in Batch : BlocksOK(job[b]) /\ WorkOK(job[b]) /\ StreamsOK(job[b])

(* The batches of the tasks and of the clients *)

Held == \A p \in Clients :
  pc[p] \in InSync =>
    /\ syncLock = p
    /\ pc[p] # "latest" =>
         todo[p] <= MaxBatches - batch + (IF pc[p] \in InBatch THEN 1 ELSE 0)
    /\ pc[p] \in InBatch \cup {"setup"} => todo[p] > 0

(* The tasks that are joined first are done, all of them well. *)
Joined(j) ==
  /\ j.fetch = "ok" /\ j.taddrs = "ok" /\ j.work["witness"] \in {"none", "done"}
  /\ j.work["old"] \in {"none", "done"} /\ j.work["new"] \in {"none", "done"}

Current == \A p \in Clients : pc[p] \in InBatch =>
  /\ batch \in Batch /\ job[batch].base = top
  /\ pc[p] = "blocks" <=> job[batch].taddrs = "off"
  /\ pc[p] # "blocks" => job[batch].work["verify"] # "none"
  /\ pc[p] \in {"verify", "join2"} => Joined(job[batch])
  /\ pc[p] = "join2" => job[batch].work["verify"] = "done"

(* A batch fails only when its blocks are there. *)
Past == \A b \in Batch :
  /\ b > batch => job[b] = Off
  /\ b <= batch => job[b].base <= job[batch].base /\ job[b].base <= top
  /\ b <= batch /\ job[b].append # "ok" => b = batch /\ \E p \in Clients : pc[p] = "blocks"

BlocksHad == have # NoBlocks => batch \in Batch /\ have.first = job[batch].base + Blocks

Inv == TypeOK /\ JobsOK /\ Held /\ Current /\ Past /\ BlocksHad

-----------------------------------------------------------------------------
(* A task's step *)

(* What others rely on *)
Kept(j, j2) ==
  /\ j2.base = j.base
  /\ j.append = "ok" => j2.append = "ok"
  /\ j.taddrs = "off" <=> j2.taddrs = "off"
  /\ j.work["verify"] # "none" => j2.work["verify"] # "none"
  /\ j.work["verify"] = "done" => j2.work["verify"] = "done"
  /\ Joined(j) => Joined(j2)

LEMMA TaskInv ==
  ASSUME Inv, NEW b \in Batch, b <= batch, NEW j \in Job, job' = [job EXCEPT ![b] = j],
         UNCHANGED clients, have' \in [first : Nat, last : Nat],
         have' # have => b = batch /\ have'.first = job[b].base + Blocks,
         BlocksOK(j), WorkOK(j), StreamsOK(j), Kept(job[b], j)
  PROVE  Inv'
<1>1. /\ job'[b] = j /\ \A c \in Batch \ {b} : job'[c] = job[c]
      /\ UNCHANGED <<pc, todo, syncLock, batch, top, notes>>
  BY DEF Inv, TypeOK, clients
<1>2. TypeOK'
  BY <1>1 DEF Inv, TypeOK
<1>3. JobsOK'
  BY <1>1 DEF Inv, JobsOK, BlocksOK, WorkOK, StreamsOK, Flows, Ended, Sorted
<1>4. Held'
  BY <1>1 DEF Inv, Held
<1>5. Current'
  BY <1>1 DEF Inv, Current, Kept, Joined
<1>6. Past'
  BY <1>1 DEF Inv, TypeOK, Past, Kept, Batch
<1>7. BlocksHad'
  BY <1>1 DEF Inv, BlocksHad, Kept
<1> QED
  BY <1>2, <1>3, <1>4, <1>5, <1>6, <1>7 DEF Inv

(* The batches that have started have tasks. *)
LEMMA Started ==
  ASSUME Inv, NEW b \in Batch, job[b] # Off
  PROVE  b <= batch
BY DEF Inv, Past, TypeOK, Batch

(* Work on notes and transactions *)
LEMMA WorkInv ==
  ASSUME Inv, NEW b \in Batch, NEW wk \in [Work -> WorkStep],
         job' = [job EXCEPT ![b] = [job[b] EXCEPT !.work = wk]],
         UNCHANGED <<clients, have>>, job[b] # Off,
         wk["taddr"] # job[b].work["taddr"] => job[b].work["taddr"] = "queued" /\ wk["taddr"] = "hold",
         WorkOK([job[b] EXCEPT !.work = wk]), Kept(job[b], [job[b] EXCEPT !.work = wk])
  PROVE  Inv'
<1> DEFINE j == [job[b] EXCEPT !.work = wk]
<1>1. job[b] \in Job /\ BlocksOK(job[b]) /\ StreamsOK(job[b]) /\ have \in [first : Nat, last : Nat]
  BY DEF Inv, TypeOK, JobsOK
<1>2. j \in Job /\ j.work = wk /\ BlocksOK(j)
  BY <1>1 DEF Job, BlocksOK
<1>3. StreamsOK(j)
  BY <1>1 DEF Job, StreamsOK, Flows
<1>4. b <= batch
  BY Started
<1> QED
  BY <1>1, <1>2, <1>3, <1>4, TaskInv

(* One piece of work, by a task that has begun *)
LEMMA WorkSet ==
  ASSUME Inv, NEW b \in Batch, NEW w \in Work, job[b].work[w] # "none",
         NEW st \in WorkStep, SetWork(b, w, st)
  PROVE  LET wk == [job[b].work EXCEPT ![w] = st]
         IN /\ wk \in [Work -> WorkStep] /\ job[b] # Off /\ job[b] \in Job
            /\ job' = [job EXCEPT ![b] = [job[b] EXCEPT !.work = wk]]
            /\ WorkOK(job[b]) /\ \A v \in Work : wk[v] = IF v = w THEN st ELSE job[b].work[v]
<1>1. job[b] \in Job /\ WorkOK(job[b]) /\ job \in [Batch -> Job]
  BY DEF Inv, TypeOK, JobsOK
<1>2. job[b] # Off
  BY DEF Off
<1>3. job' = [job EXCEPT ![b] = [job[b] EXCEPT !.work = [job[b].work EXCEPT ![w] = st]]]
  BY DEF SetWork
<1>4. [job[b].work EXCEPT ![w] = st] \in [Work -> WorkStep]
  BY <1>1 DEF Job
<1>5. \A v \in Work : [job[b].work EXCEPT ![w] = st][v] = IF v = w THEN st ELSE job[b].work[v]
  BY <1>1 DEF Job
<1> QED
  BY <1>1, <1>2, <1>3, <1>4, <1>5

LEMMA WaitForBlockInv ==
  ASSUME Inv, NEW b \in Batch, NEW w \in Work \ {"verify"}, WaitForBlock(b, w)
  PROVE  Inv'
<1> DEFINE wk == [job[b].work EXCEPT ![w] = "hold"]
<1>1. job[b].work[w] = "queued" /\ SetWork(b, w, "hold") /\ UNCHANGED <<clients, have>>
  BY DEF WaitForBlock
<1>2. /\ wk \in [Work -> WorkStep] /\ job[b] # Off /\ job[b] \in Job
      /\ job' = [job EXCEPT ![b] = [job[b] EXCEPT !.work = wk]]
      /\ WorkOK(job[b]) /\ \A v \in Work : wk[v] = IF v = w THEN "hold" ELSE job[b].work[v]
  BY <1>1, WorkSet DEF WorkStep
<1> HIDE DEF wk
<1>3. WorkOK([job[b] EXCEPT !.work = wk]) /\ Kept(job[b], [job[b] EXCEPT !.work = wk])
  BY <1>1, <1>2 DEF WorkOK, Kept, Joined, Job, Work
<1> QED
  BY <1>1, <1>2, <1>3, WorkInv DEF Work

LEMMA WitnessInv ==
  ASSUME Inv, NEW b \in Batch, Witness(b)
  PROVE  Inv'
<1>1. job[b].work["witness"] \in {"queued", "hold"} /\ UNCHANGED <<clients, have>>
  BY DEF Witness, Found, Holds
<1>2. CASE SetWork(b, "witness", "failed")
  <2> DEFINE wk == [job[b].work EXCEPT !["witness"] = "failed"]
  <2>1. /\ wk \in [Work -> WorkStep] /\ job[b] # Off /\ job[b] \in Job
        /\ job' = [job EXCEPT ![b] = [job[b] EXCEPT !.work = wk]]
        /\ WorkOK(job[b]) /\ \A v \in Work : wk[v] = IF v = "witness" THEN "failed" ELSE job[b].work[v]
    BY <1>1, <1>2, WorkSet DEF WorkStep, Work
  <2> HIDE DEF wk
  <2>2. WorkOK([job[b] EXCEPT !.work = wk]) /\ Kept(job[b], [job[b] EXCEPT !.work = wk])
    BY <1>1, <2>1 DEF WorkOK, Kept, Joined, Job, Work
  <2> QED BY <1>1, <2>1, <2>2, WorkInv DEF Work
<1>3. CASE job' = [job EXCEPT ![b].work["witness"] = "done", ![b].work["new"] = "queued"]
  <2> DEFINE wk == [job[b].work EXCEPT !["witness"] = "done", !["new"] = "queued"]
  <2>1. job[b] \in Job /\ WorkOK(job[b]) /\ job \in [Batch -> Job] /\ job[b] # Off
    BY <1>1 DEF Inv, TypeOK, JobsOK, Off, Work
  <2>2. job' = [job EXCEPT ![b] = [job[b] EXCEPT !.work = wk]]
    BY <1>3, <2>1 DEF Job
  <2>3. /\ wk \in [Work -> WorkStep] /\ wk["witness"] = "done" /\ wk["new"] = "queued"
        /\ \A v \in Work \ {"witness", "new"} : wk[v] = job[b].work[v]
    BY <2>1 DEF Job, Work, WorkStep
  <2> HIDE DEF wk
  <2>4. WorkOK([job[b] EXCEPT !.work = wk]) /\ Kept(job[b], [job[b] EXCEPT !.work = wk])
    BY <1>1, <2>1, <2>3 DEF WorkOK, Kept, Joined, Job, Work
  <2> QED BY <1>1, <2>1, <2>2, <2>3, <2>4, WorkInv DEF Work
<1> QED
  BY <1>2, <1>3 DEF Witness

LEMMA IsSpentInv ==
  ASSUME Inv, NEW b \in Batch, NEW w \in Work, IsSpent(b, w)
  PROVE  Inv'
<1> DEFINE wk == [job[b].work EXCEPT ![w] = "nested"]
<1>1. /\ w \in {"old", "new"} /\ job[b].work[w] \in {"queued", "hold"}
      /\ SetWork(b, w, "nested") /\ UNCHANGED <<clients, have>>
  BY DEF IsSpent, Found, Holds
<1>2. /\ wk \in [Work -> WorkStep] /\ job[b] # Off /\ job[b] \in Job
      /\ job' = [job EXCEPT ![b] = [job[b] EXCEPT !.work = wk]]
      /\ WorkOK(job[b]) /\ \A v \in Work : wk[v] = IF v = w THEN "nested" ELSE job[b].work[v]
  BY <1>1, WorkSet DEF WorkStep
<1> HIDE DEF wk
<1>3. WorkOK([job[b] EXCEPT !.work = wk]) /\ Kept(job[b], [job[b] EXCEPT !.work = wk])
  BY <1>1, <1>2 DEF WorkOK, Kept, Joined, Job, Work
<1> QED
  BY <1>1, <1>2, <1>3, WorkInv DEF Work

LEMMA UpdateWitnessInv ==
  ASSUME Inv, NEW b \in Batch, NEW w \in Work, UpdateWitness(b, w)
  PROVE  Inv'
<1> DEFINE fulltx == IF w = "new" THEN "queued" ELSE job[b].work["fulltx"]
           wk     == [job[b].work EXCEPT ![w] = "done", !["fulltx"] = fulltx]
<1>1. /\ w \in {"old", "new"} /\ job[b].work[w] = "nested" /\ UNCHANGED <<clients, have>>
      /\ job' = [job EXCEPT ![b].work[w] = "done", ![b].work["fulltx"] = IF w = "new" THEN "queued" ELSE @]
  BY DEF UpdateWitness
<1>2. job[b] \in Job /\ WorkOK(job[b]) /\ job \in [Batch -> Job] /\ job[b] # Off
  BY <1>1 DEF Inv, TypeOK, JobsOK, Off, Work
<1>3. job' = [job EXCEPT ![b] = [job[b] EXCEPT !.work = wk]]
  BY <1>1, <1>2 DEF Job
<1>4. /\ wk \in [Work -> WorkStep] /\ wk[w] = "done" /\ wk["fulltx"] = fulltx
      /\ \A v \in Work \ {w, "fulltx"} : wk[v] = job[b].work[v]
  BY <1>1, <1>2 DEF Job, Work, WorkStep
<1> HIDE DEF wk
<1>5. WorkOK([job[b] EXCEPT !.work = wk]) /\ Kept(job[b], [job[b] EXCEPT !.work = wk])
  BY <1>1, <1>2, <1>4 DEF WorkOK, Kept, Joined, Job, Work
<1> QED
  BY <1>1, <1>2, <1>3, <1>4, <1>5, WorkInv DEF Work

LEMMA ScanFullInv ==
  ASSUME Inv, NEW b \in Batch, ScanFull(b)
  PROVE  Inv'
<1>1. PICK st \in {"done", "failed"} :
        job[b].work["fulltx"] \in {"queued", "hold"} /\ SetWork(b, "fulltx", st) /\ UNCHANGED <<clients, have>>
  BY DEF ScanFull, Found, Holds
<1> DEFINE wk == [job[b].work EXCEPT !["fulltx"] = st]
<1>2. /\ wk \in [Work -> WorkStep] /\ job[b] # Off /\ job[b] \in Job
      /\ job' = [job EXCEPT ![b] = [job[b] EXCEPT !.work = wk]]
      /\ WorkOK(job[b]) /\ \A v \in Work : wk[v] = IF v = "fulltx" THEN st ELSE job[b].work[v]
  BY <1>1, WorkSet DEF WorkStep, Work
<1> HIDE DEF wk
<1>3. WorkOK([job[b] EXCEPT !.work = wk]) /\ Kept(job[b], [job[b] EXCEPT !.work = wk])
  BY <1>1, <1>2 DEF WorkOK, Kept, Joined, Job, Work
<1> QED
  BY <1>1, <1>2, <1>3, WorkInv DEF Work

LEMMA VerifyInv ==
  ASSUME Inv, NEW b \in Batch, Verify(b)
  PROVE  Inv'
<1> DEFINE wk == [job[b].work EXCEPT !["verify"] = "done"]
<1>1. job[b].work["verify"] = "queued" /\ SetWork(b, "verify", "done") /\ UNCHANGED <<clients, have>>
  BY DEF Verify
<1>2. /\ wk \in [Work -> WorkStep] /\ job[b] # Off /\ job[b] \in Job
      /\ job' = [job EXCEPT ![b] = [job[b] EXCEPT !.work = wk]]
      /\ WorkOK(job[b]) /\ \A v \in Work : wk[v] = IF v = "verify" THEN "done" ELSE job[b].work[v]
  BY <1>1, WorkSet DEF WorkStep, Work
<1> HIDE DEF wk
<1>3. WorkOK([job[b] EXCEPT !.work = wk]) /\ Kept(job[b], [job[b] EXCEPT !.work = wk])
  BY <1>1, <1>2 DEF WorkOK, Kept, Joined, Job, Work
<1> QED
  BY <1>1, <1>2, <1>3, WorkInv DEF Work

-----------------------------------------------------------------------------
(* Blocks *)

LEMMA FetchInv ==
  ASSUME Inv, NEW b \in Batch, Fetch(b)
  PROVE  Inv'
<1>1. PICK n \in IF "blocks" \in Faults THEN 0..Blocks ELSE {Blocks} :
        job' = [job EXCEPT ![b].delivered = n, ![b].fetch = IF n = Blocks THEN "ok" ELSE "err",
                           ![b].work["witness"] = IF "new" \in notes /\ n >= NoteAt THEN "queued" ELSE "none"]
  BY DEF Fetch
<1>2. job[b].fetch = "run" /\ UNCHANGED <<clients, have>>
  BY DEF Fetch
<1>3. /\ job[b] \in Job /\ BlocksOK(job[b]) /\ WorkOK(job[b]) /\ StreamsOK(job[b])
      /\ job \in [Batch -> Job] /\ job[b] # Off /\ have \in [first : Nat, last : Nat]
  BY <1>2 DEF Inv, TypeOK, JobsOK, Off
<1> DEFINE wk == [job[b].work EXCEPT !["witness"] = IF "new" \in notes /\ n >= NoteAt THEN "queued" ELSE "none"]
           j  == [job[b] EXCEPT !.delivered = n, !.fetch = IF n = Blocks THEN "ok" ELSE "err", !.work = wk]
<1>4. job' = [job EXCEPT ![b] = j]
  BY <1>1, <1>3 DEF Job
<1>5. /\ wk \in [Work -> WorkStep]
      /\ wk["witness"] = IF "new" \in notes /\ n >= NoteAt THEN "queued" ELSE "none"
      /\ \A w \in Work \ {"witness"} : wk[w] = job[b].work[w]
  BY <1>3 DEF Job, Work, WorkStep
<1>6. Blocks \in Nat /\ NoteAt \in 1..Blocks /\ n \in Nat
  BY PipelineAssumption
<1> HIDE DEF wk
<1>7. j \in Job /\ j.work = wk /\ j.delivered = n /\ j.fetch = IF n = Blocks THEN "ok" ELSE "err"
  BY <1>3, <1>5, <1>6 DEF Job
<1>8. /\ j.base = job[b].base /\ j.append = job[b].append /\ j.taddrs = job[b].taddrs
      /\ j.earliest = job[b].earliest /\ j.left = job[b].left /\ j.last = job[b].last
  BY <1>3 DEF Job
<1> HIDE DEF j
<1>9. job[b].append # "ok"
  BY <1>2, <1>3 DEF BlocksOK, Ended
<1>10. BlocksOK(j)
  BY <1>3, <1>6, <1>7, <1>8, <1>9 DEF BlocksOK, Ended
<1>11. WorkOK(j)
  BY <1>3, <1>5, <1>6, <1>7, <1>8 DEF WorkOK, Work
<1>12. StreamsOK(j)
  BY <1>3, <1>5, <1>7, <1>8 DEF StreamsOK, Flows, Work
<1>13. Kept(job[b], j)
  BY <1>2, <1>3, <1>5, <1>7, <1>8 DEF Kept, Joined, Work
<1> QED
  BY <1>2, <1>3, <1>4, <1>7, <1>10, <1>11, <1>12, <1>13, TaskInv, Started

LEMMA AppendBlocksInv ==
  ASSUME Inv, NEW b \in Batch, AppendBlocks(b)
  PROVE  Inv'
<1> DEFINE highest == job[b].base + Blocks
           lowest  == IF job[b].delivered = 0 THEN 0 ELSE highest + 1 - job[b].delivered
           j       == [job[b] EXCEPT !.earliest = lowest, !.append = "ok"]
<1>1. /\ job[b].append = "run" /\ Ended(job[b].fetch) /\ UNCHANGED clients
      /\ have' = IF lowest = 0 THEN have
                 ELSE [first |-> IF have = NoBlocks THEN highest ELSE have.first, last |-> lowest]
      /\ job' = [job EXCEPT ![b].earliest = lowest, ![b].append = "ok"]
  BY DEF AppendBlocks
<1>2. /\ job[b] \in Job /\ BlocksOK(job[b]) /\ WorkOK(job[b]) /\ StreamsOK(job[b])
      /\ job \in [Batch -> Job] /\ job[b] # Off /\ have \in [first : Nat, last : Nat]
  BY <1>1 DEF Inv, TypeOK, JobsOK, Off
<1>3. b <= batch /\ b = batch
  BY <1>1, <1>2, Started DEF Inv, Past
<1>4. Blocks \in Nat /\ job[b].delivered \in Nat /\ job[b].base \in Nat /\ job[b].delivered <= Blocks
  BY <1>2, PipelineAssumption DEF Job, BlocksOK
<1>5. lowest \in Nat /\ highest \in Nat /\ lowest <= highest + 1
  BY <1>4
<1>6. have' \in [first : Nat, last : Nat]
  BY <1>1, <1>2, <1>5
<1>7. have' # have => have'.first = highest
  BY <1>1, <1>3 DEF Inv, BlocksHad
<1>8. job' = [job EXCEPT ![b] = j]
  BY <1>1, <1>2 DEF Job
<1> HIDE DEF lowest
<1>9. j \in Job /\ j.earliest = lowest /\ j.append = "ok"
  BY <1>2, <1>5 DEF Job
<1>10. /\ j.base = job[b].base /\ j.delivered = job[b].delivered /\ j.fetch = job[b].fetch
       /\ j.taddrs = job[b].taddrs /\ j.work = job[b].work /\ j.left = job[b].left /\ j.last = job[b].last
  BY <1>2 DEF Job
<1> HIDE DEF j
<1>11. BlocksOK(j)
  BY <1>1, <1>2, <1>9, <1>10 DEF BlocksOK, lowest
<1>12. WorkOK(j) /\ StreamsOK(j) /\ Kept(job[b], j)
  BY <1>2, <1>9, <1>10 DEF WorkOK, StreamsOK, Flows, Kept, Joined
<1> QED
  BY <1>1, <1>3, <1>6, <1>7, <1>8, <1>9, <1>11, <1>12, TaskInv

-----------------------------------------------------------------------------
(* Transparent transactions *)

LEMMA PartSorted ==
  ASSUME NEW s \in Seq(Nat), Sorted(s), NEW bound \in Nat, \A i \in 1..Len(s) : s[i] <= bound,
         NEW m \in Nat \ {0}, NEW n \in Int, n <= Len(s)
  PROVE  LET r == SubSeq(s, m, n)
         IN r \in Seq(Nat) /\ Sorted(r) /\ \A i \in 1..Len(r) : r[i] <= bound
<1> DEFINE r == SubSeq(s, m, n)
<1>1. /\ r \in Seq(Nat) /\ Len(r) = IF m <= n THEN n - m + 1 ELSE 0
      /\ \A i \in 1..Len(r) : r[i] = s[m + i - 1]
  BY SMT
<1>2. Len(s) \in Nat /\ \A i \in 1..Len(r) : m + i - 1 \in 1..Len(s)
  BY <1>1
<1> HIDE DEF r
<1>3. Sorted(r)
  <2> SUFFICES ASSUME NEW i \in 1..Len(r), NEW k \in 1..Len(r), i < k PROVE r[i] <= r[k]
    BY DEF Sorted
  <2>1. m + i - 1 < m + k - 1
    OBVIOUS
  <2> QED BY <1>1, <1>2, <2>1 DEF Sorted
<1> QED
  BY <1>1, <1>2, <1>3 DEF r

LEMMA InRangeSorted ==
  ASSUME NEW b \in Batch, job[b] \in Job, NEW a \in DOMAIN Streams
  PROVE  LET r == InRange(b, a)
         IN r \in Seq(Nat) /\ Sorted(r) /\ \A i \in 1..Len(r) : r[i] <= job[b].base + Blocks
<1> DEFINE heights == [i \in DOMAIN Streams[a] |-> job[b].base + Streams[a][i]]
           below   == {i \in DOMAIN heights : heights[i] < job[b].earliest}
<1>1. job[b].base \in Nat /\ Blocks \in Nat /\ Streams[a] \in Seq(0..Blocks)
  BY PipelineAssumption DEF Job
<1>2. /\ DOMAIN Streams[a] = 1..Len(Streams[a]) /\ Len(Streams[a]) \in Nat
      /\ \A i \in DOMAIN Streams[a] : Streams[a][i] \in 0..Blocks
  BY <1>1
<1>3. heights \in Seq(Nat) /\ Len(heights) = Len(Streams[a])
  BY <1>1, <1>2, IsASeq
<1>4. \A i \in 1..Len(heights) : heights[i] = job[b].base + Streams[a][i] /\ heights[i] <= job[b].base + Blocks
  BY <1>1, <1>2, <1>3
<1>5. Sorted(heights)
  <2> SUFFICES ASSUME NEW i \in 1..Len(heights), NEW k \in 1..Len(heights), i < k PROVE heights[i] <= heights[k]
    BY DEF Sorted
  <2>1. Streams[a][i] <= Streams[a][k]
    BY <1>2, <1>3, PipelineAssumption
  <2> QED BY <1>1, <1>2, <1>3, <1>4, <2>1
<1>6. Cardinality(below) \in Nat
  <2>1. IsFiniteSet(1..Len(Streams[a])) /\ below \in SUBSET (1..Len(Streams[a]))
    BY <1>2, FS_Interval
  <2> HIDE DEF below
  <2> QED BY <2>1, FS_Subset, FS_CardinalityType
<1>7. InRange(b, a) = SubSeq(heights, Cardinality(below) + 1, Len(heights))
  BY DEF InRange
<1> DEFINE from  == Cardinality(below) + 1
           bound == job[b].base + Blocks
<1>8. from \in Nat \ {0} /\ Len(heights) \in Int /\ Len(heights) <= Len(heights) /\ bound \in Nat
  BY <1>1, <1>3, <1>6
<1> HIDE DEF heights, below, from, bound
<1>9. LET r == SubSeq(heights, from, Len(heights))
      IN r \in Seq(Nat) /\ Sorted(r) /\ \A i \in 1..Len(r) : r[i] <= bound
  BY <1>3, <1>4, <1>5, <1>8, PartSorted DEF bound
<1> QED
  BY <1>7, <1>9 DEF from, bound

LEMMA FetchTaddrsInv ==
  ASSUME Inv, NEW b \in Batch, FetchTaddrs(b)
  PROVE  Inv'
<1>1. job[b].taddrs = "run" /\ UNCHANGED <<clients, have>>
  BY DEF FetchTaddrs
<1>2. PICK cut \in [DOMAIN Streams -> 0..Blocks] :
        LET came == [a \in DOMAIN Streams |-> SubSeq(InRange(b, a), 1, Len(InRange(b, a)) - cut[a])]
        IN /\ \A a \in DOMAIN Streams : cut[a] <= Len(InRange(b, a))
           /\ job' = [job EXCEPT ![b].taddrs = IF \A a \in DOMAIN Streams : cut[a] = 0 THEN "ok" ELSE "err",
                                 ![b].left = came,
                                 ![b].work["taddr"] = IF \A a \in DOMAIN Streams : came[a] = << >>
                                                      THEN "none" ELSE "queued"]
  BY DEF FetchTaddrs
<1>3. /\ job[b] \in Job /\ BlocksOK(job[b]) /\ WorkOK(job[b]) /\ StreamsOK(job[b])
      /\ job \in [Batch -> Job] /\ job[b] # Off /\ have \in [first : Nat, last : Nat]
  BY <1>1 DEF Inv, TypeOK, JobsOK, Off
<1> DEFINE came  == [a \in DOMAIN Streams |-> SubSeq(InRange(b, a), 1, Len(InRange(b, a)) - cut[a])]
           st    == IF \A a \in DOMAIN Streams : cut[a] = 0 THEN "ok" ELSE "err"
           work  == IF \A a \in DOMAIN Streams : came[a] = << >> THEN "none" ELSE "queued"
           wk    == [job[b].work EXCEPT !["taddr"] = work]
           j     == [job[b] EXCEPT !.taddrs = st, !.left = came, !.work = wk]
           bound == job[b].base + Blocks
<1>4. bound \in Nat
  BY <1>3, PipelineAssumption DEF Job
<1>5. ASSUME NEW a \in DOMAIN Streams
      PROVE  came[a] \in Seq(Nat) /\ Sorted(came[a]) /\ \A i \in 1..Len(came[a]) : came[a][i] <= bound
  <2> DEFINE r == InRange(b, a)
             n == Len(r) - cut[a]
  <2>1. r \in Seq(Nat) /\ Sorted(r) /\ \A i \in 1..Len(r) : r[i] <= bound
    BY <1>3, InRangeSorted
  <2>2. cut[a] \in Nat /\ Len(r) \in Nat
    BY <2>1, PipelineAssumption
  <2>3. came[a] = SubSeq(r, 1, n) /\ n \in Int /\ n <= Len(r)
    BY <2>2
  <2> HIDE DEF r, n, bound, came
  <2>4. LET q == SubSeq(r, 1, n) IN q \in Seq(Nat) /\ Sorted(q) /\ \A i \in 1..Len(q) : q[i] <= bound
    <3>1. 1 \in Nat \ {0}
      OBVIOUS
    <3> QED BY <1>4, <2>1, <2>3, <3>1, PartSorted
  <2> QED BY <2>3, <2>4
<1>6. came \in [DOMAIN Streams -> Seq(Nat)]
  BY <1>5
<1>7. job' = [job EXCEPT ![b] = j]
  <2> HIDE DEF came
  <2> QED BY <1>2, <1>3 DEF Job, came
<1>8. /\ wk \in [Work -> WorkStep] /\ wk["taddr"] = work
      /\ \A w \in Work \ {"taddr"} : wk[w] = job[b].work[w]
  BY <1>3 DEF Job, Work, WorkStep
<1>9. st \in {"ok", "err"} /\ (work = "none" <=> \A a \in DOMAIN Streams : came[a] = << >>) /\ work \in {"none", "queued"}
  OBVIOUS
<1> HIDE DEF came, st, work, wk
<1>10. j \in Job /\ j.taddrs = st /\ j.left = came /\ j.work = wk
  BY <1>3, <1>6, <1>8, <1>9 DEF Job
<1>11. /\ j.base = job[b].base /\ j.delivered = job[b].delivered /\ j.fetch = job[b].fetch
       /\ j.append = job[b].append /\ j.earliest = job[b].earliest /\ j.last = job[b].last
  BY <1>3 DEF Job
<1> HIDE DEF j
<1>12. BlocksOK(j) /\ WorkOK(j)
  BY <1>1, <1>3, <1>8, <1>9, <1>10, <1>11 DEF BlocksOK, WorkOK, Work
<1>13. StreamsOK(j)
  <2>1. Ended(j.taddrs)
    BY <1>9, <1>10 DEF Ended
  <2>2. Flows(j) = {a \in DOMAIN Streams : came[a] # << >>}
    BY <1>6, <1>10 DEF Flows
  <2>3. Flows(j) # {} <=> j.work["taddr"] \in {"queued", "hold"}
    BY <1>8, <1>9, <1>10, <2>2
  <2>4. j.last = 0 /\ bound = j.base + Blocks
    BY <1>1, <1>3, <1>11 DEF StreamsOK, Ended
  <2>5. ASSUME NEW a \in Flows(j)
        PROVE  /\ Sorted(j.left[a]) /\ j.last <= j.left[a][1]
               /\ \A i \in 1..Len(j.left[a]) : j.left[a][i] <= j.base + Blocks
    <3>1. came[a] \in Seq(Nat) /\ came[a] # << >> /\ j.left[a] = came[a]
      BY <1>5, <1>10, <2>2
    <3>2. came[a][1] \in Nat
      BY <3>1
    <3> QED BY <1>5, <2>2, <2>4, <3>1, <3>2
  <2> QED BY <1>8, <1>9, <1>10, <2>1, <2>3, <2>5 DEF StreamsOK
<1>14. Kept(job[b], j)
  BY <1>1, <1>8, <1>9, <1>10, <1>11 DEF Kept, Joined, Work
<1> QED
  BY <1>1, <1>3, <1>7, <1>10, <1>12, <1>13, <1>14, TaskInv, Started

(* There is a lowest stream, and its first transaction is the lowest of all. *)
LEMMA Lowest ==
  ASSUME NEW b \in Batch, job[b] \in Job, Flowing(b) # {}
  PROVE  LET a == LowestStream(b)
         IN /\ a \in Flowing(b) /\ Flowing(b) = Flows(job[b]) /\ IsFiniteSet(Flowing(b))
            /\ \A c \in Flowing(b) : job[b].left[a][1] <= job[b].left[c][1]
<1>1. Flowing(b) = Flows(job[b])
  BY DEF Flowing, Flows
<1>2. DOMAIN Streams = 1..Len(Streams) /\ Len(Streams) \in Nat
  BY PipelineAssumption
<1>3. Flowing(b) \in SUBSET (1..Len(Streams)) /\ \A c \in Flowing(b) : job[b].left[c] \in Seq(Nat) /\ job[b].left[c] # << >>
  BY <1>2 DEF Flowing, Job
<1>4. \A c \in Flowing(b) : job[b].left[c][1] \in Nat /\ Head(job[b].left[c]) = job[b].left[c][1]
  BY <1>3
<1> DEFINE F     == Flowing(b)
           h(c)  == job[b].left[c][1]
           heads == {h(c) : c \in F}
<1>5. heads \in SUBSET Nat /\ heads # {}
  BY <1>4
<1>6. PICK low \in heads : \A m \in heads : low <= m
  <2> HIDE DEF heads
  <2> QED BY <1>5, LeastNat
<1> DEFINE ties == {c \in F : h(c) = low}
<1>7. ties \in SUBSET Nat /\ ties # {}
  BY <1>3, <1>6
<1>8. PICK a \in ties : \A c \in ties : a <= c
  <2> HIDE DEF ties
  <2> QED BY <1>7, LeastNat
<1>9. \A c \in F : h(a) < h(c) \/ (h(a) = h(c) /\ a <= c)
  <2> SUFFICES ASSUME NEW c \in F PROVE h(a) < h(c) \/ (h(a) = h(c) /\ a <= c)
    OBVIOUS
  <2>1. h(a) = low /\ low <= h(c) /\ h(c) \in Nat /\ low \in Nat
    BY <1>4, <1>5, <1>6, <1>8
  <2>2. h(c) = low => a <= c
    BY <1>8
  <2> HIDE DEF h
  <2> QED BY <2>1, <2>2
<1>10. \A d \in F : Head(job[b].left[d]) = h(d)
  BY <1>4
<1>11. \A d \in F : h(d) \in Nat
  BY <1>4
<1>12. a \in F
  BY <1>8
<1> HIDE DEF heads, ties, F, h
<1>13. \E d \in F : \A c \in F : \/ Head(job[b].left[d]) < Head(job[b].left[c])
                               \/ (Head(job[b].left[d]) = Head(job[b].left[c]) /\ d <= c)
  BY <1>9, <1>10, <1>12
<1>14. LowestStream(b) = CHOOSE d \in F : \A c \in F :
         \/ Head(job[b].left[d]) < Head(job[b].left[c])
         \/ (Head(job[b].left[d]) = Head(job[b].left[c]) /\ d <= c)
  BY DEF LowestStream, F
<1>15. LowestStream(b) \in F /\ \A c \in F :
         \/ Head(job[b].left[LowestStream(b)]) < Head(job[b].left[c])
         \/ Head(job[b].left[LowestStream(b)]) = Head(job[b].left[c])
  BY <1>13, <1>14
<1>16. \A c \in F : h(LowestStream(b)) <= h(c)
  BY <1>10, <1>11, <1>15
<1>17. IsFiniteSet(Flowing(b))
  <2>1. IsFiniteSet(1..Len(Streams))
    BY <1>2, FS_Interval
  <2> QED BY <1>3, <2>1, FS_Subset
<1> QED
  BY <1>1, <1>15, <1>16, <1>17 DEF F, h

LEMMA ScanTaddrInv ==
  ASSUME Inv, NEW b \in Batch, ScanTaddr(b)
  PROVE  Inv'
<1> DEFINE a    == LowestStream(b)
           more == Cardinality(Flowing(b)) > 1 \/ Len(job[b].left[a]) > 1
           step == IF more THEN "queued" ELSE "done"
           left == [job[b].left EXCEPT ![a] = Tail(job[b].left[a])]
           wk   == [job[b].work EXCEPT !["taddr"] = step]
           h    == Head(job[b].left[a])
           j    == [job[b] EXCEPT !.left = left, !.last = h, !.work = wk]
<1>1. /\ job[b].work["taddr"] \in {"queued", "hold"} /\ UNCHANGED <<clients, have>>
      /\ job' = [job EXCEPT ![b].left[a] = Tail(@), ![b].last = h, ![b].work["taddr"] = step]
  BY DEF ScanTaddr, Found, Holds, Height
<1>2. /\ job[b] \in Job /\ BlocksOK(job[b]) /\ WorkOK(job[b]) /\ StreamsOK(job[b])
      /\ job \in [Batch -> Job] /\ have \in [first : Nat, last : Nat]
  BY DEF Inv, TypeOK, JobsOK
<1>3. job[b] # Off
  BY <1>1 DEF Off, Work
<1>4. /\ Flowing(b) # {} /\ a \in Flowing(b) /\ Flowing(b) = Flows(job[b]) /\ IsFiniteSet(Flowing(b))
      /\ \A c \in Flowing(b) : job[b].left[a][1] <= job[b].left[c][1]
  <2>1. Flowing(b) # {}
    BY <1>1, <1>2 DEF StreamsOK, Flowing, Flows
  <2> QED BY <1>2, <2>1, Lowest
<1>5. job[b].left \in [DOMAIN Streams -> Seq(Nat)] /\ a \in DOMAIN Streams /\ job[b].left[a] # << >>
  BY <1>2, <1>4 DEF Job, Flowing
<1>6. /\ job[b].left[a] \in Seq(Nat) /\ Tail(job[b].left[a]) \in Seq(Nat)
      /\ h = job[b].left[a][1] /\ h \in Nat /\ Len(job[b].left[a]) \in Nat
  BY <1>5
<1>7. job' = [job EXCEPT ![b] = j]
  <2> HIDE DEF a, step, h
  <2> QED BY <1>1, <1>2 DEF Job
<1>8. /\ wk \in [Work -> WorkStep] /\ wk["taddr"] = step /\ step \in {"queued", "done"}
      /\ \A w \in Work \ {"taddr"} : wk[w] = job[b].work[w]
  BY <1>2 DEF Job, Work, WorkStep
<1>9. /\ left \in [DOMAIN Streams -> Seq(Nat)] /\ left[a] = Tail(job[b].left[a])
      /\ \A c \in DOMAIN Streams \ {a} : left[c] = job[b].left[c]
  BY <1>5, <1>6
<1>10. /\ {c \in DOMAIN Streams : left[c] # << >>} \subseteq Flowing(b)
       /\ {c \in DOMAIN Streams : left[c] # << >>} # {} <=> step = "queued"
  <2>1. Tail(job[b].left[a]) = << >> <=> ~(Len(job[b].left[a]) > 1)
    <3> DEFINE s == job[b].left[a]
    <3>1. s \in Seq(Nat) /\ s # << >>
      BY <1>5
    <3> HIDE DEF s
    <3>2. Tail(s) \in Seq(Nat) /\ Len(Tail(s)) = Len(s) - 1 /\ Len(s) \in Nat
      BY <3>1
    <3>3. Tail(s) = << >> <=> Len(Tail(s)) = 0
      BY <3>2
    <3>4. Tail(s) = << >> <=> ~(Len(s) > 1)
      BY <3>1, <3>2, <3>3
    <3> QED BY <3>4 DEF s
  <2>2. \A c \in DOMAIN Streams \ {a} : left[c] # << >> <=> c \in Flowing(b)
    BY <1>5, <1>9 DEF Flowing
  <2>3. Cardinality(Flowing(b)) > 1 <=> Flowing(b) \ {a} # {}
    <3>1. IsFiniteSet(Flowing(b) \ {a}) /\ Cardinality(Flowing(b) \ {a}) = Cardinality(Flowing(b)) - 1
      BY <1>4, FS_RemoveElement
    <3>2. Cardinality(Flowing(b)) \in Nat /\ Cardinality(Flowing(b) \ {a}) \in Nat
      BY <1>4, <3>1, FS_CardinalityType
    <3>3. Cardinality(Flowing(b) \ {a}) = 0 <=> Flowing(b) \ {a} = {}
      BY <3>1, FS_EmptySet
    <3> QED BY <3>1, <3>2, <3>3
  <2>4. Flowing(b) \subseteq DOMAIN Streams
    BY <1>5 DEF Flowing
  <2>5. step = "queued" <=> (Cardinality(Flowing(b)) > 1 \/ Len(job[b].left[a]) > 1)
    OBVIOUS
  <2> HIDE DEF left, step, a
  <2> QED BY <1>4, <1>5, <1>9, <2>1, <2>2, <2>3, <2>4, <2>5
<1> HIDE DEF left, step, wk, h
<1>11. j \in Job /\ j.left = left /\ j.last = h /\ j.work = wk
  BY <1>2, <1>6, <1>8, <1>9 DEF Job
<1>12. /\ j.base = job[b].base /\ j.delivered = job[b].delivered /\ j.fetch = job[b].fetch
       /\ j.append = job[b].append /\ j.earliest = job[b].earliest /\ j.taddrs = job[b].taddrs
  BY <1>2 DEF Job
<1> HIDE DEF j, a
<1>13. BlocksOK(j) /\ WorkOK(j)
  BY <1>2, <1>8, <1>11, <1>12 DEF BlocksOK, WorkOK, Work
<1>14. StreamsOK(j)
  <2>1. Ended(j.taddrs)
    BY <1>1, <1>2, <1>12 DEF StreamsOK
  <2>2. Flows(j) = {c \in DOMAIN Streams : left[c] # << >>}
    BY <1>9, <1>11 DEF Flows
  <2>3. Flows(j) # {} <=> j.work["taddr"] \in {"queued", "hold"}
    BY <1>8, <1>10, <1>11, <2>2
  <2>4. ASSUME NEW c \in Flows(j)
        PROVE  /\ Sorted(j.left[c]) /\ j.last <= j.left[c][1]
               /\ \A i \in 1..Len(j.left[c]) : j.left[c][i] <= j.base + Blocks
    <3>1. c \in Flows(job[b]) /\ c \in DOMAIN Streams /\ left[c] # << >>
      BY <1>4, <1>10, <2>2
    <3>2. CASE c # a
      <4>1. j.left[c] = job[b].left[c] /\ j.last <= job[b].left[c][1]
        BY <1>4, <1>6, <1>9, <1>11, <3>1, <3>2
      <4> QED BY <1>2, <1>12, <3>1, <4>1 DEF StreamsOK
    <3>3. CASE c = a
      <4> DEFINE s == job[b].left[a]
                 r == Tail(s)
      <4>1. s \in Seq(Nat) /\ s # << >> /\ Sorted(s) /\ \A i \in 1..Len(s) : s[i] <= j.base + Blocks
        BY <1>2, <1>4, <1>5, <1>6, <1>12 DEF StreamsOK
      <4>2. r = j.left[c] /\ r # << >>
        BY <1>9, <1>11, <3>1, <3>3
      <4>3. r \in Seq(Nat) /\ Len(r) = Len(s) - 1 /\ \A i \in 1..Len(r) : r[i] = s[i + 1]
        BY <4>1
      <4> HIDE DEF r, s
      <4>4. Len(s) \in Nat /\ Len(r) \in Nat /\ \A i \in 1..Len(r) : i + 1 \in 1..Len(s)
        BY <4>1, <4>3
      <4>5. Sorted(r)
        <5> SUFFICES ASSUME NEW i \in 1..Len(r), NEW k \in 1..Len(r), i < k PROVE r[i] <= r[k]
          BY DEF Sorted
        <5>1. i + 1 < k + 1
          BY <4>4
        <5> QED BY <4>1, <4>3, <4>4, <5>1 DEF Sorted
      <4>6. 1 \in 1..Len(r) /\ 1 \in 1..Len(s) /\ 2 \in 1..Len(s)
        BY <4>2, <4>3, <4>4
      <4>7. r[1] = s[2] /\ s[1] <= s[2]
        BY <4>1, <4>3, <4>6 DEF Sorted
      <4>8. j.last = s[1]
        BY <1>6, <1>11 DEF s
      <4>9. \A i \in 1..Len(r) : r[i] <= j.base + Blocks
        BY <4>1, <4>3, <4>4
      <4> QED BY <4>2, <4>5, <4>7, <4>8, <4>9
    <3> QED BY <3>2, <3>3
  <2> QED BY <1>8, <1>11, <2>1, <2>3, <2>4 DEF StreamsOK
<1>15. Kept(job[b], j)
  BY <1>8, <1>11, <1>12 DEF Kept, Joined, Work
<1> QED
  BY <1>1, <1>2, <1>3, <1>7, <1>11, <1>13, <1>14, <1>15, TaskInv, Started

LEMMA TasksInv ==
  ASSUME Inv, NEW b \in Batch, Tasks(b)
  PROVE  Inv'
BY FetchInv, AppendBlocksInv, FetchTaddrsInv, WitnessInv, ScanFullInv, ScanTaddrInv, VerifyInv,
   WaitForBlockInv, IsSpentInv, UpdateWitnessInv DEF Tasks

-----------------------------------------------------------------------------
(* The clients *)

(* Between batches a client goes from step to step; the tasks are left alone. *)
LEMMA ClientInv ==
  ASSUME Inv, NEW p \in Clients, NEW step \in (InSync \ InBatch) \cup {"idle", "lock", "finish"},
         pc' = [pc EXCEPT ![p] = step],
         UNCHANGED <<batch, job, have, top, notes>>, pc[p] \notin InBatch,
         todo' \in [Clients -> Nat], \A q \in Clients \ {p} : todo'[q] = todo[q],
         syncLock' # syncLock => pc[p] \in InSync \/ syncLock = Nobody,
         step \in InSync =>
           /\ syncLock' = p
           /\ step # "latest" => todo'[p] <= MaxBatches - batch
           /\ step = "setup" => todo'[p] > 0
  PROVE  Inv'
<1>1. TypeOK'
  BY DEF Inv, TypeOK
<1>2. pc'[p] = step /\ \A q \in Clients \ {p} : pc'[q] = pc[q] /\ todo'[q] = todo[q]
  BY DEF Inv, TypeOK
<1>3. JobsOK'
  BY DEF Inv, JobsOK, BlocksOK, WorkOK, StreamsOK, Flows, Ended, Sorted
<1>4. Held'
  <2> SUFFICES ASSUME NEW q \in Clients, pc'[q] \in InSync
               PROVE  /\ syncLock' = q
                      /\ pc'[q] # "latest" =>
                           todo'[q] <= MaxBatches - batch + (IF pc'[q] \in InBatch THEN 1 ELSE 0)
                      /\ pc'[q] \in InBatch \cup {"setup"} => todo'[q] > 0
    BY DEF Held
  <2>1. CASE q = p
    <3>1. step \in InSync /\ step \notin InBatch
      BY <1>2, <2>1 DEF InSync, InBatch
    <3>2. MaxBatches - batch \in Int
      BY PipelineAssumption DEF Inv, TypeOK
    <3>3. todo'[p] \in Nat
      OBVIOUS
    <3>4. MaxBatches - batch + 0 = MaxBatches - batch
      BY <3>2
    <3> QED BY <1>2, <2>1, <3>1, <3>4
  <2>2. CASE q # p
    <3>1. pc[q] \in InSync /\ syncLock = q /\ q # Nobody
      BY <1>2, <2>2, PipelineAssumption DEF Inv, Held
    <3>2. syncLock' = syncLock
      BY <2>2, <3>1 DEF Inv, Held
    <3> QED BY <1>2, <2>2, <3>1, <3>2 DEF Inv, Held
  <2> QED BY <2>1, <2>2
<1>5. Current'
  BY <1>2 DEF Inv, Current, Joined, InBatch, InSync
<1>6. Past'
  BY <1>2 DEF Inv, Past, InBatch
<1>7. BlocksHad'
  BY DEF Inv, BlocksHad
<1> QED
  BY <1>1, <1>3, <1>4, <1>5, <1>6, <1>7 DEF Inv

LEMMA OutsideInv ==
  ASSUME Inv, NEW p \in Clients,
         DoSync(p) \/ TakeLock(p) \/ GetLatest(p) \/ StartNew(p) \/ NextBatch(p) \/ Finish(p)
  PROVE  Inv'
<1>1. todo \in [Clients -> Nat] /\ MaxBatches \in Nat /\ batch \in 0..MaxBatches
  BY PipelineAssumption DEF Inv, TypeOK
<1>2. CASE DoSync(p) \/ TakeLock(p) \/ Finish(p)
  BY <1>1, <1>2, ClientInv DEF DoSync, TakeLock, Finish, Goto, InSync, InBatch
<1>3. CASE GetLatest(p)
  <2>1. CASE Return(p) /\ UNCHANGED todo
    BY <1>1, <1>3, <2>1, ClientInv DEF GetLatest, Return, Goto, InSync, InBatch
  <2>2. CASE /\ \E n \in 0..(MaxBatches - batch) : todo' = [todo EXCEPT ![p] = n]
             /\ Goto(p, "startNew") /\ UNCHANGED syncLock
    <3>1. PICK n \in 0..(MaxBatches - batch) : todo' = [todo EXCEPT ![p] = n]
      BY <2>2
    <3>2. todo' \in [Clients -> Nat] /\ todo'[p] <= MaxBatches - batch /\ \A q \in Clients \ {p} : todo'[q] = todo[q]
      BY <1>1, <3>1
    <3>3. syncLock = p
      BY <1>3 DEF GetLatest, Inv, Held, InSync
    <3> QED BY <1>3, <2>2, <3>2, <3>3, ClientInv DEF GetLatest, Goto, InSync, InBatch
  <2> QED BY <1>3, <2>1, <2>2 DEF GetLatest
<1>4. CASE StartNew(p)
  <2>1. syncLock = p /\ todo[p] <= MaxBatches - batch
    BY <1>1, <1>4 DEF StartNew, Inv, Held, InSync, InBatch
  <2> QED BY <1>1, <1>4, <2>1, ClientInv DEF StartNew, Goto, InSync, InBatch
<1>5. CASE NextBatch(p)
  <2>1. syncLock = p /\ todo[p] <= MaxBatches - batch
    BY <1>1, <1>5 DEF NextBatch, Inv, Held, InSync, InBatch
  <2> QED BY <1>1, <1>5, <2>1, ClientInv DEF NextBatch, Return, Goto, InSync, InBatch
<1> QED
  BY <1>2, <1>3, <1>4, <1>5

(* The next batch: the one before it has all its blocks, as no client waits   *)
(* for them.                                                                *)
LEMMA SetUpInv ==
  ASSUME Inv, NEW p \in Clients, SetUp(p)
  PROVE  Inv'
<1> DEFINE j == [Off EXCEPT !.base = top, !.sender = TRUE, !.fetch = "run", !.append = "run"]
<1>1. /\ pc[p] = "setup" /\ have' = NoBlocks /\ batch' = batch + 1
      /\ job' = [job EXCEPT ![batch + 1] = j] /\ pc' = [pc EXCEPT ![p] = "blocks"]
      /\ UNCHANGED <<todo, syncLock, top, notes>>
  BY DEF SetUp, Goto, ClearedBlocks
<1>2. TypeOK /\ MaxBatches \in Nat /\ top \in Nat /\ batch \in 0..MaxBatches
  BY PipelineAssumption DEF Inv, TypeOK
<1>3. syncLock = p /\ todo[p] > 0 /\ todo[p] <= MaxBatches - batch /\ todo[p] \in Nat
  BY <1>1, <1>2 DEF Inv, Held, InSync, InBatch, TypeOK
<1>4. batch + 1 \in Batch
  BY <1>2, <1>3 DEF Batch
<1>5. \A q \in Clients \ {p} : pc[q] \notin InSync /\ pc'[q] = pc[q]
  BY <1>1, <1>2, <1>3 DEF Inv, Held, TypeOK
<1>6. /\ j \in Job /\ j.base = top /\ j.append = "run" /\ j.fetch = "run" /\ j.taddrs = "off"
      /\ j.delivered = 0 /\ j.earliest = 0 /\ j.left = << >> /\ j.last = 0
      /\ j.work = [w \in Work |-> "none"]
  BY <1>2 DEF Off, Job, WorkStep
<1> HIDE DEF j
<1>7. /\ job'[batch + 1] = j /\ \A b \in Batch \ {batch + 1} : job'[b] = job[b]
      /\ pc'[p] = "blocks"
  BY <1>1, <1>2, <1>4 DEF TypeOK
<1>8. TypeOK'
  BY <1>1, <1>2, <1>4, <1>6 DEF TypeOK, NoBlocks, InSync, Batch
<1>9. JobsOK'
  <2>1. BlocksOK(j)
    BY <1>6, PipelineAssumption DEF BlocksOK
  <2>2. StreamsOK(j)
    <3>1. Flows(j) = {}
      BY <1>6 DEF Flows
    <3> QED BY <1>6, <3>1 DEF StreamsOK, Work
  <2>3. WorkOK(j)
    BY <1>6 DEF WorkOK, Work
  <2>4. \A b \in Batch : BlocksOK(job'[b]) /\ WorkOK(job'[b]) /\ StreamsOK(job'[b])
    BY <1>7, <2>1, <2>2, <2>3 DEF Inv, JobsOK
  <2> QED BY <1>1, <2>4 DEF JobsOK, WorkOK, BlocksOK, StreamsOK, Flows, Ended, Sorted
<1>10. Held'
  <2>1. todo[p] <= MaxBatches - (batch + 1) + 1
    BY <1>2, <1>3
  <2> QED BY <1>1, <1>3, <1>5, <1>7, <2>1 DEF Held, InBatch, InSync
<1>11. Current'
  BY <1>1, <1>4, <1>5, <1>6, <1>7 DEF Current, InBatch, InSync
<1>12. Past'
  <2> SUFFICES ASSUME NEW b \in Batch
               PROVE  /\ b > batch + 1 => job'[b] = Off
                      /\ b <= batch + 1 => job'[b].base <= job'[batch + 1].base /\ job'[b].base <= top
                      /\ b <= batch + 1 /\ job'[b].append # "ok" => b = batch + 1
    BY <1>1, <1>7 DEF Past
  <2>1. CASE b = batch + 1
    BY <1>2, <1>6, <1>7, <2>1
  <2>2. CASE b # batch + 1
    <3>1. job'[b] = job[b] /\ job'[batch + 1].base = top /\ (b <= batch + 1 => b <= batch) /\ (b > batch + 1 => b > batch)
      BY <1>2, <1>6, <1>7, <2>2 DEF Batch
    <3>2. \A q \in Clients : pc[q] # "blocks"
      BY <1>1, <1>5 DEF InSync
    <3> QED BY <3>1, <3>2 DEF Inv, Past
  <2> QED BY <2>1, <2>2
<1>13. BlocksHad'
  BY <1>1 DEF BlocksHad
<1> QED
  BY <1>8, <1>9, <1>10, <1>11, <1>12, <1>13 DEF Inv

LEMMA BlocksDoneInv ==
  ASSUME Inv, NEW p \in Clients, BlocksDone(p)
  PROVE  Inv'
<1> DEFINE old == IF "old" \in notes THEN "queued" ELSE "none"
           wk  == [job[batch].work EXCEPT !["old"] = old, !["verify"] = "queued"]
           j   == [job[batch] EXCEPT !.taddrs = "run", !.work = wk]
<1>1. /\ pc[p] = "blocks" /\ Ended(job[batch].append) /\ pc' = [pc EXCEPT ![p] = "join"]
      /\ job' = [job EXCEPT ![batch].taddrs = "run", ![batch].work["old"] = old, ![batch].work["verify"] = "queued"]
      /\ UNCHANGED <<todo, syncLock, batch, have, top, notes>>
  BY DEF BlocksDone, Goto
<1>2. batch \in Batch /\ job[batch].base = top /\ TypeOK /\ syncLock = p
  BY <1>1 DEF Inv, Current, Held, InBatch, InSync
<1>3. /\ job[batch] \in Job /\ BlocksOK(job[batch]) /\ WorkOK(job[batch]) /\ StreamsOK(job[batch])
      /\ job \in [Batch -> Job] /\ job[batch].append = "ok"
  BY <1>1, <1>2 DEF Inv, TypeOK, JobsOK, Job, Ended
<1>4. job' = [job EXCEPT ![batch] = j]
  BY <1>1, <1>3 DEF Job
<1>5. /\ wk \in [Work -> WorkStep] /\ wk["old"] = old /\ wk["verify"] = "queued" /\ old \in {"queued", "none"}
      /\ \A w \in Work \ {"old", "verify"} : wk[w] = job[batch].work[w]
  BY <1>3 DEF Job, Work, WorkStep
<1> HIDE DEF wk
<1>6. j \in Job /\ j.taddrs = "run" /\ j.work = wk
  BY <1>3, <1>5 DEF Job
<1>7. /\ j.base = job[batch].base /\ j.delivered = job[batch].delivered /\ j.fetch = job[batch].fetch
      /\ j.append = job[batch].append /\ j.earliest = job[batch].earliest /\ j.left = job[batch].left
      /\ j.last = job[batch].last
  BY <1>3 DEF Job
<1> HIDE DEF j, old
<1>8. job'[batch] = j /\ \A b \in Batch \ {batch} : job'[b] = job[b]
  BY <1>2, <1>3, <1>4
<1>9. pc'[p] = "join" /\ \A q \in Clients \ {p} : pc'[q] = pc[q] /\ pc[q] \notin InSync
  BY <1>1, <1>2 DEF Inv, TypeOK, Held
<1>10. TypeOK'
  <2>1. job' \in [Batch -> Job]
    BY <1>2, <1>3, <1>4, <1>6
  <2>2. pc' \in [Clients -> InSync \cup {"idle", "lock", "finish"}]
    BY <1>1, <1>2 DEF TypeOK, InSync
  <2> QED BY <1>1, <1>2, <2>1, <2>2 DEF TypeOK
<1>11. JobsOK'
  <2>1. BlocksOK(j)
    BY <1>3, <1>6, <1>7 DEF BlocksOK
  <2>2. ~Ended(job[batch].taddrs)
    BY <1>1, <1>2 DEF Inv, Current, InBatch, Ended
  <2>3. WorkOK(j)
    BY <1>3, <1>5, <1>6, <1>7 DEF WorkOK, Work, old
  <2>4. StreamsOK(j)
    BY <1>3, <1>5, <1>6, <1>7, <2>2 DEF StreamsOK, Flows, Ended, Work
  <2>5. \A b \in Batch : BlocksOK(job'[b]) /\ WorkOK(job'[b]) /\ StreamsOK(job'[b])
    BY <1>8, <2>1, <2>3, <2>4 DEF Inv, JobsOK
  <2> QED BY <1>1, <2>5 DEF JobsOK, WorkOK, BlocksOK, StreamsOK, Flows, Ended, Sorted
<1>12. Held'
  BY <1>1, <1>9 DEF Inv, Held, InBatch, InSync
<1>13. Current'
  <2>1. \A q \in Clients : pc'[q] \in InBatch => pc'[q] = "join"
    BY <1>9 DEF InBatch, InSync
  <2>2. job'[batch].base = top /\ job'[batch].taddrs = "run" /\ job'[batch].work["verify"] = "queued"
    BY <1>2, <1>5, <1>6, <1>7, <1>8
  <2> QED BY <1>1, <1>2, <2>1, <2>2 DEF Current
<1>14. Past'
  <2>1. \A b \in Batch : job'[b].base = job[b].base /\ job'[b].append = job[b].append
    BY <1>7, <1>8
  <2>2. \A b \in Batch : b > batch => job'[b] = job[b]
    BY <1>2, <1>8 DEF Batch
  <2>3. \A b \in Batch : b <= batch => job[b].append = "ok"
    BY <1>3 DEF Inv, Past
  <2> QED BY <1>1, <1>2, <2>1, <2>2, <2>3 DEF Inv, Past
<1>15. BlocksHad'
  BY <1>1, <1>2, <1>7, <1>8 DEF Inv, BlocksHad
<1> QED
  BY <1>10, <1>11, <1>12, <1>13, <1>14, <1>15 DEF Inv

(* After its blocks a batch only drops its sender, and goes on or fails.     *)
Joins(p, step, sender) ==
  /\ pc[p] \in InBatch \ {"blocks"} /\ pc' = [pc EXCEPT ![p] = step]
  /\ step \in {"verify", "join2", "batch", "finish"} /\ sender \in BOOLEAN
  /\ job' = [job EXCEPT ![batch].sender = sender]
  /\ batch' = batch /\ have' = have /\ notes' = notes /\ top' \in Nat /\ top' >= top
  /\ todo' \in [Clients -> Nat] /\ \A q \in Clients \ {p} : todo'[q] = todo[q]
  /\ step \in {"verify", "join2"} => Joined(job[batch]) /\ top' = top /\ todo' = todo
  /\ step = "join2" => job[batch].work["verify"] = "done"
  /\ step = "batch" => todo'[p] = todo[p] - 1
  /\ syncLock' = IF step = "finish" THEN Nobody ELSE syncLock

LEMMA JoinInv ==
  ASSUME Inv, NEW p \in Clients, NEW step, NEW sender, Joins(p, step, sender)
  PROVE  Inv'
<1> USE DEF Joins
<1> DEFINE j == [job[batch] EXCEPT !.sender = sender]
<1>1. batch \in Batch /\ job[batch].base = top /\ TypeOK /\ syncLock = p /\ job[batch].work["verify"] # "none"
  BY DEF Inv, Current, Held, InBatch, InSync
<1>2. job[batch] \in Job /\ job \in [Batch -> Job] /\ job[batch].taddrs # "off"
  BY <1>1 DEF Inv, TypeOK, Current
<1>3. j \in Job
  BY <1>2 DEF Job
<1>4. /\ j.base = job[batch].base /\ j.delivered = job[batch].delivered /\ j.fetch = job[batch].fetch
      /\ j.append = job[batch].append /\ j.earliest = job[batch].earliest /\ j.taddrs = job[batch].taddrs
      /\ j.left = job[batch].left /\ j.last = job[batch].last /\ j.work = job[batch].work
  BY <1>2 DEF Job
<1>5. job'[batch] = j /\ \A b \in Batch \ {batch} : job'[b] = job[b]
  BY <1>1, <1>2
<1>51. job' \in [Batch -> Job]
  BY <1>1, <1>2, <1>3
<1> HIDE DEF j
<1>6. pc'[p] = step /\ \A q \in Clients \ {p} : pc'[q] = pc[q] /\ pc[q] \notin InSync
  BY <1>1 DEF Inv, TypeOK, Held
<1>7. TypeOK'
  <2>2. pc' \in [Clients -> InSync \cup {"idle", "lock", "finish"}]
    BY <1>1 DEF TypeOK, InSync
  <2> QED BY <1>1, <1>51, <2>2 DEF TypeOK
<1>8. JobsOK'
  <2>1. BlocksOK(j) /\ WorkOK(j) /\ StreamsOK(j)
    BY <1>1, <1>4 DEF Inv, JobsOK, BlocksOK, WorkOK, StreamsOK, Flows
  <2>2. \A b \in Batch : BlocksOK(job'[b]) /\ WorkOK(job'[b]) /\ StreamsOK(job'[b])
    BY <1>5, <2>1 DEF Inv, JobsOK
  <2> QED BY <2>2 DEF JobsOK, WorkOK, BlocksOK, StreamsOK, Flows, Ended, Sorted
<1>9. Held'
  <2>1. todo[p] <= MaxBatches - batch + 1 /\ todo[p] > 0
    BY DEF Inv, Held, InSync, InBatch
  <2>2. MaxBatches \in Nat /\ batch \in Nat /\ todo[p] \in Nat
    BY <1>1, PipelineAssumption DEF TypeOK
  <2>3. todo[p] - 1 <= MaxBatches - batch + 0
    BY <2>1, <2>2
  <2> QED BY <1>1, <1>6, <2>1, <2>3 DEF Held, InBatch, InSync
<1>10. Current'
  <2>1. \A q \in Clients : pc'[q] \in InBatch => q = p /\ step \in {"verify", "join2"}
    BY <1>6 DEF InBatch, InSync
  <2>2. Joined(job[batch]) => Joined(job'[batch])
    BY <1>4, <1>5 DEF Joined
  <2> QED BY <1>1, <1>2, <1>4, <1>5, <1>6, <2>1, <2>2 DEF Current, Joined
<1>11. Past'
  <2>1. \A b \in Batch : job'[b].base = job[b].base /\ job'[b].append = job[b].append
    BY <1>4, <1>5
  <2>2. \A b \in Batch : b > batch => job'[b] = job[b]
    BY <1>1, <1>5 DEF Batch
  <2>3. \A q \in Clients : pc[q] # "blocks"
    BY <1>6 DEF InSync
  <2>4. \A b \in Batch : b <= batch => job[b].append = "ok"
    BY <2>3 DEF Inv, Past
  <2>5. \A b \in Batch : b <= batch => job[b].base <= top'
    <3> SUFFICES ASSUME NEW b \in Batch, b <= batch PROVE job[b].base <= top'
      OBVIOUS
    <3>1. job[b].base \in Nat /\ job[b].base <= top /\ top \in Nat
      BY <1>2 DEF Inv, TypeOK, Past, Job
    <3> QED BY <3>1
  <2> QED BY <2>1, <2>2, <2>4, <2>5 DEF Inv, Past
<1>12. BlocksHad'
  BY <1>1, <1>4, <1>5 DEF Inv, BlocksHad
<1> QED
  BY <1>7, <1>8, <1>9, <1>10, <1>11, <1>12 DEF Inv

(* What the client joins is what Joined says. *)
LEMMA JoinedTasks ==
  ASSUME Inv, batch \in Batch, Tasks1 = {"ok"}
  PROVE  Joined(job[batch])
<1>1. /\ job[batch].fetch = "ok" /\ job[batch].taddrs = "ok" /\ Trial(batch) = "ok" /\ Notes(batch) = "ok"
  BY DEF Tasks1
<1>2. job[batch] \in Job /\ WorkOK(job[batch])
  BY DEF Inv, TypeOK, JobsOK
<1>3. WorkOver(batch, "witness") /\ job[batch].work["witness"] # "failed"
  BY <1>1 DEF Trial
<1>4. WorkOver(batch, "old") /\ WorkOver(batch, "new")
  BY <1>1 DEF Notes
<1> QED
  BY <1>1, <1>2, <1>3, <1>4 DEF Joined, WorkOK, WorkOver

(* What has come of it when the scanner is joined, too *)
Whole(j) ==
  /\ Joined(j) /\ j.delivered = Blocks /\ j.earliest = j.base + 1
  /\ \A w \in notes \cup {"verify"} : j.work[w] = "done"
  /\ "new" \in notes => j.work["fulltx"] = "done"
  /\ Flows(j) = {} /\ j.work["taddr"] \in {"none", "done"}

LEMMA DoneWhole ==
  ASSUME Inv, NEW p \in Clients, pc[p] = "join2", Full(batch) = "ok"
  PROVE  batch \in Batch /\ job[batch].base = top /\ Whole(job[batch])
<1> DEFINE j == job[batch]
<1>1. batch \in Batch /\ j.base = top /\ Joined(j) /\ j.work["verify"] = "done"
  BY DEF Inv, Current, InBatch
<1>2. j \in Job /\ BlocksOK(j) /\ WorkOK(j) /\ StreamsOK(j) /\ notes \subseteq {"old", "new"}
  BY <1>1 DEF Inv, TypeOK, JobsOK
<1>3. /\ WorkOver(batch, "fulltx") /\ j.work["fulltx"] # "failed" /\ WorkOver(batch, "taddr")
  BY DEF Full
<1>4. j.delivered = Blocks /\ j.earliest = j.base + 1
  <2>1. j.delivered = Blocks /\ j.append = "ok"
    BY <1>1, <1>2 DEF BlocksOK, Joined
  <2>2. Blocks \in Nat /\ Blocks # 0 /\ j.base \in Nat
    BY <1>2, PipelineAssumption DEF Job
  <2>3. j.earliest = j.base + Blocks + 1 - Blocks
    BY <1>2, <2>1, <2>2 DEF BlocksOK
  <2> QED BY <2>1, <2>2, <2>3
<1>5. "old" \in notes => j.work["old"] = "done"
  BY <1>1, <1>2 DEF Joined, WorkOK
<1>6. "new" \in notes => j.work["new"] = "done" /\ j.work["fulltx"] = "done"
  BY <1>1, <1>2, <1>3 DEF Joined, WorkOK, WorkOver
<1>7. Flows(j) = {} /\ j.work["taddr"] \in {"none", "done"}
  BY <1>2, <1>3 DEF StreamsOK, WorkOK, WorkOver
<1> QED
  BY <1>1, <1>2, <1>4, <1>5, <1>6, <1>7 DEF Whole

LEMMA EndsInv ==
  ASSUME Inv, NEW p \in Clients,
         TaskFails(p) \/ TasksDone(p) \/ Verified(p) \/ ScanFails(p) \/ BatchDone(p)
  PROVE  Inv'
<1>1. pc[p] \in {"join", "verify", "join2"}
  BY DEF TaskFails, TasksDone, Verified, ScanFails, BatchDone
<1>2. /\ batch \in Batch /\ TypeOK /\ job[batch] \in Job /\ job \in [Batch -> Job]
      /\ pc[p] # "join" => Joined(job[batch])
      /\ pc[p] = "join2" => job[batch].work["verify"] = "done"
      /\ top \in Nat /\ todo \in [Clients -> Nat] /\ todo[p] > 0
  BY <1>1 DEF Inv, TypeOK, Current, Held, InBatch, InSync
<1>3. job = [job EXCEPT ![batch].sender = job[batch].sender] /\ job[batch].sender \in BOOLEAN
  BY <1>2 DEF Job
<1>4. CASE TaskFails(p) \/ ScanFails(p)
  <2>1. Joins(p, "finish", FALSE)
    BY <1>1, <1>2, <1>4 DEF Joins, TaskFails, ScanFails, FailBatch, Return, Goto, InBatch
  <2> QED BY <2>1, JoinInv
<1>5. CASE TasksDone(p)
  <2>1. Joined(job[batch])
    BY <1>2, <1>5, JoinedTasks DEF TasksDone
  <2>2. Joins(p, "verify", job[batch].sender)
    BY <1>1, <1>2, <1>3, <1>5, <2>1 DEF Joins, TasksDone, Goto, InBatch
  <2> QED BY <2>2, JoinInv
<1>6. CASE Verified(p)
  <2>1. Joins(p, "join2", FALSE)
    BY <1>1, <1>2, <1>6 DEF Joins, Verified, Goto, SenderDropped, InBatch
  <2> QED BY <2>1, JoinInv
<1>7. CASE BatchDone(p)
  <2>1. top' = top + Blocks /\ todo' = [todo EXCEPT ![p] = @ - 1]
    BY <1>7 DEF BatchDone
  <2>2. top' \in Nat /\ top' >= top
    BY <1>2, <2>1, PipelineAssumption
  <2>3. todo' \in [Clients -> Nat] /\ todo'[p] = todo[p] - 1 /\ \A q \in Clients \ {p} : todo'[q] = todo[q]
    BY <1>2, <2>1
  <2>4. Joins(p, "batch", job[batch].sender)
    BY <1>1, <1>2, <1>3, <1>7, <2>2, <2>3 DEF Joins, BatchDone, Goto, InBatch
  <2> QED BY <2>4, JoinInv
<1> QED
  BY <1>4, <1>5, <1>6, <1>7

-----------------------------------------------------------------------------
LEMMA InitInv == Init => Inv
<1> SUFFICES ASSUME Init PROVE Inv
  OBVIOUS
<1>1. TypeOK
  BY PipelineAssumption DEF Init, TypeOK, Off, Job, WorkStep, NoBlocks, InSync
<1>2. Blocks \in Nat /\ Flows(Off) = {}
  BY PipelineAssumption DEF Flows, Off
<1>3. JobsOK
  BY <1>2 DEF Init, JobsOK, BlocksOK, WorkOK, StreamsOK, Off, Work, Ended
<1>4. Held /\ Current /\ BlocksHad
  BY DEF Init, Held, Current, BlocksHad, InSync, InBatch
<1>5. Past
  BY DEF Init, Past, Batch
<1> QED
  BY <1>1, <1>3, <1>4, <1>5 DEF Inv

LEMMA NextInv == Inv /\ [Next]_vars => Inv'
<1> SUFFICES ASSUME Inv, [Next]_vars PROVE Inv'
  OBVIOUS
<1>1. ASSUME NEW p \in Clients, Client(p) \/ DoSync(p)
      PROVE  Inv'
  BY <1>1, OutsideInv, SetUpInv, BlocksDoneInv, EndsInv DEF Client
<1>2. ASSUME NEW b \in Batch, Tasks(b)
      PROVE  Inv'
  BY <1>2, TasksInv
<1>3. CASE UNCHANGED vars
  <2> USE <1>3 DEF vars
  <2>1. TypeOK' /\ Held'
    BY DEF Inv, TypeOK, Held
  <2>2. JobsOK'
    BY DEF Inv, JobsOK, BlocksOK, WorkOK, StreamsOK, Flows, Ended, Sorted
  <2>3. Current'
    BY DEF Inv, Current, Joined
  <2>4. Past'
    BY DEF Inv, Past
  <2>5. BlocksHad'
    BY DEF Inv, BlocksHad
  <2> QED BY <2>1, <2>2, <2>3, <2>4, <2>5 DEF Inv
<1> QED
  BY <1>1, <1>2, <1>3 DEF Next, Steps

LEMMA InvCorrect == Spec => []Inv
BY InitInv, NextInv, PTL DEF Spec

(* A batch counts as done, and the wallet is saved with its blocks, only when *)
(* every block has come, every note was updated, every transaction scanned,  *)
(* and no task of it runs on, whichever requests fail (start_sync_batch).     *)
THEOREM DoneIsWholeCorrect == Spec => DoneIsWhole
<1> DEFINE Done == LET j == job[batch]
                   IN /\ j.delivered = Blocks /\ j.earliest = top + 1
                      /\ \A w \in notes \cup {"verify"} : j.work[w] = "done"
                      /\ "new" \in notes => j.work["fulltx"] = "done"
                      /\ Flowing(batch) = {} /\ WorkOver(batch, "taddr")
                      /\ {j.fetch, j.taddrs, Trial(batch), Notes(batch)} = {"ok"}
<1>1. Inv /\ [Next]_vars => (top' # top => Done)
  <2> SUFFICES ASSUME Inv, [Next]_vars, top' # top PROVE Done
    OBVIOUS
  <2>1. PICK p \in Clients : BatchDone(p)
    <3>1. ASSUME NEW b \in Batch, Tasks(b)
          PROVE  UNCHANGED top
      BY <3>1 DEF Tasks, Fetch, AppendBlocks, FetchTaddrs, Witness, ScanFull, ScanTaddr, Verify, WaitForBlock,
         IsSpent, UpdateWitness, clients
    <3>2. ASSUME NEW p \in Clients, Client(p) \/ DoSync(p), ~BatchDone(p)
          PROVE  UNCHANGED top
      BY <3>2 DEF Client, DoSync, TakeLock, GetLatest, StartNew, NextBatch, SetUp, BlocksDone, TaskFails,
         TasksDone, Verified, ScanFails, Finish
    <3>3. UNCHANGED vars => UNCHANGED top
      BY DEF vars
    <3> QED BY <3>1, <3>2, <3>3 DEF Next, Steps
  <2>2. batch \in Batch /\ job[batch].base = top /\ Whole(job[batch])
    BY <2>1, DoneWhole DEF BatchDone
  <2>3. Trial(batch) = "ok" /\ Notes(batch) = "ok"
    BY <2>2 DEF Whole, Joined, Trial, Notes, WorkOver, Ended
  <2> QED
    BY <2>2, <2>3 DEF Whole, Joined, WorkOver, Flowing, Flows
<1>2. Inv /\ [Next]_vars => [top' # top => Done]_vars
  BY <1>1
<1> QED
  BY <1>2, InvCorrect, PTL DEF Spec, DoneIsWhole

(* The scanner gets transparent transactions by height, whatever addresses    *)
(* they are of and wherever a stream breaks off (FetchTaddrTxns::start).      *)
THEOREM TaddrInOrderCorrect == Spec => []TaddrInOrder
<1>1. Inv => TaddrInOrder
  <2> SUFFICES ASSUME Inv, NEW b \in Batch, Holds(b, "taddr")
               PROVE  job[b].last <= Height(b, "taddr")
    BY DEF TaddrInOrder
  <2>1. job[b] \in Job /\ StreamsOK(job[b]) /\ job[b].work["taddr"] \in {"queued", "hold"}
    BY DEF Inv, TypeOK, JobsOK, Holds
  <2>2. Flowing(b) # {} /\ Flowing(b) = Flows(job[b])
    BY <2>1 DEF StreamsOK, Flowing, Flows
  <2>3. LowestStream(b) \in Flows(job[b])
    BY <2>1, <2>2, Lowest
  <2>4. job[b].left[LowestStream(b)] \in Seq(Nat) /\ job[b].left[LowestStream(b)] # << >>
    BY <2>1, <2>3 DEF Job, Flows
  <2>5. Height(b, "taddr") = job[b].left[LowestStream(b)][1]
    BY <2>4 DEF Height
  <2> QED
    BY <2>1, <2>3, <2>5 DEF StreamsOK
<1> QED
  BY <1>1, InvCorrect, PTL

(* A task that finds the block it waits for, of whatever batch the blocks are *)
(* by then, does not look above the first one (is_nf_spent,                   *)
(* get_block_timestamp, get_note_witness).                                   *)
THEOREM IndexInRangeCorrect == Spec => []IndexInRange
<1>1. Inv => IndexInRange
  <2> SUFFICES ASSUME Inv, NEW b \in Batch, NEW w \in Work \ {"verify"}, Found(b, w)
               PROVE  Height(b, w) <= have.first
    BY DEF IndexInRange
  <2>1. /\ job[b] \in Job /\ BlocksOK(job[b]) /\ StreamsOK(job[b]) /\ job[b].work[w] \in {"queued", "hold"}
        /\ have # NoBlocks
    BY DEF Inv, TypeOK, JobsOK, Found, Holds, HasBlock, NoBlocks
  <2>2. b <= batch /\ batch \in Batch /\ have.first = job[batch].base + Blocks
    BY <2>1, Started DEF Inv, BlocksHad, Off
  <2>3. /\ job[b].base <= job[batch].base /\ job[b].base \in Nat /\ job[batch].base \in Nat
        /\ Blocks \in Nat /\ NoteAt \in 1..Blocks
    BY <2>1, <2>2, PipelineAssumption DEF Inv, Past, TypeOK, Job
  <2>4. Height(b, w) <= job[b].base + Blocks /\ Height(b, w) \in Int
    <3>1. CASE w = "old"
      <4>1. job[b].earliest \in Nat /\ job[b].delivered \in Nat /\ Height(b, w) = job[b].earliest
        BY <2>1, <3>1 DEF Job, Height
      <4> QED BY <2>1, <2>3, <4>1 DEF BlocksOK
    <3>2. CASE w = "taddr"
      <4>1. LowestStream(b) \in Flows(job[b])
        BY <2>1, <3>2, Lowest DEF StreamsOK, Flowing, Flows
      <4>2. job[b].left[LowestStream(b)] \in Seq(Nat) /\ job[b].left[LowestStream(b)] # << >>
        BY <2>1, <4>1 DEF Job, Flows
      <4>3. Height(b, w) = job[b].left[LowestStream(b)][1] /\ 1 \in 1..Len(job[b].left[LowestStream(b)])
        BY <3>2, <4>2 DEF Height
      <4>4. Height(b, w) \in Nat
        BY <4>2, <4>3
      <4> QED BY <2>1, <4>1, <4>3, <4>4 DEF StreamsOK
    <3>3. CASE w \notin {"old", "taddr"}
      <4>1. Height(b, w) = job[b].base + Blocks + 1 - NoteAt
        BY <3>3 DEF Height
      <4> QED BY <2>3, <4>1
    <3> QED BY <3>1, <3>2, <3>3
  <2> QED
    BY <2>2, <2>3, <2>4
<1> QED
  BY <1>1, InvCorrect, PTL
=============================================================================
