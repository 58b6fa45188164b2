----------------------------- MODULE SendTxProofs -----------------------------
(***************************************************************************)
(* Proofs about SendTx, for all coins, amounts, heights and threads: no two *)
(* transactions of the wallet conflict (SpendsOnce), what is reported as    *)
(* sent was sent and is marked (SentIsMarked), a selection is enough and no   *)
(* larger than it must be (SelectionRight), and the spendable balance is what *)
(* can be sent (SpendableIsSpendable).                                       *)
(***************************************************************************)
EXTENDS SendTx, FiniteSums

-----------------------------------------------------------------------------
(* The inductive invariant *)

Holding == {"check", "map", "select", "build", "broadcast", "mark", "scan"}

TaskOK(t) ==
  /\ t = [step |-> t.step, amount |-> t.amount, shield |-> t.shield, coins |-> t.coins]
  /\ t.step \in Holding \cup {"idle", "wait", "panicked"} /\ t.coins \subseteq Coin

TypeOK ==
  /\ known \subseteq Coin /\ spent \subseteq Coin /\ pending \in [Coin -> Nat] /\ top \in Nat
  /\ sighted \in [Coin -> Nat]
  /\ progress \in [id : Nat, sending : BOOLEAN, result : {"none", "error", "txid"}]
  /\ task = [p \in Senders |-> task[p]] /\ \A p \in Senders : TaskOK(task[p])
  /\ net \subseteq [id : Nat, coins : SUBSET Coin]

(* Who is past the lock has it, and the progress is its own. *)
Held == \A p \in Senders : task[p].step \in Holding => syncLock = p /\ progress.id # NoTx

Own(p) == [id |-> progress.id, coins |-> task[p].coins]

Marked(coins) == \A c \in coins : c \in spent \/ pending[c] # NoTx

(* What was accepted is marked, but for what its sender is about to mark.    *)
NetMarked == ~cleared /\ ~lost =>
  \A tx \in net : Marked(tx.coins) \/ \E p \in Senders : At(p, "mark") /\ tx = Own(p)

(* What was selected is still free when it is broadcast, and known when it   *)
(* is marked.                                                               *)
StillFree == \A p \in Senders :
  /\ task[p].step \in {"build", "broadcast"} /\ Conflicts(p) => cleared \/ lost
  /\ task[p].step \in {"build", "broadcast", "mark"} => cleared \/ task[p].coins \subseteq known

OwnSent == \A p \in Senders :
  /\ task[p].step \in {"mark", "scan"} => Own(p) \in net
  /\ At(p, "scan") /\ ~cleared => Marked(task[p].coins)

ReportedMarked == progress.result = "txid" =>
  \E tx \in net : tx.id = progress.id /\ (cleared \/ Marked(tx.coins))

Inv == TypeOK /\ Held /\ NetMarked /\ StillFree /\ OwnSent /\ ReportedMarked

-----------------------------------------------------------------------------
(* Amounts *)

LEMMA Totals ==
  ASSUME NEW S \in SUBSET Coin, NEW R \in SUBSET S
  PROVE  /\ Total(S) = SumOf(Value, S) /\ IsFiniteSet(S) /\ IsFiniteSet(R)
         /\ Total(S) \in Nat /\ Total(R) \in Nat /\ Total(R) <= Total(S)
         /\ (\A c \in S \ R : Value[c] = 0) => Total(R) = Total(S)
<1>1. Total(S) = SumOf(Value, S) /\ Total(R) = SumOf(Value, R)
  BY DEF Total, SumOf
<1>2. IsFiniteSet(S) /\ IsFiniteSet(R) /\ \A c \in S : Value[c] \in Nat
  BY SendAssumption, FS_Subset
<1>3. /\ SumOf(Value, R) \in Nat /\ SumOf(Value, S) \in Nat /\ SumOf(Value, R) <= SumOf(Value, S)
      /\ (\A c \in S \ R : Value[c] = 0) => SumOf(Value, R) = SumOf(Value, S)
  BY <1>2, SumPart
<1> QED
  BY <1>1, <1>2, <1>3

LEMMA TotalUnion ==
  ASSUME NEW S \in SUBSET Coin, NEW R \in SUBSET Coin, R \cap S = {}
  PROVE  Total(R \cup S) = Total(R) + Total(S)
<1>1. IsFiniteSet(S) /\ IsFiniteSet(R) /\ \A c \in S \cup R : Value[c] \in Nat
  BY SendAssumption, FS_Subset
<1>2. SumOf(Value, R \cup S) = SumOf(Value, R) + SumOf(Value, S)
  BY <1>1, SumUnion
<1> QED
  BY <1>2 DEF Total, SumOf

(* A set of coins has a largest and a smallest one. *)
LEMMA Largest ==
  ASSUME NEW S \in SUBSET Coin, S # {}
  PROVE  /\ \E c \in S : \A d \in S : Value[d] <= Value[c]
         /\ \E c \in S : \A d \in S : Value[c] <= Value[d]
<1> DEFINE Has(T) == /\ \E c \in T : \A d \in T : Value[d] <= Value[c]
                     /\ \E c \in T : \A d \in T : Value[c] <= Value[d]
           Good == {T \in SUBSET S : T = {} \/ Has(T)}
<1>1. IsFiniteSet(S) /\ \A c \in S : Value[c] \in Nat
  BY SendAssumption, FS_Subset
<1>2. {} \in Good
  <2> HIDE DEF Has
  <2> QED OBVIOUS
<1>3. ASSUME NEW T \in SUBSET S, T # {}, \A x \in T : T \ {x} \in Good
      PROVE  T \in Good
  <2>1. PICK x \in T : TRUE
    BY <1>3
  <2>2. CASE T \ {x} = {}
    <3>1. T = {x} /\ Value[x] \in Nat
      BY <1>1, <2>1, <2>2
    <3> QED BY <3>1
  <2>3. CASE T \ {x} # {}
    <3>1. PICK c \in T \ {x} : \A d \in T \ {x} : Value[d] <= Value[c]
      BY <1>3, <2>3
    <3>2. PICK e \in T \ {x} : \A d \in T \ {x} : Value[e] <= Value[d]
      BY <1>3, <2>3
    <3>3. Value[x] \in Nat /\ Value[c] \in Nat /\ Value[e] \in Nat /\ \A d \in T : Value[d] \in Nat
      BY <1>1
    <3>4. \E m \in T : \A d \in T : Value[d] <= Value[m]
      <4>1. CASE Value[x] <= Value[c]
        BY <3>1, <4>1
      <4>2. CASE ~(Value[x] <= Value[c])
        BY <3>1, <3>3, <4>2
      <4> QED BY <4>1, <4>2
    <3>5. \E m \in T : \A d \in T : Value[m] <= Value[d]
      <4>1. CASE Value[e] <= Value[x]
        BY <3>2, <4>1
      <4>2. CASE ~(Value[e] <= Value[x])
        BY <3>2, <3>3, <4>2
      <4> QED BY <4>1, <4>2
    <3> QED BY <3>4, <3>5
  <2> QED BY <2>2, <2>3
<1> HIDE DEF Good
<1>4. SUBSET S \subseteq Good
  BY <1>1, <1>2, <1>3, SubsetInduction
<1> QED
  BY <1>4 DEF Good

(* As many of the largest notes are worth as much as any others. *)
LEMMA PrefixIsBest ==
  ASSUME NEW S \in SUBSET Coin, NEW other \in SUBSET S
  PROVE  \E P \in Prefixes(S) : Cardinality(P) = Cardinality(other) /\ Total(P) >= Total(other)
<1> DEFINE Good == {T \in SUBSET S :
                      \E P \in Prefixes(S) : Cardinality(P) = Cardinality(T) /\ Total(P) >= Total(T)}
<1>1. IsFiniteSet(S) /\ \A T \in SUBSET S : IsFiniteSet(T) /\ Cardinality(T) \in Nat /\ Total(T) \in Nat
  BY SendAssumption, FS_Subset, FS_CardinalityType, Totals
<1>2. {} \in Good
  <2>1. {} \in Prefixes(S)
    BY DEF Prefixes
  <2>2. Total({}) >= Total({})
    BY <1>1
  <2> QED BY <2>1, <2>2
<1>3. ASSUME NEW T \in SUBSET S, T # {}, \A x \in T : T \ {x} \in Good
      PROVE  T \in Good
  <2>1. PICK x \in T : \A d \in T : Value[x] <= Value[d]
    BY <1>3, Largest
  <2>2. PICK P \in Prefixes(S) : Cardinality(P) = Cardinality(T \ {x}) /\ Total(P) >= Total(T \ {x})
    BY <1>3, <2>1
  <2>3. P \in SUBSET S /\ \A c \in P, d \in S \ P : Value[c] >= Value[d]
    BY <2>2 DEF Prefixes, LargestFirst
  <2>4. Cardinality(T) = Cardinality(P) + 1
    BY <1>1, <2>1, <2>2, FS_RemoveElement
  <2>5. PICK z \in T : z \notin P
    BY <1>1, <2>3, <2>4, FS_Subset
  <2>6. PICK y \in S \ P : \A d \in S \ P : Value[d] <= Value[y]
    BY <2>5, Largest
  <2>7. P \cup {y} \in Prefixes(S)
    BY <2>3, <2>6 DEF Prefixes, LargestFirst
  <2>8. Cardinality(P \cup {y}) = Cardinality(T)
    BY <1>1, <2>3, <2>4, <2>6, FS_AddElement
  <2>9. Total(P \cup {y}) = Total(P) + Value[y] /\ Total(T) = Total(T \ {x}) + Value[x]
    <3>1. \A Q \in SUBSET S : \A q \in Q : Total(Q) = Value[q] + Total(Q \ {q})
      <4> TAKE Q \in SUBSET S
      <4> TAKE q \in Q
      <4>1. IsFiniteSet(Q) /\ \A c \in Q : Value[c] \in Nat
        BY <1>1, SendAssumption
      <4>2. SumOf(Value, Q) = Value[q] + SumOf(Value, Q \ {q})
        BY <4>1, SumRemove
      <4> QED BY <4>2 DEF Total, SumOf
    <3>2. (P \cup {y}) \ {y} = P /\ P \cup {y} \in SUBSET S
      BY <2>3, <2>6
    <3>3. Value[x] \in Nat /\ Value[y] \in Nat /\ Total(P) \in Nat /\ Total(T \ {x}) \in Nat
      BY <1>1, <2>3, SendAssumption
    <3>4. Total(P \cup {y}) = Value[y] + Total(P)
      BY <3>1, <3>2
    <3>5. Total(T) = Value[x] + Total(T \ {x})
      BY <3>1
    <3> QED BY <3>3, <3>4, <3>5
  <2>10. /\ Value[x] \in Nat /\ Value[y] \in Nat /\ Value[z] \in Nat
         /\ Total(P) \in Nat /\ Total(T \ {x}) \in Nat
    BY <1>1, <2>3, SendAssumption
  <2>11. Total(P \cup {y}) >= Total(T)
    BY <2>1, <2>2, <2>5, <2>6, <2>9, <2>10
  <2> QED BY <2>7, <2>8, <2>11
<1> HIDE DEF Good
<1>4. SUBSET S \subseteq Good
  BY <1>1, <1>2, <1>3, SubsetInduction
<1> QED
  BY <1>4 DEF Good

-----------------------------------------------------------------------------
(* Selection *)

(* A send takes the fewest notes of a prefix that are enough, or all. *)
LEMMA NotesSelected ==
  ASSUME NEW target, known \subseteq Coin
  PROVE  LET P == SelectSaplingNotes(target)
             enough == {Q \in Prefixes(SpendableNotes) : Total(Q) >= target}
         IN /\ P \subseteq SpendableNotes
            /\ enough = {} => P = SpendableNotes
            /\ enough # {} => P \in enough /\ \A Q \in enough : Cardinality(P) <= Cardinality(Q)
<1> DEFINE enough == {P \in Prefixes(SpendableNotes) : Total(P) >= target}
<1>1. SpendableNotes \subseteq Coin /\ IsFiniteSet(Coin)
  BY SendAssumption DEF SpendableNotes, Unspent
<1>2. \A P \in enough : P \subseteq SpendableNotes
  BY DEF Prefixes
<1>3. \A P \in enough : Cardinality(P) \in Nat
  BY <1>1, <1>2, FS_Subset, FS_CardinalityType
<1> HIDE DEF enough
<1>4. enough # {} => \E P \in enough : \A Q \in enough : Cardinality(P) <= Cardinality(Q)
  BY <1>3, LeastCardinality
<1>5. SelectSaplingNotes(target) =
        IF enough = {} THEN SpendableNotes
        ELSE CHOOSE P \in enough : \A Q \in enough : Cardinality(P) <= Cardinality(Q)
  BY DEF SelectSaplingNotes, enough
<1>6. /\ SelectSaplingNotes(target) \subseteq SpendableNotes
      /\ enough = {} => SelectSaplingNotes(target) = SpendableNotes
      /\ enough # {} => /\ SelectSaplingNotes(target) \in enough
                       /\ \A Q \in enough : Cardinality(SelectSaplingNotes(target)) <= Cardinality(Q)
  BY <1>2, <1>4, <1>5
<1> QED
  BY <1>6 DEF enough

(* A send takes what is unspent. *)
LEMMA CoinsSelected ==
  ASSUME NEW target, NEW tOnly, known \subseteq Coin
  PROVE  SelectNotesAndUtxos(target, tOnly) \subseteq Unspent
<1>1. SelectUtxos \subseteq Unspent /\ SpendableNotes \subseteq Unspent
  BY DEF SelectUtxos, SpendableNotes
<1>2. SelectSaplingNotes(target - Total(SelectUtxos)) \subseteq SpendableNotes
  BY NotesSelected
<1> QED
  BY <1>1, <1>2 DEF SelectNotesAndUtxos

(* If any notes would do, those that are taken do, and are no more of them.  *)
LEMMA SelectionSuffices ==
  ASSUME NEW target \in Int, known \subseteq Coin,
         NEW other \in SUBSET SpendableNotes, Total(SelectUtxos \cup other) >= target
  PROVE  LET taken == SelectNotesAndUtxos(target, FALSE)
         IN Total(taken) >= target /\ Cardinality(taken \cap Notes) <= Cardinality(other)
<1> DEFINE U == SelectUtxos
           N == SpendableNotes
           P == SelectSaplingNotes(target - Total(U))
<1>1. U \in SUBSET Coin /\ N \in SUBSET Coin /\ U \cap Notes = {} /\ N \subseteq Notes
  BY DEF SelectUtxos, SpendableNotes, Unspent, Notes
<1>2. Total(U) \in Nat /\ Cardinality(other) \in Nat /\ Cardinality({}) = 0
  BY <1>1, Totals, FS_CardinalityType, FS_EmptySet
<1>3. SelectNotesAndUtxos(target, FALSE) = U \cup IF Total(U) >= target THEN {} ELSE P
  BY DEF SelectNotesAndUtxos
<1>4. CASE Total(U) >= target
  <2>1. SelectNotesAndUtxos(target, FALSE) = U
    BY <1>3, <1>4
  <2>2. Cardinality(U \cap Notes) <= Cardinality(other)
    <3>1. U \cap Notes = {}
      BY <1>1
    <3> HIDE DEF U
    <3>2. Cardinality(U \cap Notes) = 0
      BY <1>2, <3>1
    <3> QED BY <1>2, <3>2
  <2> QED BY <1>4, <2>1, <2>2
<1>5. CASE ~(Total(U) >= target)
  <2>1. \A Q \in SUBSET N : Total(Q) \in Nat /\ Total(U \cup Q) = Total(U) + Total(Q)
    <3> TAKE Q \in SUBSET N
    <3>1. Q \in SUBSET Coin /\ U \cap Q = {}
      BY <1>1
    <3> QED BY <1>1, <3>1, Totals, TotalUnion
  <2>2. PICK best \in Prefixes(N) : Cardinality(best) = Cardinality(other) /\ Total(best) >= Total(other)
    BY <1>1, PrefixIsBest
  <2>3. best \in SUBSET N
    BY <2>2 DEF Prefixes
  <2>4. Total(best) >= target - Total(U)
    <3>1. Total(U \cup other) = Total(U) + Total(other) /\ Total(other) \in Nat /\ Total(best) \in Nat
      BY <2>1, <2>3
    <3>2. Total(U \cup other) >= target
      OBVIOUS
    <3> HIDE DEF U
    <3> QED BY <1>2, <2>2, <3>1, <3>2
  <2>5. /\ P \in SUBSET N /\ Total(P) >= target - Total(U)
        /\ Cardinality(P) <= Cardinality(best)
    BY <2>2, <2>4, NotesSelected
  <2>6. SelectNotesAndUtxos(target, FALSE) = U \cup P /\ (U \cup P) \cap Notes = P
    BY <1>1, <1>3, <1>5, <2>5
  <2> HIDE DEF P, U
  <2>7. Total(U \cup P) >= target
    <3>1. Total(U \cup P) = Total(U) + Total(P) /\ Total(P) \in Nat
      BY <2>1, <2>5
    <3> QED BY <1>2, <2>5, <3>1
  <2> QED BY <2>2, <2>5, <2>6, <2>7
<1> QED
  BY <1>4, <1>5

-----------------------------------------------------------------------------
(* What the senders' steps do to their records *)

Moved(p, step, coins) ==
  /\ task' = [q \in Senders |-> task'[q]] /\ TaskOK(task'[p])
  /\ \A q \in Senders \ {p} : task'[q] = task[q]
  /\ task'[p].step = step /\ task'[p].coins = coins

LEMMA Goes ==
  ASSUME TypeOK, NEW p \in Senders, NEW step \in Holding \cup {"panicked"}, Goto(p, step)
  PROVE  Moved(p, step, task[p].coins)
BY DEF TypeOK, TaskOK, Goto, Moved

LEMMA Ended ==
  ASSUME TypeOK, NEW p \in Senders, NEW result \in {"error", "txid"}, Ends(p, result)
  PROVE  /\ Moved(p, "idle", {})
         /\ progress' \in [id : Nat, sending : BOOLEAN, result : {"none", "error", "txid"}]
         /\ progress'.id = progress.id /\ progress'.result = result
BY DEF TypeOK, TaskOK, Ends, Idle, NoCoins, Moved

(* A sender gets no further than to its selection, or to the end of a send   *)
(* that has failed, while nothing was broadcast.                            *)
LEMMA NothingSent ==
  ASSUME Inv, NEW p \in Senders,
         ~At(p, "mark") \/ cleared,
         NEW step \in {"wait", "check", "map", "select", "idle", "panicked"},
         NEW coins, Moved(p, step, coins),
         progress' \in [id : Nat, sending : BOOLEAN, result : {"none", "error", "txid"}],
         progress'.id = progress.id, progress'.result \in {progress.result, "error"},
         step \in Holding => syncLock' = p /\ progress'.id # NoTx,
         syncLock' = syncLock \/ task[p].step \in Holding,
         UNCHANGED <<wallet, net, cleared, lost>>
  PROVE  Inv'
<1>1. TypeOK'
  BY DEF Inv, TypeOK, Moved, wallet
<1>2. Held'
  BY DEF Inv, Held, Moved
<1>3. NetMarked'
  BY DEF Inv, TypeOK, NetMarked, Moved, Marked, At, Own, wallet
<1>4. StillFree'
  BY DEF Inv, StillFree, Moved, Conflicts, wallet
<1>5. OwnSent'
  BY DEF Inv, OwnSent, Moved, Marked, At, Own, wallet
<1>6. ReportedMarked'
  BY DEF Inv, ReportedMarked, Marked, wallet
<1> QED
  BY <1>1, <1>2, <1>3, <1>4, <1>5, <1>6 DEF Inv

-----------------------------------------------------------------------------
LEMMA InitInv == Init => Inv
BY DEF Init, Idle, NoCoins, NoTx, Inv, TypeOK, TaskOK, Holding, Held, NetMarked, StillFree, OwnSent, At,
       ReportedMarked

(* A new send *)

LEMMA SendInv ==
  ASSUME Inv, NEW p \in Senders, Send(p) \/ Shield(p)
  PROVE  Inv'
<1>1. Moved(p, "wait", {})
  <2>1. CASE Send(p)
    <3>1. PICK a : task' = [task EXCEPT ![p] = [Idle EXCEPT !.step = "wait", !.amount = a]]
      BY <2>1 DEF Send
    <3> QED BY <3>1 DEF Inv, TypeOK, TaskOK, Moved, Idle, NoCoins
  <2>2. CASE Shield(p)
    <3>1. PICK a : task' = [task EXCEPT ![p] = [Idle EXCEPT !.step = "wait", !.amount = a, !.shield = TRUE]]
      BY <2>2 DEF Shield
    <3> QED BY <3>1 DEF Inv, TypeOK, TaskOK, Moved, Idle, NoCoins
  <2> QED BY <2>1, <2>2
<1>2. ~At(p, "mark") /\ UNCHANGED <<wallet, syncLock, progress, net, cleared, lost>>
  BY DEF Send, Shield, At, ghosts
<1> QED
  BY <1>1, <1>2, NothingSent DEF Inv, TypeOK, Holding

(* Whoever comes to the lock is alone there. *)
LEMMA ResetProgressInv ==
  ASSUME Inv, NEW p \in Senders, ResetProgress(p)
  PROVE  Inv'
<1>1. Moved(p, "check", task[p].coins)
  BY Goes DEF Inv, ResetProgress, Holding
<1>2. /\ progress' = [id |-> progress.id + 1, sending |-> FALSE, result |-> "none"]
      /\ UNCHANGED <<wallet, net, cleared, lost>>
      /\ syncLock' = p
  BY DEF ResetProgress, ghosts
<1>3. \A q \in Senders : task[q].step \notin Holding
  BY SendAssumption DEF Inv, Held, ResetProgress
<1>4. TypeOK'
  BY <1>1, <1>2 DEF Inv, TypeOK, Moved, wallet
<1>5. Held'
  BY <1>1, <1>2, <1>3 DEF Inv, TypeOK, Held, Moved, NoTx
<1>6. NetMarked'
  BY <1>1, <1>2, <1>3 DEF Inv, NetMarked, Moved, Marked, At, Holding, wallet
<1>7. StillFree' /\ OwnSent'
  BY <1>1, <1>2, <1>3 DEF Moved, StillFree, OwnSent, At, Holding
<1>8. ReportedMarked'
  BY <1>2 DEF ReportedMarked
<1> QED
  BY <1>4, <1>5, <1>6, <1>7, <1>8 DEF Inv

-----------------------------------------------------------------------------
(* Up to the broadcast *)

LEMMA CheckInv ==
  ASSUME Inv, NEW p \in Senders, Check(p) \/ MapKeys(p)
  PROVE  Inv'
<1>1. /\ task[p].step \in Holding /\ ~At(p, "mark")
      /\ UNCHANGED <<wallet, net, cleared, lost>>
  BY DEF Check, MapKeys, At, Holding, ghosts
<1>2. syncLock = p /\ progress.id # NoTx /\ TypeOK
  BY <1>1 DEF Inv, Held
<1>3. CASE Ends(p, "error")
  BY <1>1, <1>2, <1>3, Ended, NothingSent DEF Ends, Holding
<1>4. CASE Panics(p)
  BY <1>1, <1>2, <1>4, Goes, NothingSent DEF Panics, Holding, TypeOK
<1>5. CASE (Goto(p, "map") \/ Goto(p, "select")) /\ UNCHANGED <<progress, syncLock>>
  BY <1>1, <1>2, <1>5, Goes, NothingSent DEF Holding, TypeOK
<1> QED
  BY <1>3, <1>4, <1>5 DEF Check, MapKeys

(* What is selected is unspent, so no transaction of the wallet spends it.   *)
LEMMA SelectInv ==
  ASSUME Inv, NEW p \in Senders, Select(p)
  PROVE  Inv'
<1>1. /\ task[p].step \in Holding /\ At(p, "select")
      /\ UNCHANGED <<wallet, net, cleared, lost>>
  BY DEF Select, At, Holding, ghosts
<1>2. syncLock = p /\ progress.id # NoTx /\ TypeOK
  BY <1>1 DEF Inv, Held
<1>3. CASE Ends(p, "error")
  BY <1>1, <1>2, <1>3, Ended, NothingSent DEF Ends, Holding, At
<1>4. CASE Panics(p)
  BY <1>1, <1>2, <1>4, Goes, NothingSent DEF Panics, Holding, TypeOK, At
<1>5. ASSUME NEW coins, coins \subseteq Unspent,
             task' = [task EXCEPT ![p].step = "build", ![p].coins = coins],
             progress' = [progress EXCEPT !.sending = TRUE], UNCHANGED syncLock
      PROVE  Inv'
  <2>1. Unspent \subseteq known /\ \A c \in Unspent : ~Marked({c})
    BY DEF Unspent, Marked
  <2>2. Moved(p, "build", coins)
    <3>1. task = [q \in Senders |-> task[q]] /\ TaskOK(task[p]) /\ coins \subseteq Coin
      BY <1>2, <1>5, <2>1 DEF TypeOK
    <3>2. /\ task' = [q \in Senders |-> task'[q]] /\ \A q \in Senders \ {p} : task'[q] = task[q]
          /\ task'[p] = [task[p] EXCEPT !.step = "build", !.coins = coins]
      BY <1>5, <3>1
    <3> QED BY <3>1, <3>2 DEF TaskOK, Moved, Holding
  <2>3. /\ progress' \in [id : Nat, sending : BOOLEAN, result : {"none", "error", "txid"}]
        /\ progress'.id = progress.id /\ progress'.result = progress.result
    BY <1>2, <1>5 DEF TypeOK
  <2>4. \A q \in Senders \ {p} : task[q].step \notin Holding
    BY <1>2 DEF Inv, Held
  <2>5. TypeOK' /\ Held'
    BY <1>1, <1>2, <1>5, <2>2, <2>3, <2>4 DEF TypeOK, Held, Moved, wallet
  <2>6. ~cleared /\ ~lost => \A tx \in net : Marked(tx.coins)
    BY <1>1, <2>4 DEF Inv, NetMarked, At, Holding
  <2>7. NetMarked'
    BY <1>1, <2>6 DEF NetMarked, Marked, wallet
  <2>8. ~cleared /\ ~lost => coins \cap InputsOf(net) = {}
    BY <1>5, <2>1, <2>6 DEF InputsOf, Marked
  <2>9. StillFree'
    BY <1>1, <1>5, <2>1, <2>2, <2>4, <2>8 DEF StillFree, Moved, Conflicts, Holding, wallet
  <2>10. OwnSent'
    BY <2>2, <2>4 DEF OwnSent, Moved, At, Holding
  <2>11. ReportedMarked'
    BY <1>1, <2>3 DEF Inv, ReportedMarked, Marked, wallet
  <2> QED
    BY <2>5, <2>7, <2>9, <2>10, <2>11 DEF Inv
<1> DEFINE coins == SelectNotesAndUtxos(TargetAmount(task[p]), task[p].shield)
<1>6. coins \subseteq Unspent
  BY <1>2, CoinsSelected DEF TypeOK
<1> QED
  BY <1>3, <1>4, <1>5, <1>6 DEF Select

LEMMA BuildInv ==
  ASSUME Inv, NEW p \in Senders, Build(p)
  PROVE  Inv'
<1>1. /\ task[p].step \in Holding /\ At(p, "build")
      /\ UNCHANGED <<wallet, net, cleared, lost>>
  BY DEF Build, At, Holding, ghosts
<1>2. syncLock = p /\ progress.id # NoTx /\ TypeOK
  BY <1>1 DEF Inv, Held
<1>3. CASE Ends(p, "error")
  BY <1>1, <1>2, <1>3, Ended, NothingSent DEF Ends, Holding, At
<1>4. CASE Goto(p, "broadcast") /\ progress' = [progress EXCEPT !.sending = FALSE] /\ UNCHANGED syncLock
  <2>1. Moved(p, "broadcast", task[p].coins)
    BY <1>2, <1>4, Goes DEF Holding
  <2>2. /\ progress' \in [id : Nat, sending : BOOLEAN, result : {"none", "error", "txid"}]
        /\ progress'.id = progress.id /\ progress'.result = progress.result
    BY <1>2, <1>4 DEF TypeOK
  <2>3. \A q \in Senders \ {p} : task[q].step \notin Holding
    BY <1>2 DEF Inv, Held
  <2>4. TypeOK' /\ Held'
    BY <1>1, <1>2, <1>4, <2>1, <2>2, <2>3 DEF TypeOK, Held, Moved, wallet
  <2>5. NetMarked'
    BY <1>1, <2>3 DEF Inv, NetMarked, Marked, At, Holding, wallet
  <2>6. StillFree' /\ OwnSent'
    BY <1>1, <2>1, <2>3 DEF Inv, StillFree, OwnSent, Moved, At, Conflicts, Holding, wallet
  <2>7. ReportedMarked'
    BY <1>1, <2>2 DEF Inv, ReportedMarked, Marked, wallet
  <2> QED
    BY <2>4, <2>5, <2>6, <2>7 DEF Inv
<1> QED
  BY <1>3, <1>4 DEF Build

-----------------------------------------------------------------------------
(* The broadcast and what follows it *)

LEMMA BroadcastInv ==
  ASSUME Inv, NEW p \in Senders, Broadcast(p)
  PROVE  Inv'
<1>1. /\ task[p].step \in Holding /\ At(p, "broadcast")
      /\ UNCHANGED <<wallet, cleared>>
  BY DEF Broadcast, At, Holding
<1>2. syncLock = p /\ progress.id # NoTx /\ TypeOK
  BY <1>1 DEF Inv, Held
<1>3. \A q \in Senders \ {p} : task[q].step \notin Holding
  BY <1>2 DEF Inv, Held
<1>4. Own(p) \in [id : Nat, coins : SUBSET Coin]
  BY <1>2 DEF Own, TypeOK, TaskOK
<1>5. CASE Accepted(p) /\ Goto(p, "mark") /\ UNCHANGED <<progress, syncLock, lost>>
  <2>1. Moved(p, "mark", task[p].coins)
    BY <1>2, <1>5, Goes DEF Holding
  <2>2. net' = net \cup {Own(p)} /\ Own(p)' = Own(p)
    BY <1>5, <2>1 DEF Accepted, Own, Moved
  <2>3. TypeOK' /\ Held'
    BY <1>1, <1>2, <1>3, <1>4, <1>5, <2>1, <2>2 DEF TypeOK, Held, Moved, wallet
  <2>4. NetMarked'
    BY <1>1, <1>3, <1>5, <2>1, <2>2 DEF Inv, NetMarked, Marked, Moved, At, Holding, wallet
  <2>5. StillFree' /\ OwnSent'
    BY <1>1, <1>3, <2>1, <2>2 DEF Inv, StillFree, OwnSent, Moved, At, Holding, wallet
  <2>6. ReportedMarked'
    BY <1>1, <1>5, <2>2 DEF Inv, ReportedMarked, Marked, wallet
  <2> QED
    BY <2>3, <2>4, <2>5, <2>6 DEF Inv
<1>6. CASE Accepted(p) /\ Ends(p, "error") /\ lost' = TRUE
  <2>1. Moved(p, "idle", {}) /\ progress' \in [id : Nat, sending : BOOLEAN, result : {"none", "error", "txid"}]
    BY <1>2, <1>6, Ended
  <2>2. progress'.result = "error" /\ net' = net \cup {Own(p)}
    BY <1>2, <1>6, Ended DEF Accepted, Own
  <2>3. TypeOK' /\ Held'
    BY <1>1, <1>2, <1>3, <1>4, <2>1, <2>2 DEF TypeOK, Held, Moved, Holding, wallet
  <2>4. NetMarked' /\ ReportedMarked'
    BY <1>6, <2>2 DEF NetMarked, ReportedMarked
  <2>5. StillFree' /\ OwnSent'
    BY <1>1, <1>3, <2>1 DEF Inv, StillFree, OwnSent, Moved, At, Holding, wallet
  <2> QED
    BY <2>3, <2>4, <2>5 DEF Inv
<1>7. CASE Ends(p, "error") /\ UNCHANGED <<net, lost>>
  BY <1>1, <1>2, <1>7, Ended, NothingSent DEF Ends, Holding, At
<1> QED
  BY <1>5, <1>6, <1>7 DEF Broadcast

LEMMA MarkInv ==
  ASSUME Inv, NEW p \in Senders, Mark(p)
  PROVE  Inv'
<1>1. /\ task[p].step \in Holding /\ At(p, "mark")
      /\ UNCHANGED <<known, spent, sighted, top, tree, net, cleared, lost>>
  BY DEF Mark, At, Holding, ghosts
<1>2. syncLock = p /\ progress.id # NoTx /\ TypeOK
  BY <1>1 DEF Inv, Held
<1>3. \A q \in Senders \ {p} : task[q].step \notin Holding
  BY <1>2 DEF Inv, Held
<1>4. CASE task[p].coins \subseteq known
  <2>1. /\ pending' = [c \in Coin |-> IF c \in task[p].coins THEN progress.id ELSE pending[c]]
        /\ Goto(p, "scan") /\ UNCHANGED <<progress, syncLock>>
    BY <1>4 DEF Mark, MarkedCoins
  <2>2. Moved(p, "scan", task[p].coins)
    BY <1>2, <2>1, Goes DEF Holding
  <2>3. TypeOK' /\ Held'
    BY <1>1, <1>2, <1>3, <2>1, <2>2 DEF TypeOK, Held, Moved
  <2>4. \A coins \in SUBSET Coin : Marked(coins) => Marked(coins)'
    BY <1>1, <1>2, <2>1 DEF Marked
  <2>5. Marked(task[p].coins)'
    BY <1>1, <1>2, <2>1, <2>2 DEF Marked, Moved, TypeOK, TaskOK
  <2>6. Own(p)' = Own(p)
    BY <2>1, <2>2 DEF Own, Moved
  <2>7. NetMarked'
    <3> SUFFICES ASSUME ~cleared, ~lost, NEW tx \in net PROVE Marked(tx.coins)'
      BY <1>1 DEF NetMarked
    <3>1. Marked(tx.coins) \/ tx = Own(p)
      BY <1>3 DEF Inv, NetMarked, At, Holding
    <3>2. tx.coins \subseteq Coin /\ Own(p).coins = task[p].coins /\ task'[p].coins = task[p].coins
      BY <1>2, <2>2 DEF TypeOK, Own, Moved
    <3> QED BY <2>4, <2>5, <3>1, <3>2 DEF Marked
  <2>8. StillFree'
    BY <1>1, <1>3, <2>2 DEF StillFree, Moved, Holding
  <2>9. OwnSent'
    BY <1>1, <1>3, <2>2, <2>5, <2>6 DEF Inv, OwnSent, Moved, At, Holding
  <2>10. ReportedMarked'
    BY <1>1, <1>2, <2>1, <2>4 DEF Inv, ReportedMarked, TypeOK
  <2> QED
    BY <2>3, <2>7, <2>8, <2>9, <2>10 DEF Inv
<1>5. CASE ~(task[p].coins \subseteq known)
  <2>1. cleared /\ Panics(p) /\ UNCHANGED wallet
    BY <1>1, <1>5 DEF Inv, StillFree, Mark, At, wallet
  <2> QED
    BY <1>1, <1>2, <2>1, Goes, NothingSent DEF Panics, Holding, TypeOK
<1> QED
  BY <1>4, <1>5

(* A scan takes the mark of a coin away only when it counts it as spent.     *)
LEMMA ScanMarks ==
  ASSUME TypeOK, NEW coins, ScanUnconfirmed(coins)
  PROVE  /\ spent' \subseteq Coin /\ pending' \in [Coin -> Nat] /\ UNCHANGED <<known, sighted, top>>
         /\ \A c \in Coin : c \in spent \/ pending[c] # NoTx => c \in spent' \/ pending'[c] # NoTx
BY DEF TypeOK, ScanUnconfirmed, Seen, NoTx

LEMMA ScanOwnInv ==
  ASSUME Inv, NEW p \in Senders, ScanOwn(p)
  PROVE  Inv'
<1>1. /\ task[p].step \in Holding /\ At(p, "scan") /\ ScanUnconfirmed(task[p].coins)
      /\ Ends(p, "txid") /\ UNCHANGED <<net, cleared, lost>>
  BY DEF ScanOwn, At, Holding, ghosts
<1>2. syncLock = p /\ progress.id # NoTx /\ TypeOK
  BY <1>1 DEF Inv, Held
<1>3. \A q \in Senders \ {p} : task[q].step \notin Holding
  BY <1>2 DEF Inv, Held
<1>4. /\ Moved(p, "idle", {})
      /\ progress' \in [id : Nat, sending : BOOLEAN, result : {"none", "error", "txid"}]
      /\ progress'.id = progress.id
  BY <1>1, <1>2, Ended
<1>5. /\ spent' \subseteq Coin /\ pending' \in [Coin -> Nat] /\ UNCHANGED <<known, sighted, top>>
      /\ \A coins \in SUBSET Coin : Marked(coins) => Marked(coins)'
  BY <1>1, <1>2, ScanMarks DEF Marked
<1>6. TypeOK' /\ Held'
  BY <1>1, <1>2, <1>3, <1>4, <1>5 DEF TypeOK, Held, Moved, Holding
<1>7. NetMarked'
  BY <1>1, <1>2, <1>3, <1>5 DEF Inv, TypeOK, NetMarked, At, Holding
<1>8. StillFree' /\ OwnSent'
  BY <1>3, <1>4 DEF StillFree, OwnSent, Moved, At, Holding
<1>9. ReportedMarked'
  <2>1. Own(p) \in net /\ (cleared \/ Marked(Own(p).coins))
    BY <1>1 DEF Inv, OwnSent, Own, At
  <2>2. Own(p).id = progress'.id /\ Own(p).coins \in SUBSET Coin
    BY <1>2, <1>4 DEF Own, TypeOK, TaskOK
  <2> QED BY <1>1, <1>5, <2>1, <2>2 DEF ReportedMarked
<1> QED
  BY <1>6, <1>7, <1>8, <1>9 DEF Inv

-----------------------------------------------------------------------------
(* Beside it *)

(* Until a rescan, what is known stays known and what is marked stays marked. *)
LEMMA BesideInv ==
  ASSUME Inv, UNCHANGED <<syncLock, progress, task, net, lost>>,
         known' \subseteq Coin, spent' \subseteq Coin, pending' \in [Coin -> Nat], top' \in Nat,
         sighted' \in [Coin -> Nat],
         cleared => cleared',
         cleared' \/ known \subseteq known',
         cleared' \/ \A c \in Coin : c \in spent \/ pending[c] # NoTx => c \in spent' \/ pending'[c] # NoTx
  PROVE  Inv'
<1>1. TypeOK' /\ Held'
  BY DEF Inv, TypeOK, Held
<1>2. ~cleared' => \A coins \in SUBSET Coin : Marked(coins) => Marked(coins)'
  BY DEF Marked
<1>3. \A tx \in net : tx.coins \in SUBSET Coin
  BY DEF Inv, TypeOK
<1>4. NetMarked'
  BY <1>2, <1>3 DEF Inv, NetMarked, At, Own
<1>5. StillFree'
  BY DEF Inv, StillFree, Conflicts
<1>6. OwnSent'
  BY <1>2 DEF Inv, TypeOK, TaskOK, OwnSent, Own, At, Marked
<1>7. ReportedMarked'
  BY <1>2, <1>3 DEF Inv, ReportedMarked
<1> QED
  BY <1>1, <1>4, <1>5, <1>6, <1>7 DEF Inv

LEMMA LocksInv ==
  ASSUME Inv, LockWallet \/ UnlockWallet \/ Mine \/ UNCHANGED vars
  PROVE  Inv'
<1>1. UNCHANGED <<known, spent, pending, sighted, top, syncLock, progress, task, net, cleared, lost>>
  BY DEF LockWallet, UnlockWallet, Mine, wallet, ghosts, vars
<1> QED
  BY <1>1, BesideInv DEF Inv, TypeOK

LEMMA ClearStateInv ==
  ASSUME Inv, ClearState
  PROVE  Inv'
<1>1. UNCHANGED <<syncLock, progress, task, net, lost>> /\ cleared'
  BY DEF ClearState
<1>2. /\ known' \subseteq Coin /\ spent' \subseteq Coin /\ pending' \in [Coin -> Nat] /\ top' \in Nat
      /\ sighted' \in [Coin -> Nat]
  BY DEF ClearState, NoTx
<1> QED
  BY <1>1, <1>2, BesideInv

LEMMA SyncInv ==
  ASSUME Inv, Sync
  PROVE  Inv'
<1>1. UNCHANGED <<syncLock, progress, task, net, lost, cleared>>
  BY DEF Sync, ghosts
<1>2. TypeOK /\ Heights \subseteq Nat
  BY SendAssumption DEF Inv
<1>3. known \subseteq known' /\ known' \subseteq Coin /\ top' \in Nat /\ sighted' \in [Coin -> Nat]
  BY <1>2 DEF Sync, TypeOK
<1>4. spent' = spent \cup (known' \cap InputsOf(MinedBy(top')))
  BY DEF Sync
<1>5. pending' = [c \in Coin |-> IF c \in spent' THEN NoTx ELSE pending[c]]
  BY DEF Sync
<1>6. /\ spent' \subseteq Coin /\ pending' \in [Coin -> Nat]
      /\ \A c \in Coin : c \in spent \/ pending[c] # NoTx => c \in spent' \/ pending'[c] # NoTx
  BY <1>2, <1>3, <1>4, <1>5 DEF TypeOK, NoTx
<1> QED
  BY <1>1, <1>3, <1>6, BesideInv

LEMMA SightInv ==
  ASSUME Inv, Sight
  PROVE  Inv'
<1>1. UNCHANGED <<spent, pending, top, syncLock, progress, task, net, lost, cleared>>
  BY DEF Sight, ghosts
<1>2. TypeOK /\ Heights \subseteq Nat
  BY SendAssumption DEF Inv
<1>3. known \subseteq known' /\ known' \subseteq Coin /\ sighted' \in [Coin -> Nat]
  BY <1>2 DEF Sight, TypeOK
<1> QED
  BY <1>1, <1>2, <1>3, BesideInv DEF TypeOK

LEMMA MonitorInv ==
  ASSUME Inv, Monitor
  PROVE  Inv'
<1>1. UNCHANGED <<syncLock, progress, task, net, lost, cleared>>
  BY DEF Monitor, ghosts
<1>2. PICK tx \in net : ScanUnconfirmed(tx.coins)
  BY DEF Monitor
<1> QED
  BY <1>1, <1>2, ScanMarks, BesideInv DEF Inv, TypeOK

-----------------------------------------------------------------------------
LEMMA NextInv == Inv /\ [Next]_vars => Inv'
<1> SUFFICES ASSUME Inv, [Next]_vars PROVE Inv'
  OBVIOUS
<1>1. CASE \E p \in Senders : Send(p) \/ Shield(p) \/ Step(p)
  BY <1>1, SendInv, ResetProgressInv, CheckInv, SelectInv, BuildInv, BroadcastInv, MarkInv,
     ScanOwnInv DEF Step
<1>2. CASE LockWallet \/ UnlockWallet \/ Mine \/ UNCHANGED vars
  BY <1>2, LocksInv
<1>3. CASE ClearState \/ Sync \/ Sight \/ Monitor
  BY <1>3, ClearStateInv, SyncInv, SightInv, MonitorInv
<1> QED
  BY <1>1, <1>2, <1>3 DEF Next

LEMMA InvCorrect == Spec => []Inv
BY InitInv, NextInv, PTL DEF Spec

(* No two transactions the wallet sends spend the same coin, whichever        *)
(* threads send while the mempool monitor, syncs and locks come between,     *)
(* unless a rescan has cleared the wallet or an answer was lost.             *)
THEOREM SpendsOnceCorrect == Spec => []SpendsOnce
<1>1. Inv => SpendsOnce
  BY DEF Inv, StillFree, SpendsOnce, At
<1> QED
  BY <1>1, InvCorrect, PTL

(* A send that is reported with its txid was accepted by the network, and    *)
(* what it spends is not selected again, until a rescan.                     *)
THEOREM SentIsMarkedCorrect == Spec => []SentIsMarked
<1>1. Inv => SentIsMarked
  BY DEF Inv, ReportedMarked, SentIsMarked, Marked, Unspent
<1> QED
  BY <1>1, InvCorrect, PTL

(* A send fails for want of funds only if everything that is spendable is    *)
(* less than what is asked for, and takes no more notes than it must.        *)
THEOREM SelectionRightCorrect == Spec => []SelectionRight
<1>1. Inv => SelectionRight
  <2> SUFFICES ASSUME Inv, NEW a \in Amounts
               PROVE  LET target == a + Fee
                          taken  == SelectNotesAndUtxos(target, FALSE)
                      IN /\ Total(SelectUtxos \cup SpendableNotes) >= target => Total(taken) >= target
                         /\ \A other \in SUBSET SpendableNotes :
                              Total(SelectUtxos \cup other) >= target =>
                                Cardinality(taken \cap Notes) <= Cardinality(other)
    BY DEF SelectionRight
  <2>1. a + Fee \in Int /\ known \subseteq Coin
    BY SendAssumption DEF Inv, TypeOK
  <2> QED
    BY <2>1, SelectionSuffices
<1> QED
  BY <1>1, InvCorrect, PTL

(* What the spendable balance counts, by the height of the anchor, are just   *)
(* the notes a send can take, by the number of their witnesses: a note that  *)
(* is not mined has none, whatever height it is recorded with.               *)
LEMMA SpendableByAnchor ==
  ASSUME Inv, unlocked
  PROVE  SpendableNotes = {c \in Verified : c \notin Watched /\ Witnesses(c) > 0 /\ Value[c] > 0}
<1> SUFFICES ASSUME NEW c \in (Unspent \cap Notes) \ Watched
             PROVE  Witnesses(c) >= AnchorOffset + 1 <=> BlockOf(c) <= AnchorHeight /\ Witnesses(c) > 0
  BY DEF SpendableNotes, Verified
<1>1. /\ CoinHeight[c] \in Nat /\ top \in Nat /\ AnchorOffset \in Nat
      /\ Witnesses(c) = IF CoinHeight[c] <= top THEN (top - CoinHeight[c]) + 1 ELSE 0
  BY SendAssumption DEF Inv, TypeOK, Notes, Witnesses, OnChain
<1>2. CASE CoinHeight[c] <= top
  BY <1>1, <1>2 DEF BlockOf, OnChain, AnchorHeight, AnchorAbove, TargetHeight
<1>3. CASE ~(CoinHeight[c] <= top)
  BY <1>1, <1>3
<1> QED
  BY <1>2, <1>3

(* The spendable balance is what an unlocked wallet can send: the heights of  *)
(* notes and the numbers of their witnesses agree (spendable_zbalance,        *)
(* SpendableSaplingNote::from), whatever is mined, only seen in the mempool,  *)
(* or of a viewing key, and the selection stops at no less than its target.  *)
THEOREM SpendableIsSpendableCorrect == Spec => []SpendableIsSpendable
<1>1. Inv => SpendableIsSpendable
  <2> SUFFICES ASSUME Inv, unlocked
               PROVE  /\ SpendableZBalance = Total(SpendableNotes)
                      /\ Total(SelectNotesAndUtxos(SpendableZBalance, FALSE)) >= SpendableZBalance
    BY DEF SpendableIsSpendable
  <2> DEFINE counted == {c \in Verified : c \notin Watched /\ Witnesses(c) > 0}
  <2>1. known \subseteq Coin /\ counted \in SUBSET Coin /\ SelectUtxos \in SUBSET Coin
        /\ SpendableNotes \in SUBSET counted /\ SelectUtxos \cap SpendableNotes = {}
    BY SpendableByAnchor DEF Inv, TypeOK, Verified, Unspent, SelectUtxos, Notes
  <2>2. \A c \in counted \ SpendableNotes : Value[c] = 0
    <3> SUFFICES ASSUME NEW c \in counted \ SpendableNotes PROVE Value[c] = 0
      OBVIOUS
    <3>1. Value[c] \in Nat /\ ~(Value[c] > 0)
      BY <2>1, SpendableByAnchor, SendAssumption
    <3> QED BY <3>1
  <2>3. SpendableZBalance = Total(counted)
    BY DEF SpendableZBalance
  <2> HIDE DEF counted
  <2>4. Total(SpendableNotes) = Total(counted) /\ Total(counted) \in Nat
    BY <2>1, <2>2, Totals
  <2>5. Total(SelectUtxos) \in Nat
    BY <2>1, Totals
  <2>6. Total(SelectUtxos \cup SpendableNotes) = Total(SelectUtxos) + Total(SpendableNotes)
    BY <2>1, TotalUnion
  <2>7. Total(SelectUtxos \cup SpendableNotes) >= SpendableZBalance /\ SpendableZBalance \in Int
    BY <2>3, <2>4, <2>5, <2>6
  <2> QED
    BY <2>1, <2>3, <2>4, <2>7, SelectionSuffices
<1> QED
  BY <1>1, InvCorrect, PTL
=============================================================================
