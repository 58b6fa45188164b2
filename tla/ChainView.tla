------------------------------ MODULE ChainView ------------------------------
(***************************************************************************)
(* What a sync promises, with the download, the reorg handshake and the    *)
(* trial decryption out of sight: the wallet's list of blocks is a view of *)
(* the server's chain that changes in one step, from what it was to the    *)
(* same stretch of the server's present chain, extended to a new top.      *)
(* BlockSync implements this while the server keeps its chain during a     *)
(* sync and nobody clears the wallet then.                                 *)
(***************************************************************************)
EXTENDS Integers, Sequences

CONSTANTS Block, Height, Chains, Birthday, MaxReorg

VARIABLES
  chain,  \* the server's best chain
  view    \* the blocks the wallet knows, newest first

TopOf(v)    == IF v = <<>> THEN 0 ELSE Height[v[1]]
BottomOf(v) == IF v = <<>> THEN 1 ELSE Height[v[Len(v)]]

Segment(hi, lo) == [i \in 1..(hi - lo + 1) |-> chain[hi - i + 1]]

Init ==
  /\ chain \in Chains
  /\ view \in {<<>>, <<chain[Birthday]>>}

Switch ==
  /\ chain' \in Chains \ {chain}
  /\ UNCHANGED view

(* The newest block was replaced by another one of the same height. *)
Pop ==
  /\ view # <<>> /\ TopOf(view) = Len(chain) /\ chain[Len(chain)] # view[1]
  /\ view' = Tail(view)
  /\ UNCHANGED chain

(* A batch: reach a higher block of the server's chain, and keep following   *)
(* it down to the oldest block of the view, MaxReorg blocks at most.         *)
Adopt ==
  /\ \E hi \in TopOf(view) + 1 .. Len(chain) :
       LET oldest == hi - MaxReorg + 1
           lo     == IF oldest > BottomOf(view) THEN oldest ELSE BottomOf(view)
       IN view' = Segment(hi, lo)
  /\ UNCHANGED chain

Clear ==
  /\ view' = <<>>
  /\ UNCHANGED chain

Restart ==
  /\ view = <<>>
  /\ view' = <<chain[Birthday]>>
  /\ UNCHANGED chain

Next == Switch \/ Pop \/ Adopt \/ Clear \/ Restart

Spec == Init /\ [][Next]_<<chain, view>>
=============================================================================
