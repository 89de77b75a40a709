----------------------------- MODULE NodeChain -----------------------------
(***************************************************************************)
(* The node's best chain, as the address index reads it block by block     *)
(* (IndexSync) and asks it about one output (Outspend).  A block's hash    *)
(* commits to its ancestors, so a block is the sequence of branch labels   *)
(* from the genesis block to it: a chain and its tip are the same value,   *)
(* the block at height h of chain c is its prefix At(c, h).                *)
(***************************************************************************)
EXTENDS Integers, Sequences, FiniteSets, SequencesExt

CONSTANTS
    FirstChain,     \* the node's chain at the start
    MaxHeight,      \* bound: the highest block
    None

VARIABLE node       \* the node's best chain

Height(b) == Len(b) - 1
At(c, h) == SubSeq(c, 1, h + 1)
On(c, b) == IsPrefix(b, c)

=============================================================================
