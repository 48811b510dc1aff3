--------------------------- MODULE MCBlockManager ---------------------------
(***************************************************************************)
(* A DAG for TLC: three authorities, rounds 0 to 3, an equivocation by     *)
(* authority 2 in round 1 and references that skip a round.  Authority 1   *)
(* is this node.                                                           *)
(***************************************************************************)
EXTENDS BlockManager

MCBlocks == 0..6
MCRound == [b \in MCBlocks |->
    CASE b = 0 -> 0 [] b \in {1, 2, 3} -> 1 [] b \in {4, 5} -> 2 [] b = 6 -> 3]
MCAuthor == [b \in MCBlocks |->
    CASE b \in {0, 2, 3, 5} -> 2 [] b \in {1, 4} -> 1 [] b = 6 -> 3]
MCAncestors == [b \in MCBlocks |->
    CASE b = 0 -> {} [] b \in {1, 2, 3} -> {0} [] b = 4 -> {1, 2}
      [] b = 5 -> {1, 3} [] b = 6 -> {3, 4, 5}]
MCOwnIndex == 1

\* After a snapshot restore this node has signed two blocks of round 1: one
\* before the loss of its state, which its peers hold, and one after it.
MCAuthorAmnesia == [MCAuthor EXCEPT ![2] = 1]
=============================================================================
