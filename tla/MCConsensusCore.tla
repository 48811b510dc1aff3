--------------------------- MODULE MCConsensusCore ---------------------------
(***************************************************************************)
(* Small networks for ConsensusCore.  A universe has one block per         *)
(* authority and round; what varies is how a round treats the leader of    *)
(* the round before it, which is what the commit rule looks at.            *)
(***************************************************************************)
EXTENDS ConsensusCore

CONSTANTS Rounds,        \* rounds of a universe
          Patterns,      \* for each universe, how its rounds from 2 on vote
          Absent         \* slots without a block: an authority that stopped

\* Four authorities produce blocks.  The node is one of them, or a fifth one
\* with little stake that only follows.
Producers == 0..3
mc_four == 0..3
mc_five == 0..4
mc_honest == {0, 1, 2, 4}
mc_equal == [a \in 0..3 |-> 1]
mc_small == [a \in 0..4 |-> IF a = 4 THEN 1 ELSE 3]
mc_leader == <<1, 0, 3, 1, 2, 0, 3>>
mc_good == [r \in 1..10 |-> r]
mc_order4 == <<2, 0, 3, 1>>
mc_order5 == <<2, 0, 3, 1, 4>>

\* Clocks are skewed: an authority's clock runs ahead by three per index.
mc_timestamp == [b \in (0..7) \X Producers \X (0..1) |->
                    IF b[1] = 0 THEN 0 ELSE b[1] + 3 * b[2]]

\* Which variant of the leader l's block a block of authority a of the next
\* round references; -1 for none.
Reference(pattern, l, a) ==
    CASE pattern = "all" -> 0
      [] pattern = "one" -> IF a = (l + 1) % 4 THEN 0 - 1 ELSE 0
      [] pattern = "split" -> IF a \in {l, (l + 1) % 4} THEN 0 ELSE 0 - 1
      [] pattern = "blame" -> IF a = l THEN 0 ELSE 0 - 1
      [] pattern = "fork22" -> IF a < 2 THEN 0 ELSE 1
      [] pattern = "fork31" -> IF a = 3 THEN 1 ELSE 0

\* The universe in which round r references the leader of r - 1 as p[r - 1] says.
Universe(p) ==
    LET Forked(r, a) == r < Rounds /\ p[r] \in {"fork22", "fork31"} /\ a = BaseLeader[r]
        blocks == {b \in (1..Rounds) \X Producers \X (0..1) :
                      /\ b[3] = 0 \/ Forked(b[1], b[2])
                      /\ Slot(b) \notin Absent}
        Parent(r, a, x) ==
            <<r - 1, x, IF r > 1 /\ x = BaseLeader[r - 1] THEN Reference(p[r - 1], x, a) ELSE 0>>
        Parents(r, a) == {q \in {Parent(r, a, x) : x \in Producers} :
                             q[3] >= 0 /\ Slot(q) \notin Absent}
    IN  [b \in blocks |->
            <<Parent(b[1], b[2], b[2])>>
                \o SetToSortSeq(Parents(b[1], b[2]) \ {Parent(b[1], b[2], b[2])}, Before)]

mc_universes == {Universe(p) : p \in Patterns}

\* Leaders that are certified, skipped directly or by an anchor, and forked
\* (the leader of round 3 is the authority that is not honest).
mc_patterns ==
    { <<"split", "all", "all", "all", "one", "all">>,
      <<"one", "split", "fork31", "all", "one", "all">>,
      <<"blame", "one", "all", "one", "all", "all">>,
      <<"one", "all", "fork22", "all", "all", "all">> }

\* The follower is elected for round 3 until the schedule puts it aside.
mc_follower_leader == <<1, 0, 4, 2, 3, 0, 3>>
mc_recovery == { <<"all", "all", "all", "all", "all">> }
mc_absent == {<<r, 3>> : r \in 2..6}

\* The leader of round 3 is slow: only its own next block references it.
mc_slow_leader == <<1, 2, 0, 1, 2, 3, 3>>
mc_slow == { <<"all", "all", "blame", "all", "all", "all">> }
=============================================================================
