----------------------------- MODULE CommitRule -----------------------------
(***************************************************************************)
(* The commit rule of the consensus core: the base committer, the          *)
(* pipelined universal committer that drives it, the linearizer and the    *)
(* leader schedule, as operators over one node's view of the block DAG.    *)
(*                                                                         *)
(* A block is <<round, author, variant>>; a second variant in a slot is an *)
(* equivocation.  A view d is a record:                                    *)
(*   anc     the universe: anc[b] is the sequence of b's ancestors         *)
(*   recent  DagState::recent_blocks                                       *)
(*   stored  the blocks in the store                                       *)
(*   last    the round of the last committed leader                        *)
(***************************************************************************)
EXTENDS Committee, SequencesExt

CONSTANTS GcDepth,              \* protocol_config.gc_depth()
          BaseLeader,           \* BaseLeader[r]: elect_leader_stake_based(r, 0)
          GoodNode,             \* GoodNode[r]: which good node a swap at r takes
          CommitsPerSchedule,   \* CONSENSUS_COMMITS_PER_SCHEDULE
          SwapThreshold,        \* consensus_bad_nodes_stake_threshold(), percent
          ScoreOrder,           \* the shuffle that orders equal scores
          Timestamp             \* Timestamp[b]: the timestamp its author gave b

GENESIS_ROUND == 0
WAVE_LENGTH == 3                \* DEFAULT_WAVE_LENGTH

Round(b) == b[1]
Author(b) == b[2]
Slot(b) == <<b[1], b[2]>>

SaturatingSub(m, n) == IF m > n THEN m - n ELSE 0
GcRoundOf(commit_round) == SaturatingSub(commit_round, GcDepth)
GcRound(d) == GcRoundOf(d.last)

AncestorSet(d, b) == {d.anc[b][i] : i \in DOMAIN d.anc[b]}
Authors(S) == {Author(b) : b \in S}

\* BTreeMap order of block references within a round.
Before(b, c) == \/ Author(b) < Author(c)
                \/ Author(b) = Author(c) /\ b[3] < c[3]

-----------------------------------------------------------------------------
(* DagState reads                                                           *)

\* get_block(b).is_some(): genesis, the cache, then the store.
Has(d, b) == Round(b) = GENESIS_ROUND \/ b \in d.recent \/ b \in d.stored

\* get_uncommitted_blocks_at_slot: every cached block of the slot.
BlocksAtSlot(d, slot) == {b \in d.recent : Slot(b) = slot}

\* get_uncommitted_blocks_at_round: nothing at or below the last commit.
BlocksAtRound(d, r) ==
    IF r <= d.last THEN {} ELSE {b \in d.recent : Round(b) = r}

HighestAcceptedRound(d) == Max({0} \cup {Round(b) : b \in d.recent})

\* One pass of ancestors_at_round: blocks above the target round are
\* replaced by their ancestors; a missing block is dropped.
Expand(d, linked, r) ==
    {b \in linked : Round(b) <= r}
        \cup UNION {AncestorSet(d, b) : b \in {c \in linked : Round(c) > r /\ Has(d, c)}}

\* ancestors_at_round(later, r): the traversal descends one round per pass.
AncestorsAtRound(d, later, r) ==
    LET pass[n \in 0..Round(later)] ==
            IF n = 0 THEN AncestorSet(d, later) ELSE Expand(d, pass[n - 1], r)
    IN  {b \in pass[Round(later)] : Round(b) = r /\ Has(d, b)}

-----------------------------------------------------------------------------
(* BaseCommitter.  Waves are three rounds long and pipelined, so every      *)
(* round r has a leader slot, voted on in round r + 1 and decided in r + 2. *)

NotFound == <<>>

(***************************************************************************)
(* find_supported_block(slot, from).  It is called on ancestors of blocks  *)
(* of the decision round, so from is of round slot + 1 at most: all of its *)
(* ancestors are of the leader's round or lower, and the descent of the    *)
(* code into higher ancestors never happens.                               *)
(***************************************************************************)
FindSupportedBlock(d, slot, from) ==
    IF Round(from) >= slot[1] /\ \E a \in AncestorSet(d, from) : Slot(a) = slot
    THEN CHOOSE a \in AncestorSet(d, from) : Slot(a) = slot
    ELSE NotFound

IsVote(d, b, leader) == FindSupportedBlock(d, Slot(leader), b) = leader

\* The authorities whose vote for leader is among the first n ancestors of b.
VotersIn(d, b, leader, n) ==
    Authors({a \in {d.anc[b][i] : i \in 1..n} : Has(d, a) /\ IsVote(d, a, leader)})

\* Mutant: one vote short of a quorum makes a certificate.
IsCertificateWithWeakQuorum(d, b, leader) ==
    StakeOf(VotersIn(d, b, leader, Len(d.anc[b]))) >= QuorumThreshold - 1

IsCertificate(d, b, leader) ==
    ReachedQuorum(VotersIn(d, b, leader, Len(d.anc[b])))

(***************************************************************************)
(* is_certificate asserts that an ancestor it cannot find is at or below   *)
(* the collected round.  It stops at the ancestor that completes a quorum. *)
(***************************************************************************)
CertificatePanics(d, b, leader) ==
    \E i \in DOMAIN d.anc[b] :
        /\ ~ Has(d, d.anc[b][i])
        /\ Round(d.anc[b][i]) > GcRound(d)
        /\ ~ ReachedQuorum(VotersIn(d, b, leader, i - 1))

\* enough_leader_blame: a block that references no block of the leader's
\* authority, of whatever round, blames the leader.
EnoughLeaderBlame(d, slot) ==
    ReachedQuorum(Authors({b \in BlocksAtRound(d, slot[1] + 1) :
                              slot[2] \notin Authors(AncestorSet(d, b))}))

Certificates(d, leader) ==
    {b \in BlocksAtRound(d, Round(leader) + 2) : IsCertificate(d, b, leader)}

EnoughLeaderSupport(d, leader) == ReachedQuorum(Authors(Certificates(d, leader)))

\* The blocks of the decision round are examined, in order, once they carry
\* a quorum of stake and until a quorum of certificates is found.
SupportPanics(d, leader) ==
    /\ ReachedQuorum(Authors(BlocksAtRound(d, Round(leader) + 2)))
    /\ \E b \in BlocksAtRound(d, Round(leader) + 2) :
           /\ CertificatePanics(d, b, leader)
           /\ ~ ReachedQuorum(Authors({c \in Certificates(d, leader) : Before(c, b)}))

Commit(b) == [kind |-> "commit", slot |-> Slot(b), block |-> b]
Skip(slot) == [kind |-> "skip", slot |-> slot, block |-> NotFound]
Undecided(slot) == [kind |-> "undecided", slot |-> slot, block |-> NotFound]
Panic(slot) == [kind |-> "panic", slot |-> slot, block |-> NotFound]

\* The only element of a set of certified leader blocks decides; none or more
\* than one have outcomes of their own.
Decide(candidates, none, slot) ==
    IF candidates = {} THEN none
    ELSE IF Cardinality(candidates) > 1 THEN Panic(slot)
    ELSE Commit(CHOOSE b \in candidates : TRUE)

TryDirectDecide(d, slot) ==
    IF EnoughLeaderBlame(d, slot) THEN Skip(slot)
    ELSE IF \E l \in BlocksAtSlot(d, slot) : SupportPanics(d, l) THEN Panic(slot)
    ELSE Decide({l \in BlocksAtSlot(d, slot) : EnoughLeaderSupport(d, l)},
                Undecided(slot), slot)

\* A leader is certified by one of the potential certificates; they are
\* examined in order.
CertifiedAmong(d, potential, l) == \E b \in potential : IsCertificate(d, b, l)

PanicsAmong(d, potential, l) ==
    \E b \in potential :
        /\ CertificatePanics(d, b, l)
        /\ \A c \in potential : Before(c, b) => ~ IsCertificate(d, c, l)

DecideAmong(d, potential, slot) ==
    IF \E l \in BlocksAtSlot(d, slot) : PanicsAmong(d, potential, l) THEN Panic(slot)
    ELSE Decide({l \in BlocksAtSlot(d, slot) : CertifiedAmong(d, potential, l)},
                Skip(slot), slot)

DecideLeaderFromAnchor(d, anchor, slot) ==
    DecideAmong(d, AncestorsAtRound(d, anchor, slot[1] + WAVE_LENGTH - 1), slot)

(***************************************************************************)
(* try_indirect_decide: statuses[r] is the status of the leader of round   *)
(* r, for the rounds above the slot's.  The anchor is the first one at     *)
(* least a wave above that is not skipped.                                 *)
(***************************************************************************)
FirstAnchor(slot, statuses) ==
    LET anchors == {r \in DOMAIN statuses : /\ r >= slot[1] + WAVE_LENGTH
                                            /\ statuses[r].kind # "skip"}
    IN  IF anchors = {} THEN Undecided(slot) ELSE statuses[Min(anchors)]

DecideFrom(d, anchor, slot) ==
    IF anchor.kind # "commit" THEN Undecided(slot)
    ELSE DecideLeaderFromAnchor(d, anchor.block, slot)

TryIndirectDecide(d, slot, statuses) == DecideFrom(d, FirstAnchor(slot, statuses), slot)

-----------------------------------------------------------------------------
(* LeaderSchedule.  A swap table holds the good nodes, best first, and the  *)
(* bad nodes they stand in for.                                             *)

DefaultTable == [good |-> <<>>, bad |-> {}]

\* Among authorities in order (a sequence), the longest prefix whose stake
\* stays within the threshold.
RetrieveFirstNodes(order) ==
    LET Prefix(n) == {order[i] : i \in 1..n}
        n == Max({k \in 0..Len(order) :
                     StakeOf(Prefix(k)) <= (SwapThreshold * TotalStake) \div 100})
    IN  SubSeq(order, 1, n)

\* Authorities by descending score; equal scores in the order of the shuffle.
ByScore(scores) ==
    SortSeq(ScoreOrder, LAMBDA a, b : scores[a] > scores[b])

\* LeaderSwapTable::new
TableOf(order) == [good |-> RetrieveFirstNodes(order),
                   bad  |-> ToSet(RetrieveFirstNodes(Reverse(order)))]

SwapTable(scores) == TableOf(ByScore(scores))

\* elect_leader: a bad node is swapped for a good one that the round selects.
\* With no good node at all the lookup panics.
ElectionPanics(table, r) == BaseLeader[r] \in table.bad /\ table.good = <<>>

ElectLeader(table, r) ==
    IF BaseLeader[r] \in table.bad
    THEN table.good[1 + (GoodNode[r] % Len(table.good))]
    ELSE BaseLeader[r]

\* The blocks of a sequence of sub-dags that vote for one of their leaders,
\* counted only where the leader is scored no later than the voting block.
ScoringVotes(d, subdags) ==
    UNION {{b \in subdags[i].blocks :
               \E a \in AncestorSet(d, b) :
                   /\ Round(a) + 1 = Round(b)
                   /\ \E j \in 1..i : subdags[j].leader = a} : i \in DOMAIN subdags}

\* calculate_distributed_vote_scores: a vote earns its author the stake of
\* the scored blocks that strongly link to it.
Scores(d, subdags) ==
    LET scored == UNION {subdags[i].blocks : i \in DOMAIN subdags}
        Linking(v) == {b \in scored : v \in AncestorSet(d, b) /\ Round(b) = Round(v) + 1}
    IN  [a \in Authorities |->
            MapThenSumSet(LAMBDA v : StakeOf(Authors(Linking(v))),
                          {v \in ScoringVotes(d, subdags) : Author(v) = a})]

-----------------------------------------------------------------------------
(* UniversalCommitter                                                       *)

OrIndirectly(d, direct, slot, statuses) ==
    IF direct.kind = "undecided" THEN TryIndirectDecide(d, slot, statuses) ELSE direct

LeaderStatus(d, table, r, statuses) ==
    IF ElectionPanics(table, r) THEN Panic(<<r, BaseLeader[r]>>)
    ELSE OrIndirectly(d, TryDirectDecide(d, <<r, ElectLeader(table, r)>>),
                      <<r, ElectLeader(table, r)>>, statuses)

(***************************************************************************)
(* The statuses of the leaders of the rounds lo..hi, decided from the      *)
(* highest round down.                                                     *)
(***************************************************************************)
LeaderStatuses(d, table, lo, hi) ==
    LET status[r \in lo..(hi + 1)] ==
            IF r = hi + 1 THEN [x \in {} |-> Undecided(<<0, 0>>)]
            ELSE (r :> LeaderStatus(d, table, r, status[r + 1])) @@ status[r + 1]
    IN  status[lo]

Decided(l) == l.kind \in {"commit", "skip"}

\* The longest prefix of decided leaders, in round order from lo.
DecidedPrefix(statuses, lo) ==
    LET hi == Max({lo - 1} \cup {r \in DOMAIN statuses : \A x \in lo..r : Decided(statuses[x])})
    IN  [i \in 1..(hi - lo + 1) |-> statuses[lo + i - 1]]

\* A failed assertion leaves one status, "panic".
PrefixOrPanic(statuses, lo) ==
    IF \E r \in DOMAIN statuses : statuses[r].kind = "panic"
    THEN <<CHOOSE l \in Range(statuses) : l.kind = "panic">>
    ELSE DecidedPrefix(statuses, lo)

\* try_decide(last_decided): the leaders of the rounds after it that have a
\* decision round.
TryDecide(d, table, last_decided) ==
    IF HighestAcceptedRound(d) < last_decided[1] + WAVE_LENGTH THEN <<>>
    ELSE PrefixOrPanic(LeaderStatuses(d, table, last_decided[1] + 1,
                                      HighestAcceptedRound(d) - 2),
                       last_decided[1] + 1)

-----------------------------------------------------------------------------
(* Linearizer.  committed are the cached blocks flagged as committed.       *)

\* The ancestors of S that a sub-dag may still take in.
Uncommitted(d, committed, S) ==
    {a \in UNION {AncestorSet(d, b) : b \in S} :
        Round(a) > GcRound(d) /\ a \notin committed}

\* linearize_sub_dag, before sorting: a missing ancestor is left out.
SubDag(d, committed, leader) ==
    LET pass[n \in 0..Round(leader)] ==
            IF n = 0 THEN {leader}
            ELSE pass[n - 1] \cup {a \in Uncommitted(d, committed, pass[n - 1]) : Has(d, a)}
    IN  pass[Round(leader)]

\* set_committed fails on a block outside the cache or committed before.
LinearizePanics(d, committed, leader) ==
    ~ SubDag(d, committed, leader) \subseteq d.recent \ committed

\* The median, by stake, of the timestamps of blocks.
MedianTimestamp(blocks) ==
    LET total == StakeOf(Authors(blocks))
    IN  Min({t \in {Timestamp[b] : b \in blocks} :
                StakeOf(Authors({b \in blocks : Timestamp[b] <= t})) > total \div 2})

\* calculate_commit_timestamp
CommitTimestamp(d, leader, last_timestamp) ==
    LET parents == {a \in AncestorSet(d, leader) :
                       Round(a) + 1 = Round(leader) /\ Has(d, a)}
    IN  Max({last_timestamp,
             IF ReachedQuorum(Authors(parents))
             THEN MedianTimestamp(parents) ELSE Timestamp[leader]})

=============================================================================
