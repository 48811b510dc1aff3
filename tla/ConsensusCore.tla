---------------------------- MODULE ConsensusCore ----------------------------
(***************************************************************************)
(* The core thread of one consensus node: blocks and certified commits     *)
(* come in, Core::try_commit decides leaders and linearizes their          *)
(* sub-dags, DagState buffers blocks and commits until a flush, the commit *)
(* finalizer persists and forwards the commits, and a crash loses what was *)
(* not flushed (core/src/core.rs, core/commit_manager.rs,                  *)
(* core/block_importer.rs, commit_observer.rs, linearizer.rs,              *)
(* dag_state/, commit_finalizer.rs).                                       *)
(*                                                                         *)
(* The network is the universe anc, chosen once: the blocks that exist and *)
(* their ancestors.  A block reaches DagState when the ancestors above the *)
(* collected round are there, which is what module BlockManager promises.  *)
(* final is the sequence of commits of a node that has the whole universe; *)
(* certified commits fetched from peers are taken from it.                 *)
(*                                                                         *)
(* try_commit holds no lock between its phases, so the finalizer, a task   *)
(* of its own, may flush between them: its loop is a chain of steps here.  *)
(***************************************************************************)
EXTENDS CommitRule

CONSTANTS Universes,     \* the universes to choose from
          OwnIndex,      \* this node's authority
          CachedRounds,  \* dag_state_cached_rounds
          MaxBatch,      \* commits per call of add_certified_commits
          MaxCrashes     \* bound: crashes

VARIABLES
    anc,           \* the universe
    final,         \* the commits of a node that has all of it
    recent,        \* recent_blocks: the cached blocks
    committed,     \* those of them flagged as committed
    commits,       \* the commits so far: [leader, blocks, timestamp]
    scoring,       \* indices of the commits in scoring_subdag
    table,         \* the leader swap table
    info,          \* commit_info_to_write, or the last one written
    last_decided,  \* slot of the last decided leader
    pc,            \* where the core thread is; "panic" after a failed assertion
    certified,     \* certified commits of this call, not yet selected
    upto,          \* highest index of a certified commit of this call
    leaders,       \* sequenced leaders still to linearize
    sent,          \* index of the last commit sent to the finalizer
    queue,         \* indices sent to the finalizer
    store,         \* what is on disk: [blocks, commits, info]
    crashes

universe == <<anc, final>>
dagVars == <<recent, committed, commits, scoring, table, info>>
callVars == <<certified, upto, leaders>>
outVars == <<sent, queue>>
vars == <<anc, final, recent, committed, commits, scoring, table, info,
          last_decided, pc, certified, upto, leaders, sent, queue, store, crashes>>

NoInfo == [index |-> 0, table |-> DefaultTable]

\* Round of the leader of the last of a sequence of commits.
LastCommitRound(cs) == IF cs = <<>> THEN 0 ELSE Round(Last(cs).leader)
LastTimestamp(cs) == IF cs = <<>> THEN 0 ELSE Last(cs).timestamp

\* last_commit_leader: the genesis block of the first authority at the start.
LastCommitLeader(cs) == IF cs = <<>> THEN <<0, 0>> ELSE Slot(Last(cs).leader)

View == [anc |-> anc, recent |-> recent, stored |-> store.blocks,
         last |-> LastCommitRound(commits)]

gc_round == GcRoundOf(LastCommitRound(commits))

-----------------------------------------------------------------------------
(* The reference: what a node with the whole universe commits, one decision *)
(* at a time and with a leader schedule recomputed from the commits.        *)

ScheduleAfter(d, cs) ==
    LET full == Len(cs) - (Len(cs) % CommitsPerSchedule)
    IN  IF full = 0 THEN DefaultTable
        ELSE SwapTable(Scores(d, SubSeq(cs, full - CommitsPerSchedule + 1, full)))

MakeCommit(d, done, leader, cs) ==
    [leader |-> leader, blocks |-> SubDag(d, done, leader),
     timestamp |-> CommitTimestamp(d, leader, LastTimestamp(cs))]

WholeView(a, cs) == [anc |-> a, recent |-> DOMAIN a, stored |-> DOMAIN a,
                     last |-> LastCommitRound(cs)]

Extend(s, commit) ==
    [commits |-> Append(s.commits, commit), at |-> Slot(commit.leader),
     done |-> s.done \cup commit.blocks]

\* The effect of the first of the leaders that d decides.
Advance(d, s, decided) ==
    IF decided = <<>> \/ ~ Decided(decided[1]) THEN s
    ELSE IF decided[1].kind = "skip" THEN [s EXCEPT !.at = decided[1].slot]
    ELSE Extend(s, MakeCommit(d, s.done, decided[1].block, s.commits))

AdvanceIn(d, s) == Advance(d, s, TryDecide(d, ScheduleAfter(d, s.commits), s.at))

Ledger(a) ==
    LET after[n \in 0..Max({Round(b) : b \in DOMAIN a})] ==
            IF n = 0 THEN [commits |-> <<>>, at |-> <<0, 0>>, done |-> {}]
            ELSE AdvanceIn(WholeView(a, after[n - 1].commits), after[n - 1])
    IN  after[Max({Round(b) : b \in DOMAIN a})].commits

-----------------------------------------------------------------------------
(* DagState::flush and recovery                                             *)

\* Mutant: one round too many is evicted.
EvictionRoundPastGc(blocks, author, gc) ==
    Min({gc + 1, SaturatingSub(Max({0} \cup {Round(b) : b \in {c \in blocks : Author(c) = author}}),
                               CachedRounds)})

\* eviction_round of the author of b, given the blocks that are cached.
EvictionRound(blocks, author, gc) ==
    Min({gc, SaturatingSub(Max({0} \cup {Round(b) : b \in {c \in blocks : Author(c) = author}}),
                           CachedRounds)})

Cached(blocks, gc) == {b \in blocks : Round(b) > EvictionRound(blocks, Author(b), gc)}

\* Mutant: the commits are left for a later flush.
FlushWithoutCommits(cached) ==
    /\ store' = [blocks |-> store.blocks \cup cached, commits |-> store.commits, info |-> info]
    /\ recent' = Cached(cached, gc_round)
    /\ committed' = committed \cap recent'

\* flush(): all that is buffered is written in one batch; then the cache is
\* trimmed.  cached is recent_blocks at the time.
Flush(cached) ==
    /\ store' = [blocks |-> store.blocks \cup cached, commits |-> commits, info |-> info]
    /\ recent' = Cached(cached, gc_round)
    /\ committed' = committed \cap recent'

Init ==
    /\ anc \in Universes
    /\ final = Ledger(anc)
    /\ recent = {} /\ committed = {} /\ commits = <<>> /\ scoring = {}
    /\ table = DefaultTable /\ info = NoInfo
    /\ last_decided = <<0, 0>> /\ pc = "idle"
    /\ certified = <<>> /\ upto = 0 /\ leaders = <<>>
    /\ sent = 0 /\ queue = <<>>
    /\ store = [blocks |-> {}, commits |-> <<>>, info |-> NoInfo]
    /\ crashes = 0

-----------------------------------------------------------------------------
(* What comes in                                                            *)

\* What the block manager lets into DagState: a new block above the gc round
\* whose ancestors above it are there.
Acceptable(b) ==
    /\ ~ Has(View, b)
    /\ Round(b) > gc_round
    /\ \A a \in AncestorSet(View, b) : Has(View, a) \/ Round(a) <= gc_round

\* add_blocks: a batch of blocks, one at a time, and then try_commit.
AcceptBlock(b) ==
    /\ pc \in {"idle", "accept"}
    /\ Author(b) # OwnIndex /\ Acceptable(b)
    /\ recent' = recent \cup {b}
    /\ pc' \in {"accept", "loop"}
    /\ UNCHANGED <<universe, committed, commits, scoring, table, info, last_decided,
                   callVars, outVars, store, crashes>>

\* try_propose: a block of this node is flushed before it is broadcast, and
\* followed by try_commit.
ProposeBlock(b) ==
    /\ pc = "idle"
    /\ Author(b) = OwnIndex /\ Acceptable(b)
    /\ Flush(recent \cup {b})
    /\ pc' = "loop"
    /\ UNCHANGED <<universe, commits, scoring, table, info, last_decided,
                   callVars, outVars, crashes>>

(***************************************************************************)
(* add_certified_commits with the commits up to index k: those already     *)
(* committed are filtered out, the blocks of votes are accepted, and       *)
(* try_commit takes the rest.  A peer can only have blocks of this node    *)
(* that the node has proposed.                                             *)
(***************************************************************************)
AddCertifiedCommits(k, votes) ==
    /\ pc = "idle"
    /\ k > Len(commits)
    /\ LET fetched == SubSeq(final, Len(commits) + 1, k)
       IN  /\ \A i \in DOMAIN fetched : \A b \in fetched[i].blocks :
                  Author(b) = OwnIndex => Has(View, b)
           /\ certified' = fetched
    /\ \A b \in votes : Author(b) # OwnIndex /\ Acceptable(b)
    /\ recent' = recent \cup votes
    /\ upto' = k
    /\ pc' = "loop"
    /\ UNCHANGED <<universe, committed, commits, scoring, table, info, last_decided,
                   leaders, outVars, store, crashes>>

(***************************************************************************)
(* try_unsuspend_blocks_for_latest_gc_round, at the end of an iteration:   *)
(* a block that waited for ancestors now at or below the gc round.         *)
(***************************************************************************)
Unsuspend(b) ==
    /\ pc = "loop" /\ gc_round > 0
    /\ Author(b) # OwnIndex /\ Acceptable(b)
    /\ \E a \in AncestorSet(View, b) : ~ Has(View, a)
    /\ recent' = recent \cup {b}
    /\ UNCHANGED <<universe, committed, commits, scoring, table, info, last_decided,
                   pc, callVars, outVars, store, crashes>>

-----------------------------------------------------------------------------
(* Core::try_commit                                                         *)

ScheduleDue == Cardinality(scoring) = CommitsPerSchedule

\* update_leader_schedule_v2
UpdatedTable ==
    IF ScheduleDue
    THEN SwapTable(Scores(View, [i \in 1..CommitsPerSchedule |->
                                    commits[Min(scoring) + i - 1]]))
    ELSE table

UpdateSchedule ==
    /\ table' = UpdatedTable
    /\ info' = IF ScheduleDue THEN [index |-> Len(commits), table |-> table'] ELSE info
    /\ scoring' = IF ScheduleDue THEN {} ELSE scoring

CommitsUntilUpdate ==
    IF ScheduleDue THEN CommitsPerSchedule ELSE CommitsPerSchedule - Cardinality(scoring)

Limit(seq, n) == SubSeq(seq, 1, Min({n, Len(seq)}))

\* An iteration that has certified commits: those that fit before the next
\* schedule change are selected and their blocks accepted as they are.
SelectCertified ==
    /\ pc = "loop" /\ certified # <<>>
    /\ UpdateSchedule
    /\ LET selected == Limit(certified, CommitsUntilUpdate)
           blocks == UNION {selected[i].blocks : i \in DOMAIN selected}
       IN  /\ recent' = recent \cup {b \in blocks : ~ Has(View, b)}
           /\ certified' = SubSeq(certified, Len(selected) + 1, Len(certified))
           /\ leaders' = [i \in DOMAIN selected |-> selected[i].leader]
           /\ last_decided' = Slot(Last(selected).leader)
    /\ pc' = "linearize"
    /\ UNCHANGED <<universe, committed, commits, upto, outVars, store, crashes>>

\* Mutant: decisions past the next schedule change are kept.
UntruncatedLeaders(decided) == decided

Truncate(decided) == Limit(decided, CommitsUntilUpdate)

\* The end of try_commit: what was committed in place of a certified commit
\* must be that commit.
Finish ==
    /\ upto' = 0
    /\ pc' = IF \E i \in DOMAIN commits : i <= upto /\ commits[i] # final[i]
             THEN "panic" ELSE "idle"

\* Without a leader to commit the loop ends.
Sequence(sequenced) ==
    /\ leaders' = [i \in DOMAIN sequenced |-> sequenced[i].block]
    /\ IF sequenced = <<>> THEN Finish ELSE pc' = "linearize" /\ UNCHANGED upto

ApplyDecision(decided) ==
    IF decided # <<>> /\ ~ Decided(Last(decided))
    THEN pc' = "panic" /\ UNCHANGED <<last_decided, leaders, upto>>
    ELSE /\ last_decided' = IF decided = <<>> THEN last_decided ELSE Last(decided).slot
         /\ Sequence(SelectSeq(decided, LAMBDA l : l.kind = "commit"))

\* An iteration that runs the commit rule.
DecideLocally ==
    /\ pc = "loop" /\ certified = <<>>
    /\ UpdateSchedule
    /\ ApplyDecision(Truncate(TryDecide(View, table', last_decided)))
    /\ UNCHANGED <<universe, recent, committed, commits, certified, outVars, store, crashes>>

\* CommitObserver::handle_commit for the next leader: the sub-dag is flagged
\* and buffered as a commit; set_committed fails for a block that is not
\* cached or flagged already.  Commits of one iteration are sent on together.
Buffer(commit) ==
    /\ commits' = Append(commits, commit)
    /\ committed' = committed \cup commit.blocks
    /\ leaders' = Tail(leaders)

SendToFinalizer ==
    /\ scoring' = scoring \cup (sent + 1)..Len(commits')
    /\ queue' = queue \o [i \in 1..(Len(commits') - sent) |-> sent + i]
    /\ sent' = Len(commits')

CommitLeader ==
    /\ pc = "linearize"
    /\ Buffer(MakeCommit(View, committed, Head(leaders), commits))
    /\ IF Len(leaders) > 1 THEN UNCHANGED <<scoring, queue, sent>> ELSE SendToFinalizer
    /\ pc' = IF LinearizePanics(View, committed, Head(leaders)) THEN "panic"
             ELSE IF Len(leaders) > 1 THEN "linearize" ELSE "loop"
    /\ UNCHANGED <<universe, recent, table, info, last_decided, certified, upto,
                   store, crashes>>

-----------------------------------------------------------------------------
(* CommitFinalizer::run, a task of its own.  Which of the queued commits it *)
(* can finalize depends on transaction votes; it goes in order.             *)

\* The finalized commits are buffered, everything buffered is flushed, and
\* the commits are sent to the commit processor.
FinalizerFlush(n) ==
    /\ pc # "panic"
    /\ queue' = SubSeq(queue, n + 1, Len(queue))
    /\ Flush(recent)
    /\ UNCHANGED <<universe, commits, scoring, table, info, last_decided, pc, callVars,
                   sent, crashes>>

-----------------------------------------------------------------------------
(* A crash, and DagState::new, LeaderSchedule::from_store, CommitObserver   *)
(* and Core::new on what was flushed.                                       *)

\* The commits whose blocks may be above the gc round: backwards from the last
\* one to the first whose leader is not.
StatusRecoveryRange(cs) ==
    LET gc == GcRoundOf(LastCommitRound(cs))
    IN  {i \in DOMAIN cs : gc > 0 => \A j \in i..Len(cs) : Round(cs[j].leader) > gc}

RecoveredStatus(cs) ==
    UNION {{b \in cs[i].blocks : Round(b) > GcRoundOf(LastCommitRound(cs))} :
              i \in StatusRecoveryRange(cs)}

\* set_committed returns FALSE for a block that is not cached, or flagged.
RecoveryPanics(cs, cached) ==
    \/ ~ RecoveredStatus(cs) \subseteq cached
    \/ \E i, j \in StatusRecoveryRange(cs) :
          i # j /\ cs[i].blocks \cap cs[j].blocks \cap RecoveredStatus(cs) # {}

\* Mutant: scoring starts over from the first commit.
RecoveredScoringAll(s) == DOMAIN s.commits

\* Mutant: scoring restarts from nothing.
RecoveredScoringLost(s) == {}

\* scan_commits(commit_recovery_start_index..=last)
RecoveredScoring(s) == {i \in DOMAIN s.commits : i > s.info.index}

Restart ==
    /\ pc # "panic" /\ crashes < MaxCrashes
    /\ crashes' = crashes + 1
    /\ commits' = store.commits
    /\ recent' = Cached(store.blocks, GcRoundOf(LastCommitRound(store.commits)))
    /\ committed' = RecoveredStatus(store.commits)
    /\ scoring' = RecoveredScoring(store)
    /\ table' = store.info.table
    /\ info' = store.info
    /\ last_decided' = LastCommitLeader(store.commits)
    /\ pc' = IF RecoveryPanics(store.commits, recent') THEN "panic" ELSE "loop"
    /\ certified' = <<>> /\ upto' = 0 /\ leaders' = <<>>
    /\ sent' = Len(store.commits)
    /\ queue' = [i \in 1..Len(store.commits) |-> i]
    /\ UNCHANGED <<universe, store>>

Next ==
    \/ \E b \in DOMAIN anc : AcceptBlock(b) \/ ProposeBlock(b) \/ Unsuspend(b)
    \/ \E k \in DOMAIN final :
          /\ k <= Len(commits) + MaxBatch
          /\ \E votes \in {{}} \cup {{b} : b \in DOMAIN anc} : AddCertifiedCommits(k, votes)
    \/ SelectCertified \/ DecideLocally \/ CommitLeader
    \/ \E n \in DOMAIN queue : FinalizerFlush(n)
    \/ Restart

Spec == Init /\ [][Next]_vars

-----------------------------------------------------------------------------
(* Properties                                                               *)

TypeOK ==
    /\ recent \subseteq DOMAIN anc /\ (pc = "panic" \/ committed \subseteq recent)
    /\ sent <= Len(commits)
    /\ scoring \subseteq DOMAIN commits /\ Cardinality(scoring) <= CommitsPerSchedule
    /\ pc \in {"idle", "accept", "loop", "linearize", "panic"}
    /\ upto \in 0..Len(final)
    /\ crashes \in 0..MaxCrashes

(***************************************************************************)
(* Whatever blocks and certified commits a node gets, in whatever order    *)
(* and batches, and wherever it crashes, its commits are a prefix of those *)
(* of a node that has every block: same leaders, same sub-dags, same       *)
(* timestamps (UniversalCommitter, Linearizer, LeaderSchedule).            *)
(***************************************************************************)
Agreement ==
    /\ Len(commits) <= Len(final)
    /\ \A i \in DOMAIN commits : commits[i] = final[i]

(***************************************************************************)
(* No assertion of the commit rule, the linearizer, try_commit's sanity    *)
(* check or the recovery of DagState fails.                                *)
(***************************************************************************)
NoPanic == pc # "panic"

(***************************************************************************)
(* The commits that left the finalizer for the commit processor are on     *)
(* disk, so they are sent again, not decided again, after a crash; and     *)
(* what is on disk is closed: DagState::flush, "when buffering a commit,   *)
(* all of its included blocks and the previous commits must also be        *)
(* buffered".                                                              *)
(***************************************************************************)
DeliveredIsDurable ==
    /\ sent - Len(queue) <= Len(store.commits)
    /\ \A i \in DOMAIN store.commits : store.commits[i].blocks \subseteq store.blocks
=============================================================================
