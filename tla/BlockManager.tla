---------------------------- MODULE BlockManager ----------------------------
(***************************************************************************)
(* The block manager of the consensus core (core/src/block_manager.rs)     *)
(* with the part of DagState it writes to.                                 *)
(*                                                                         *)
(* A block that arrives before its ancestors is suspended.  Three maps     *)
(* record why: which ancestors a suspended block still waits for, which    *)
(* blocks wait for a missing ancestor, and which blocks must be fetched.   *)
(* Blocks reach the manager from peers, from the synchronizer and, as      *)
(* parts of certified commits, from the commit syncer; each commit may     *)
(* advance the garbage-collection round, which releases more blocks.       *)
(*                                                                         *)
(* The manager runs on the core thread, one call at a time.  A call that   *)
(* loops is a chain of steps here: its local variables are to_process,     *)
(* to_accept, certified, leader and gc_loop, and no call starts before the *)
(* previous one has ended (Idle).  A batch of blocks is a sequence of      *)
(* one-block calls, which is what the code's loop over the batch does.     *)
(***************************************************************************)
EXTENDS Naturals, FiniteSets

CONSTANTS Blocks,        \* every block that can exist, genesis included
          Round,         \* Round[b]: the round of block b
          Author,        \* Author[b]: the authority that signed b
          Ancestors,     \* Ancestors[b]: the blocks that b references
          OwnIndex,      \* this node's authority
          GcDepth,       \* protocol_config.gc_depth()
          MaxSuspended   \* MAX_SUSPENDED_BLOCKS_PER_AUTHORITY * committee size

GENESIS_ROUND == 0
Genesis == {b \in Blocks : Round[b] = GENESIS_ROUND}

(***************************************************************************)
(* The block verifier has already rejected blocks whose ancestors are not  *)
(* of lower rounds.                                                        *)
(***************************************************************************)
ASSUME BlocksAssumption ==
    /\ Round \in [Blocks -> Nat]
    /\ Ancestors \in [Blocks -> SUBSET Blocks]
    /\ \A b \in Blocks : \A a \in Ancestors[b] : Round[a] < Round[b]

ASSUME BoundsAssumption == GcDepth \in Nat /\ MaxSuspended \in Nat

VARIABLES
    dag,                \* the blocks DagState contains
    last_commit_round,  \* round of the last committed leader
    suspended,          \* suspended_blocks: block -> ancestors it waits for
    missing_ancestors,  \* ancestor -> blocks that wait for it
    missing_blocks,     \* blocks to fetch
    to_process,         \* local of try_unsuspend_children_blocks
    to_accept,          \* blocks_to_accept / unsuspended_blocks
    certified,          \* blocks of certified commits still to accept
    leader,             \* {l}: l is the leader of the last of them; or {}
    gc_loop             \* inside try_unsuspend_blocks_for_latest_gc_round

dagVars == <<dag, last_commit_round>>
maps == <<suspended, missing_ancestors, missing_blocks>>
locals == <<to_process, to_accept, certified, leader, gc_loop>>
vars == <<dag, last_commit_round, suspended, missing_ancestors, missing_blocks,
          to_process, to_accept, certified, leader, gc_loop>>

\* u32::saturating_sub
SaturatingSub(m, n) == IF m > n THEN m - n ELSE 0

GcRoundOf(commit_round) == SaturatingSub(commit_round, GcDepth)

gc_round == GcRoundOf(last_commit_round)

Suspended == DOMAIN suspended

Idle == to_process = {} /\ to_accept = {} /\ leader = {} /\ ~gc_loop

\* The blocks registered as waiting for a (an absent key is an empty set).
WaitingFor(a) ==
    IF a \in DOMAIN missing_ancestors THEN missing_ancestors[a] ELSE {}

SameSlot(b, c) == Round[b] = Round[c] /\ Author[b] = Author[c]

(***************************************************************************)
(* DagState::accept_block keeps one block per slot of this node's own      *)
(* authority; a second one is dropped, silently for the block manager.     *)
(***************************************************************************)
OwnSlotTaken(b, accepted) ==
    Author[b] = OwnIndex /\ \E c \in accepted : c # b /\ SameSlot(b, c)

(***************************************************************************)
(* accept_blocks(S): the outcomes of accepting the blocks of S one after   *)
(* the other under the write lock.  kept are the blocks not dropped.       *)
(***************************************************************************)
AcceptBlocks(S) ==
    \E kept \in SUBSET S :
        /\ \A b \in S \ kept : OwnSlotTaken(b, dag \cup kept)
        /\ \A b \in kept : ~ OwnSlotTaken(b, dag \cup kept)
        /\ dag' = dag \cup kept

Init ==
    /\ dag = Genesis
    /\ last_commit_round = 0
    /\ suspended = [b \in {} |-> {}]
    /\ missing_ancestors = [b \in {} |-> {}]
    /\ missing_blocks = {}
    /\ to_process = {}
    /\ to_accept = {}
    /\ certified = {}
    /\ leader = {}
    /\ gc_loop = FALSE

-----------------------------------------------------------------------------
(* try_accept_one_block                                                     *)

\* The conditions under which a received block is neither Skipped nor
\* Processed: the suspension limit, a known block, a collected round.
Admissible(b) ==
    /\ Cardinality(Suspended) < MaxSuspended
    /\ b \notin Suspended
    /\ b \notin dag
    /\ Round[b] > gc_round

\* Mutant: the oldest round above the collected one is not required.
RequiredAncestorsOffByOne(b) ==
    {a \in Ancestors[b] : Round[a] = GENESIS_ROUND \/ Round[a] > gc_round + 1}

RequiredAncestors(b) ==
    {a \in Ancestors[b] : Round[a] = GENESIS_ROUND \/ Round[a] > gc_round}

\* Mutant: the suspended block itself stays in missing_blocks.
SuspendBlockStillMissing(b) ==
    LET missing == RequiredAncestors(b) \ dag
    IN  /\ Idle
        /\ Admissible(b)
        /\ missing # {}
        /\ missing_ancestors' =
               [a \in DOMAIN missing_ancestors \cup missing |->
                    IF a \in missing THEN WaitingFor(a) \cup {b}
                                     ELSE missing_ancestors[a]]
        /\ missing_blocks' = missing_blocks \cup (missing \ Suspended)
        /\ suspended' = [c \in Suspended \cup {b} |->
                             IF c = b THEN missing ELSE suspended[c]]
        /\ UNCHANGED <<dagVars, locals>>

\* Mutant: the block is suspended on all its ancestors, the present ones too.
SuspendBlockOnAllAncestors(b) ==
    LET missing == RequiredAncestors(b)
    IN  /\ Idle
        /\ Admissible(b)
        /\ ~ missing \subseteq dag
        /\ missing_ancestors' =
               [a \in DOMAIN missing_ancestors \cup missing |->
                    IF a \in missing THEN WaitingFor(a) \cup {b}
                                     ELSE missing_ancestors[a]]
        /\ missing_blocks' = (missing_blocks \cup (missing \ Suspended)) \ {b}
        /\ suspended' = [c \in Suspended \cup {b} |->
                             IF c = b THEN missing ELSE suspended[c]]
        /\ UNCHANGED <<dagVars, locals>>

\* TryAcceptResult::Suspended
SuspendBlock(b) ==
    LET missing == RequiredAncestors(b) \ dag
    IN  /\ Idle
        /\ Admissible(b)
        /\ missing # {}
        /\ missing_ancestors' =
               [a \in DOMAIN missing_ancestors \cup missing |->
                    IF a \in missing THEN WaitingFor(a) \cup {b}
                                     ELSE missing_ancestors[a]]
        /\ missing_blocks' = (missing_blocks \cup (missing \ Suspended)) \ {b}
        /\ suspended' = [c \in Suspended \cup {b} |->
                             IF c = b THEN missing ELSE suspended[c]]
        /\ UNCHANGED <<dagVars, locals>>

\* TryAcceptResult::Accepted: the children are unsuspended next.
AcceptBlock(b) ==
    /\ Idle
    /\ Admissible(b)
    /\ RequiredAncestors(b) \subseteq dag
    /\ missing_blocks' = missing_blocks \ {b}
    /\ to_process' = {b}
    /\ to_accept' = {b}
    /\ UNCHANGED <<dagVars, suspended, missing_ancestors,
                   certified, leader, gc_loop>>

\* A peer or the synchronizer delivers block b.
TryAcceptOneBlock(b) == SuspendBlock(b) \/ AcceptBlock(b)

\* try_find_blocks for one reference that is unknown so far.
TryFindBlocks(b) ==
    /\ Idle
    /\ Round[b] > gc_round
    /\ b \notin dag
    /\ b \notin Suspended
    /\ b \notin missing_blocks
    /\ missing_blocks' = missing_blocks \cup {b}
    /\ missing_ancestors' =
           [a \in DOMAIN missing_ancestors \cup {b} |-> WaitingFor(a)]
    /\ UNCHANGED <<dagVars, suspended, locals>>

-----------------------------------------------------------------------------
(* try_unsuspend_children_blocks                                            *)

\* Mutant: a freed block stays in the suspended map.
UnsuspendChildrenKeepsFreed(x) ==
    LET children == WaitingFor(x)
        left(c) == IF c \in children THEN suspended[c] \ {x} ELSE suspended[c]
        freed == {c \in children : left(c) = {}}
    IN  /\ x \in to_process
        /\ missing_ancestors' =
               [a \in DOMAIN missing_ancestors \ {x} |-> missing_ancestors[a]]
        /\ suspended' = [c \in Suspended |-> left(c)]
        /\ to_process' = (to_process \ {x}) \cup freed
        /\ to_accept' = to_accept \cup freed
        /\ UNCHANGED <<dagVars, missing_blocks, certified, leader, gc_loop>>

\* One iteration of the loop: x leaves the work list and every block that
\* waits for x has one missing ancestor less; those that wait for nothing
\* more are unsuspended and join the work list.
UnsuspendChildren(x) ==
    LET children == WaitingFor(x)
        left(c) == IF c \in children THEN suspended[c] \ {x} ELSE suspended[c]
        freed == {c \in children : left(c) = {}}
    IN  /\ x \in to_process
        /\ missing_ancestors' =
               [a \in DOMAIN missing_ancestors \ {x} |-> missing_ancestors[a]]
        /\ suspended' = [c \in Suspended \ freed |-> left(c)]
        /\ to_process' = (to_process \ {x}) \cup freed
        /\ to_accept' = to_accept \cup freed
        /\ UNCHANGED <<dagVars, missing_blocks, certified, leader, gc_loop>>

\* The accepted block and the blocks it released enter DagState.
AcceptUnsuspended ==
    /\ to_process = {}
    /\ to_accept # {}
    /\ AcceptBlocks(to_accept)
    /\ to_accept' = {}
    /\ UNCHANGED <<last_commit_round, maps, to_process, certified, leader,
                   gc_loop>>

-----------------------------------------------------------------------------
(* Certified commits and garbage collection (Core::try_commit)              *)

\* The commit syncer hands over the blocks of one or several consecutive
\* commits, l being the leader of the last; S are those not in the DAG yet
\* (the others would be Processed).  A commit holds the history of its
\* leader down to the garbage-collection round, so what S lacks is in the
\* DAG already or below the round the last of these commits collects.
AddCertifiedCommits(l, S) ==
    /\ Idle
    /\ l \in S
    /\ Round[l] > last_commit_round
    /\ \A b \in S : Round[b] > gc_round /\ Round[b] <= Round[l]
    /\ \A b \in S : \A a \in Ancestors[b] :
           Round[a] > GcRoundOf(Round[l]) => a \in S \cup dag
    /\ certified' = S
    /\ leader' = {l}
    /\ UNCHANGED <<dagVars, maps, to_process, to_accept, gc_loop>>

\* Mutant: the committed block leaves the suspended map but stays registered
\* with the ancestors it was waiting for.
TryAcceptOneCommittedBlockLeavesRefs(b) ==
    /\ b \in certified
    /\ \A c \in certified : Round[b] <= Round[c]
    /\ to_process = {}
    /\ to_accept = {}
    /\ certified' = certified \ {b}
    /\ \/ b \in dag /\ UNCHANGED <<dag, maps, to_process>>
       \/ /\ b \notin dag
          /\ missing_blocks' = missing_blocks \ {b}
          /\ suspended' = [c \in Suspended \ {b} |-> suspended[c]]
          /\ AcceptBlocks({b})
          /\ to_process' = {b}
          /\ UNCHANGED missing_ancestors
    /\ UNCHANGED <<last_commit_round, to_accept, leader, gc_loop>>

\* try_accept_one_committed_block, for the certified block b of lowest round:
\* a known block is Processed, any other is accepted whatever it waits for.
TryAcceptOneCommittedBlock(b) ==
    /\ b \in certified
    /\ \A c \in certified : Round[b] <= Round[c]
    /\ to_process = {}
    /\ to_accept = {}
    /\ certified' = certified \ {b}
    /\ \/ b \in dag /\ UNCHANGED <<dag, maps, to_process>>
       \/ /\ b \notin dag
          /\ missing_blocks' = missing_blocks \ {b}
          /\ suspended' = [c \in Suspended \ {b} |-> suspended[c]]
          /\ missing_ancestors' =
                 [a \in DOMAIN missing_ancestors |->
                      IF b \in Suspended /\ a \in suspended[b]
                          THEN missing_ancestors[a] \ {b}
                          ELSE missing_ancestors[a]]
          /\ AcceptBlocks({b})
          /\ to_process' = {b}
    /\ UNCHANGED <<last_commit_round, to_accept, leader, gc_loop>>

\* The commit is linearized: the last committed leader, and with it the
\* garbage-collection round, advance; the manager is then told.
CommitCertified ==
    /\ certified = {}
    /\ to_process = {}
    /\ to_accept = {}
    /\ \E l \in leader : last_commit_round' = Round[l]
    /\ leader' = {}
    /\ gc_loop' = TRUE
    /\ UNCHANGED <<dag, maps, to_process, to_accept, certified>>

\* The decision rule commits a leader of the local DAG.
CommitLocal(l) ==
    /\ Idle
    /\ l \in dag
    /\ Round[l] > last_commit_round
    /\ last_commit_round' = Round[l]
    /\ gc_loop' = TRUE
    /\ UNCHANGED <<dag, maps, to_process, to_accept, certified, leader>>

\* Mutant: any missing ancestor, not the one of lowest round.
FirstMissingUnordered(k) == k \in DOMAIN missing_ancestors

\* The missing ancestor of lowest round (first_key_value of the map).
FirstMissing(k) ==
    /\ k \in DOMAIN missing_ancestors
    /\ \A a \in DOMAIN missing_ancestors : Round[k] <= Round[a]

\* One iteration of try_unsuspend_blocks_for_latest_gc_round: a missing
\* ancestor at or below the collected round is no longer waited for.
GcUnsuspend(k) ==
    /\ gc_loop
    /\ to_process = {}
    /\ to_accept = {}
    /\ FirstMissing(k)
    /\ Round[k] <= gc_round
    /\ missing_blocks' = missing_blocks \ {k}
    /\ to_process' = {k}
    /\ UNCHANGED <<dagVars, suspended, missing_ancestors, to_accept,
                   certified, leader, gc_loop>>

\* Mutant: the loop ends after the first missing ancestor.
GcDoneEarly ==
    /\ gc_loop
    /\ to_process = {}
    /\ to_accept = {}
    /\ gc_loop' = FALSE
    /\ UNCHANGED <<dagVars, maps, to_process, to_accept, certified, leader>>

\* The first missing ancestor lies above the collected round, or none is left.
GcDone ==
    /\ gc_loop
    /\ to_process = {}
    /\ to_accept = {}
    /\ \A k \in DOMAIN missing_ancestors : Round[k] > gc_round
    /\ gc_loop' = FALSE
    /\ UNCHANGED <<dagVars, maps, to_process, to_accept, certified, leader>>

-----------------------------------------------------------------------------
\* The steps of a call that has started.
Continue ==
    \/ \E x \in to_process : UnsuspendChildren(x)
    \/ AcceptUnsuspended
    \/ \E b \in certified : TryAcceptOneCommittedBlock(b)
    \/ CommitCertified
    \/ \E k \in DOMAIN missing_ancestors : GcUnsuspend(k)
    \/ GcDone

Next ==
    \/ \E b \in Blocks : TryAcceptOneBlock(b)
    \/ \E b \in Blocks : TryFindBlocks(b)
    \/ \E S \in SUBSET (Blocks \ dag) : \E l \in S : AddCertifiedCommits(l, S)
    \/ \E l \in dag : CommitLocal(l)
    \/ Continue

Spec == Init /\ [][Next]_vars

(***************************************************************************)
(* The synchronizer keeps fetching every block of missing_blocks, so a     *)
(* block that stays missing is delivered; a started call runs to its end.  *)
(***************************************************************************)
FetchMissing(b) == b \in missing_blocks /\ TryAcceptOneBlock(b)

FairSpec == /\ Spec
            /\ WF_vars(Continue)
            /\ \A b \in Blocks : WF_vars(FetchMissing(b))
-----------------------------------------------------------------------------
(* Properties                                                               *)

\* Every variable holds blocks, and a suspended block waits for at least one
\* ancestor (block_manager.rs removes it from the map with the last one).
TypeOK ==
    /\ dag \in SUBSET Blocks
    /\ last_commit_round \in Nat
    /\ Suspended \in SUBSET Blocks
    /\ suspended \in [Suspended -> (SUBSET Blocks) \ {{}}]
    /\ DOMAIN missing_ancestors \in SUBSET Blocks
    /\ missing_ancestors \in [DOMAIN missing_ancestors -> SUBSET Blocks]
    /\ missing_blocks \in SUBSET Blocks
    /\ to_process \in SUBSET Blocks
    /\ to_accept \in SUBSET Blocks
    /\ certified \in SUBSET Blocks
    /\ leader \in SUBSET Blocks
    /\ gc_loop \in BOOLEAN

\* try_unsuspend_block finds each block it is called for in the suspended
\* map, with the accepted ancestor among those it waits for: neither its
\* expect nor its assert can fail, whatever mix of received and certified
\* blocks came before.
UnsuspendNeverPanics ==
    \A x \in to_process : \A c \in WaitingFor(x) :
        c \in Suspended /\ x \in suspended[c]

\* The comment on missing_blocks: between calls it holds the missing
\* ancestors that are not themselves suspended, so every block somebody
\* waits for is fetched and no block that is already here is.
MissingBlocksExact ==
    Idle => missing_blocks = DOMAIN missing_ancestors \ Suspended

\* Between calls nobody waits for a block that is in the DAG.
NobodyWaitsForAccepted ==
    Idle => DOMAIN missing_ancestors \cap dag = {}

\* The assert of try_unsuspend_blocks_for_latest_gc_round: the missing
\* ancestor that is collected is never a suspended block.
GcNeverMeetsSuspended ==
    gc_loop /\ to_process = {} /\ to_accept = {} =>
        \A k \in Blocks : FirstMissing(k) /\ Round[k] <= gc_round
                             => k \notin Suspended

\* Between calls the DAG contains every ancestor above the collected round of
\* every block it contains: the condition DagState::flush requires before it
\* persists a block, and the committer and the linearizer rely on.
CausallyComplete ==
    Idle => \A b \in dag : \A a \in Ancestors[b] :
                Round[a] > gc_round => a \in dag

\* A suspended block does not stay suspended for ever: its ancestors arrive,
\* are committed or are collected, and it is then accepted.
SuspendedEventuallyResolved ==
    \A b \in Blocks : b \in Suspended ~> b \notin Suspended
=============================================================================
