------------------------- MODULE BlockManagerProofs -------------------------
(***************************************************************************)
(* Proofs about the block manager, for every set of blocks, every ancestor *)
(* relation, every garbage-collection depth and every suspension limit.    *)
(*                                                                         *)
(* Bookkeeping is the inductive invariant about the three maps: the two    *)
(* directions of "waits for" agree, and a block is never in two of the     *)
(* roles suspended / in the DAG / being accepted.  Closure adds what the   *)
(* DAG holds; it needs the further hypothesis that this node signed at     *)
(* most one block per slot, which an amnesia recovery can break.           *)
(***************************************************************************)
EXTENDS BlockManager, TLAPS

-----------------------------------------------------------------------------
(* The inductive invariant of the maps                                      *)

\* A suspended block waits for ancestors of its own, and is registered with
\* each of them.
WaitsRegistered ==
    \A s \in Suspended : \A a \in suspended[s] :
        /\ a \in Ancestors[s]
        /\ a \in DOMAIN missing_ancestors
        /\ s \in missing_ancestors[a]

\* Whoever is registered with an ancestor is suspended and waits for it.
RegisteredWaits ==
    \A a \in DOMAIN missing_ancestors : \A s \in missing_ancestors[a] :
        s \in Suspended /\ a \in suspended[s]

\* No suspended block is in the DAG or on its way into it.
SuspendedApart ==
    \A s \in Suspended : s \notin dag /\ s \notin to_accept /\ s \notin to_process

\* A block that is waited for is absent, unless its waiters are next in line.
KeysAbsent ==
    \A a \in DOMAIN missing_ancestors :
        a \in to_process \/ (a \notin dag /\ a \notin to_accept)

MissingExact ==
    missing_blocks = DOMAIN missing_ancestors \ (Suspended \cup to_process)

Bookkeeping ==
    /\ TypeOK
    /\ WaitsRegistered
    /\ RegisteredWaits
    /\ SuspendedApart
    /\ KeysAbsent
    /\ MissingExact

\* SaturatingSub and the garbage-collection round are monotone.
LEMMA GcRoundMonotone ==
    ASSUME NEW m \in Nat, NEW n \in Nat, m <= n
    PROVE  GcRoundOf(m) \in Nat /\ GcRoundOf(m) <= GcRoundOf(n)
BY BoundsAssumption DEF GcRoundOf, SaturatingSub

\* Accepting blocks adds at most those blocks to the DAG.
LEMMA AcceptBlocksBounds ==
    ASSUME NEW S \in SUBSET Blocks, AcceptBlocks(S)
    PROVE  dag \subseteq dag' /\ dag' \subseteq dag \cup S
BY DEF AcceptBlocks

\* The missing ancestor of lowest round is not suspended: a suspended block
\* waits for an ancestor of lower round, which would be missing as well.
LEMMA FirstMissingNotSuspended ==
    ASSUME Bookkeeping, NEW k \in Blocks, FirstMissing(k)
    PROVE  k \notin Suspended
<1> SUFFICES ASSUME k \in Suspended PROVE FALSE
    OBVIOUS
<1>1. PICK a \in suspended[k] : TRUE
    BY DEF Bookkeeping, TypeOK
<1>2. a \in Ancestors[k] /\ a \in DOMAIN missing_ancestors
    BY <1>1 DEF Bookkeeping, WaitsRegistered
<1>3. a \in Blocks /\ Round[a] < Round[k] /\ Round[a] \in Nat /\ Round[k] \in Nat
    BY <1>2, BlocksAssumption
<1>4. Round[k] <= Round[a]
    BY <1>2 DEF FirstMissing
<1> QED
    BY <1>3, <1>4

-----------------------------------------------------------------------------
(* Bookkeeping is preserved: one lemma for each action                      *)

\* The maps of a new BlockManager are empty, so they agree.
LEMMA InitBookkeeping == Init => Bookkeeping
<1> SUFFICES ASSUME Init PROVE Bookkeeping
    OBVIOUS
<1>1. Suspended = {} /\ DOMAIN missing_ancestors = {}
    BY DEF Init, Suspended
<1>2. TypeOK
    <2>1. dag \in SUBSET Blocks /\ last_commit_round \in Nat
        BY DEF Init, Genesis
    <2>2. suspended \in [Suspended -> (SUBSET Blocks) \ {{}}]
        BY <1>1 DEF Init
    <2>3. missing_ancestors \in [DOMAIN missing_ancestors -> SUBSET Blocks]
        BY <1>1 DEF Init
    <2> QED
        BY <1>1, <2>1, <2>2, <2>3 DEF Init, TypeOK
<1> QED
    BY <1>1, <1>2
       DEF Init, Bookkeeping, WaitsRegistered, RegisteredWaits,
           SuspendedApart, KeysAbsent, MissingExact

\* Suspending a received block registers it with each missing ancestor.
LEMMA SuspendBlockBookkeeping ==
    ASSUME Bookkeeping, NEW b \in Blocks, SuspendBlock(b)
    PROVE  Bookkeeping'
<1> DEFINE missing == RequiredAncestors(b) \ dag
<1>1. missing \subseteq Ancestors[b] /\ missing \subseteq Blocks
    BY BlocksAssumption DEF RequiredAncestors
<1>2. /\ b \notin Suspended /\ b \notin dag /\ missing # {}
      /\ to_process = {} /\ to_accept = {}
      /\ missing_ancestors' =
             [a \in DOMAIN missing_ancestors \cup missing |->
                  IF a \in missing THEN WaitingFor(a) \cup {b}
                                   ELSE missing_ancestors[a]]
      /\ missing_blocks' = (missing_blocks \cup (missing \ Suspended)) \ {b}
      /\ suspended' = [c \in Suspended \cup {b} |->
                           IF c = b THEN missing ELSE suspended[c]]
      /\ UNCHANGED <<dag, last_commit_round, to_process, to_accept, certified,
                     leader, gc_loop>>
    BY DEF SuspendBlock, Admissible, Idle, dagVars, locals
<1>3. b \notin missing
    BY <1>1, BlocksAssumption
<1> HIDE DEF missing
<1>4. \A a \in DOMAIN missing_ancestors : WaitingFor(a) = missing_ancestors[a]
    BY DEF WaitingFor
<1>5. \A a : a \notin DOMAIN missing_ancestors => WaitingFor(a) = {}
    BY DEF WaitingFor
<1>6. DOMAIN suspended' = Suspended \cup {b}
    BY <1>2
<1>7. DOMAIN missing_ancestors' = DOMAIN missing_ancestors \cup missing
    BY <1>2
<1>8. TypeOK'
    <2>1. \A a \in DOMAIN missing_ancestors' : missing_ancestors'[a] \in SUBSET Blocks
        BY <1>2, <1>4, <1>5, <1>7 DEF Bookkeeping, TypeOK
    <2>2. \A c \in DOMAIN suspended' : suspended'[c] \in (SUBSET Blocks) \ {{}}
        BY <1>1, <1>2, <1>6 DEF Bookkeeping, TypeOK, Suspended
    <2> QED
        BY <1>1, <1>2, <1>6, <1>7, <2>1, <2>2 DEF Bookkeeping, TypeOK, Suspended
<1>9. WaitsRegistered'
    BY <1>1, <1>2, <1>4, <1>6, <1>7 DEF Bookkeeping, WaitsRegistered, Suspended
<1>10. RegisteredWaits'
    BY <1>2, <1>3, <1>4, <1>5, <1>6, <1>7
       DEF Bookkeeping, RegisteredWaits, Suspended
<1>11. SuspendedApart'
    BY <1>2, <1>6 DEF Bookkeeping, SuspendedApart, Suspended
<1>12. KeysAbsent'
    BY <1>2, <1>7 DEF Bookkeeping, KeysAbsent, missing
<1>13. MissingExact'
    BY <1>2, <1>6, <1>7 DEF Bookkeeping, MissingExact, Suspended
<1> QED
    BY <1>8, <1>9, <1>10, <1>11, <1>12, <1>13 DEF Bookkeeping

\* A received block with all its ancestors only enters the work lists.
LEMMA AcceptBlockBookkeeping ==
    ASSUME Bookkeeping, NEW b \in Blocks, AcceptBlock(b)
    PROVE  Bookkeeping'
BY DEF AcceptBlock, Admissible, Idle, dagVars, Bookkeeping, TypeOK,
       WaitsRegistered, RegisteredWaits, SuspendedApart, KeysAbsent,
       MissingExact, Suspended

\* try_find_blocks adds a missing block that nobody waits for yet.
LEMMA TryFindBlocksBookkeeping ==
    ASSUME Bookkeeping, NEW b \in Blocks, TryFindBlocks(b)
    PROVE  Bookkeeping'
<1>1. /\ b \notin Suspended /\ b \notin dag
      /\ to_process = {} /\ to_accept = {}
      /\ b \notin missing_blocks
      /\ missing_blocks' = missing_blocks \cup {b}
      /\ missing_ancestors' =
             [a \in DOMAIN missing_ancestors \cup {b} |-> WaitingFor(a)]
      /\ UNCHANGED <<dag, last_commit_round, suspended, to_process, to_accept,
                     certified, leader, gc_loop>>
    BY DEF TryFindBlocks, Idle, dagVars, locals
<1>2. b \notin DOMAIN missing_ancestors
    BY <1>1 DEF Bookkeeping, MissingExact
<1>3. \A a \in DOMAIN missing_ancestors : missing_ancestors'[a] = missing_ancestors[a]
    BY <1>1 DEF WaitingFor
<1>4. missing_ancestors'[b] = {}
    BY <1>1, <1>2 DEF WaitingFor
<1>5. DOMAIN missing_ancestors' = DOMAIN missing_ancestors \cup {b}
    BY <1>1
<1>6. TypeOK'
    <2>1. \A a \in DOMAIN missing_ancestors' : missing_ancestors'[a] \in SUBSET Blocks
        BY <1>3, <1>4, <1>5 DEF Bookkeeping, TypeOK
    <2> QED
        BY <1>1, <1>5, <2>1 DEF Bookkeeping, TypeOK, Suspended
<1>7. WaitsRegistered' /\ RegisteredWaits'
    BY <1>1, <1>2, <1>3, <1>4, <1>5
       DEF Bookkeeping, WaitsRegistered, RegisteredWaits, Suspended
<1>8. SuspendedApart' /\ KeysAbsent' /\ MissingExact'
    BY <1>1, <1>5
       DEF Bookkeeping, SuspendedApart, KeysAbsent, MissingExact, Suspended
<1> QED
    BY <1>6, <1>7, <1>8 DEF Bookkeeping

\* One iteration of try_unsuspend_children_blocks removes the accepted block
\* from both directions of the waiting relation, and frees exactly the blocks
\* that waited for it alone.
LEMMA UnsuspendChildrenBookkeeping ==
    ASSUME Bookkeeping, NEW x \in to_process, UnsuspendChildren(x)
    PROVE  Bookkeeping'
<1> DEFINE children == WaitingFor(x)
           left(c) == IF c \in children THEN suspended[c] \ {x} ELSE suspended[c]
           freed == {c \in children : left(c) = {}}
<1>1. /\ missing_ancestors' =
             [a \in DOMAIN missing_ancestors \ {x} |-> missing_ancestors[a]]
      /\ suspended' = [c \in Suspended \ freed |-> left(c)]
      /\ to_process' = (to_process \ {x}) \cup freed
      /\ to_accept' = to_accept \cup freed
      /\ UNCHANGED <<dag, last_commit_round, missing_blocks, certified, leader,
                     gc_loop>>
    BY DEF UnsuspendChildren, dagVars
<1>2. \A c \in children : c \in Suspended /\ x \in suspended[c]
    BY DEF WaitingFor, Bookkeeping, RegisteredWaits
<1>3. \A c \in Suspended : x \in suspended[c] => c \in children
    BY DEF WaitingFor, Bookkeeping, WaitsRegistered
<1>4. \A c \in Suspended : left(c) = suspended[c] \ {x}
    BY <1>3
<1>5. freed \subseteq Suspended /\ \A c \in Suspended \ freed : left(c) # {}
    BY <1>2, <1>3, <1>4 DEF Bookkeeping, TypeOK
<1>6. DOMAIN suspended' = Suspended \ freed
    BY <1>1
<1>7. \A c \in Suspended \ freed : suspended'[c] = suspended[c] \ {x}
    BY <1>1, <1>4
<1>8. /\ DOMAIN missing_ancestors' = DOMAIN missing_ancestors \ {x}
      /\ \A a \in DOMAIN missing_ancestors \ {x} :
             missing_ancestors'[a] = missing_ancestors[a]
    BY <1>1
<1>9. x \notin Suspended
    BY DEF Bookkeeping, SuspendedApart
<1>10. \A c \in freed : suspended[c] = {x}
    BY <1>2, <1>4
<1>11. \A c \in Suspended \ freed : suspended[c] \ {x} # {}
    BY <1>4, <1>5
<1>12. TypeOK'
    <2>1. \A c \in Suspended \ freed : suspended'[c] \in (SUBSET Blocks) \ {{}}
        BY <1>7, <1>11 DEF Bookkeeping, TypeOK
    <2>2. suspended' \in [Suspended \ freed -> (SUBSET Blocks) \ {{}}]
        BY <1>1, <1>6, <2>1
    <2>3. missing_ancestors' \in [DOMAIN missing_ancestors' -> SUBSET Blocks]
        BY <1>1, <1>8 DEF Bookkeeping, TypeOK
    <2>4. freed \subseteq Blocks
        BY <1>5 DEF Bookkeeping, TypeOK
    <2> HIDE DEF freed, children, left
    <2> QED
        BY <1>1, <1>6, <1>8, <2>2, <2>3, <2>4 DEF Bookkeeping, TypeOK, Suspended
<1>13. \A a \in DOMAIN missing_ancestors \ {x} :
           \A s \in missing_ancestors[a] : s \notin freed
    BY <1>10 DEF Bookkeeping, RegisteredWaits
<1> HIDE DEF freed, children, left
<1>14. WaitsRegistered'
    BY <1>6, <1>7, <1>8 DEF Bookkeeping, WaitsRegistered, Suspended
<1>15. RegisteredWaits'
    BY <1>6, <1>7, <1>8, <1>13 DEF Bookkeeping, RegisteredWaits, Suspended
<1>16. SuspendedApart'
    BY <1>1, <1>6 DEF Bookkeeping, SuspendedApart, Suspended
<1>17. KeysAbsent'
    BY <1>1, <1>8 DEF Bookkeeping, KeysAbsent
<1>18. MissingExact'
    BY <1>1, <1>5, <1>6, <1>8 DEF Bookkeeping, MissingExact, Suspended
<1> QED
    BY <1>12, <1>14, <1>15, <1>16, <1>17, <1>18 DEF Bookkeeping

\* Writing the released blocks to DagState leaves the maps alone.
LEMMA AcceptUnsuspendedBookkeeping ==
    ASSUME Bookkeeping, AcceptUnsuspended
    PROVE  Bookkeeping'
<1>1. dag \subseteq dag' /\ dag' \subseteq dag \cup to_accept
    BY AcceptBlocksBounds DEF AcceptUnsuspended, Bookkeeping, TypeOK
<1>2. /\ to_process = {} /\ to_accept' = {}
      /\ UNCHANGED <<last_commit_round, suspended, missing_ancestors,
                     missing_blocks, to_process, certified, leader, gc_loop>>
    BY DEF AcceptUnsuspended, maps
<1> QED
    BY <1>1, <1>2
       DEF Bookkeeping, TypeOK, WaitsRegistered, RegisteredWaits,
           SuspendedApart, KeysAbsent, MissingExact, Suspended

\* A certified block that was suspended is taken out of both directions of
\* the waiting relation before it is accepted.
LEMMA CommittedBlockBookkeeping ==
    ASSUME Bookkeeping, NEW b \in certified, TryAcceptOneCommittedBlock(b)
    PROVE  Bookkeeping'
<1>1. CASE b \in dag
    <2>1. UNCHANGED <<dag, last_commit_round, suspended, missing_ancestors,
                      missing_blocks, to_process, to_accept, leader, gc_loop>>
        BY <1>1 DEF TryAcceptOneCommittedBlock, maps
    <2>2. certified' \subseteq certified
        BY DEF TryAcceptOneCommittedBlock
    <2> QED
        BY <2>1, <2>2
           DEF Bookkeeping, TypeOK, WaitsRegistered, RegisteredWaits,
               SuspendedApart, KeysAbsent, MissingExact, Suspended
<1>2. CASE b \notin dag
    <2>1. /\ to_process = {} /\ to_accept = {}
          /\ certified' = certified \ {b}
          /\ missing_blocks' = missing_blocks \ {b}
          /\ suspended' = [c \in Suspended \ {b} |-> suspended[c]]
          /\ missing_ancestors' =
                 [a \in DOMAIN missing_ancestors |->
                      IF b \in Suspended /\ a \in suspended[b]
                          THEN missing_ancestors[a] \ {b}
                          ELSE missing_ancestors[a]]
          /\ AcceptBlocks({b})
          /\ to_process' = {b}
          /\ UNCHANGED <<last_commit_round, to_accept, leader, gc_loop>>
        BY <1>2 DEF TryAcceptOneCommittedBlock
    <2>2. b \in Blocks
        BY DEF Bookkeeping, TypeOK
    <2>3. dag \subseteq dag' /\ dag' \subseteq dag \cup {b}
        BY <2>1, <2>2, AcceptBlocksBounds
    <2>4. /\ DOMAIN suspended' = Suspended \ {b}
          /\ \A c \in Suspended \ {b} : suspended'[c] = suspended[c]
        BY <2>1
    <2>5. DOMAIN missing_ancestors' = DOMAIN missing_ancestors
        BY <2>1
    <2>6. \A a \in DOMAIN missing_ancestors :
              missing_ancestors'[a] = missing_ancestors[a] \ {b}
        BY <2>1 DEF Bookkeeping, RegisteredWaits
    <2>7. TypeOK'
        <3>1. suspended' \in [Suspended \ {b} -> (SUBSET Blocks) \ {{}}]
            BY <2>1, <2>4 DEF Bookkeeping, TypeOK
        <3>2. \A a \in DOMAIN missing_ancestors : missing_ancestors'[a] \in SUBSET Blocks
            BY <2>6 DEF Bookkeeping, TypeOK
        <3>3. missing_ancestors' \in [DOMAIN missing_ancestors -> SUBSET Blocks]
            BY <2>1, <2>5, <3>2
        <3> QED
            BY <2>1, <2>2, <2>3, <2>4, <2>5, <3>1, <3>3
               DEF Bookkeeping, TypeOK, Suspended
    <2>8. WaitsRegistered' /\ RegisteredWaits'
        BY <2>4, <2>5, <2>6
           DEF Bookkeeping, WaitsRegistered, RegisteredWaits, Suspended
    <2>9. SuspendedApart' /\ KeysAbsent' /\ MissingExact'
        BY <2>1, <2>3, <2>4, <2>5
           DEF Bookkeeping, SuspendedApart, KeysAbsent, MissingExact, Suspended
    <2> QED
        BY <2>7, <2>8, <2>9 DEF Bookkeeping
<1> QED
    BY <1>1, <1>2

\* Collecting the first missing ancestor removes it from missing_blocks; it
\* is not suspended, so missing_blocks did contain it.
LEMMA GcUnsuspendBookkeeping ==
    ASSUME Bookkeeping, NEW k \in DOMAIN missing_ancestors, GcUnsuspend(k)
    PROVE  Bookkeeping'
<1>1. k \in Blocks
    BY DEF Bookkeeping, TypeOK
<1>2. k \notin Suspended
    BY <1>1, FirstMissingNotSuspended DEF GcUnsuspend
<1> QED
    BY <1>1, <1>2
       DEF GcUnsuspend, dagVars, Bookkeeping, TypeOK, WaitsRegistered,
           RegisteredWaits, SuspendedApart, KeysAbsent, MissingExact, Suspended

\* The steps that leave the DAG, the maps and the work lists alone.
LEMMA ControlStepBookkeeping ==
    ASSUME Bookkeeping,
           UNCHANGED <<dag, suspended, missing_ancestors, missing_blocks,
                       to_process, to_accept>>,
           last_commit_round' \in Nat, certified' \in SUBSET Blocks,
           leader' \in SUBSET Blocks, gc_loop' \in BOOLEAN
    PROVE  Bookkeeping'
BY DEF Bookkeeping, TypeOK, WaitsRegistered, RegisteredWaits, SuspendedApart,
       KeysAbsent, MissingExact, Suspended

\* Every step preserves the invariant of the maps.
LEMMA NextBookkeeping == Bookkeeping /\ [Next]_vars => Bookkeeping'
<1> SUFFICES ASSUME Bookkeeping, [Next]_vars PROVE Bookkeeping'
    OBVIOUS
<1>1. CASE \E b \in Blocks : TryAcceptOneBlock(b)
    BY <1>1, SuspendBlockBookkeeping, AcceptBlockBookkeeping
       DEF TryAcceptOneBlock
<1>2. CASE \E b \in Blocks : TryFindBlocks(b)
    BY <1>2, TryFindBlocksBookkeeping
<1>3. CASE \E S \in SUBSET (Blocks \ dag) : \E l \in S : AddCertifiedCommits(l, S)
    <2>1. PICK S \in SUBSET (Blocks \ dag) :
              \E l \in S : AddCertifiedCommits(l, S)
        BY <1>3
    <2>2. PICK l \in S : AddCertifiedCommits(l, S)
        BY <2>1
    <2>3. /\ UNCHANGED <<dag, last_commit_round, suspended, missing_ancestors,
                         missing_blocks, to_process, to_accept, gc_loop>>
          /\ certified' = S /\ leader' = {l}
        BY <2>2 DEF AddCertifiedCommits, dagVars, maps
    <2>4. last_commit_round \in Nat /\ gc_loop \in BOOLEAN
        BY DEF Bookkeeping, TypeOK
    <2> QED
        BY <2>3, <2>4, ControlStepBookkeeping
<1>4. CASE \E l \in dag : CommitLocal(l)
    <2>1. PICK l \in dag : CommitLocal(l)
        BY <1>4
    <2>2. l \in Blocks /\ Round[l] \in Nat
        BY BlocksAssumption DEF Bookkeeping, TypeOK
    <2> QED
        BY <2>1, <2>2, ControlStepBookkeeping
           DEF CommitLocal, maps, Bookkeeping, TypeOK
<1>5. CASE \E x \in to_process : UnsuspendChildren(x)
    BY <1>5, UnsuspendChildrenBookkeeping
<1>6. CASE AcceptUnsuspended
    BY <1>6, AcceptUnsuspendedBookkeeping
<1>7. CASE \E b \in certified : TryAcceptOneCommittedBlock(b)
    BY <1>7, CommittedBlockBookkeeping
<1>8. CASE CommitCertified
    <2>1. PICK l \in leader : last_commit_round' = Round[l]
        BY <1>8 DEF CommitCertified
    <2>2. Round[l] \in Nat
        BY BlocksAssumption DEF Bookkeeping, TypeOK
    <2> QED
        BY <1>8, <2>1, <2>2, ControlStepBookkeeping
           DEF CommitCertified, maps, Bookkeeping, TypeOK
<1>9. CASE \E k \in DOMAIN missing_ancestors : GcUnsuspend(k)
    BY <1>9, GcUnsuspendBookkeeping
<1>10. CASE GcDone
    BY <1>10, ControlStepBookkeeping
       DEF GcDone, dagVars, maps, Bookkeeping, TypeOK
<1>11. CASE UNCHANGED vars
    BY <1>11, ControlStepBookkeeping DEF vars, Bookkeeping, TypeOK
<1> QED
    BY <1>1, <1>2, <1>3, <1>4, <1>5, <1>6, <1>7, <1>8, <1>9, <1>10, <1>11
       DEF Next, Continue

\* The maps agree in every reachable state.
THEOREM BookkeepingInvariant == Spec => []Bookkeeping
BY InitBookkeeping, NextBookkeeping, PTL DEF Spec

\* Every variable keeps its type, and no block is kept in the suspended map
\* after the last ancestor it waited for.
THEOREM TypeCorrect == Spec => []TypeOK
<1>1. Bookkeeping => TypeOK
    BY DEF Bookkeeping
<1> QED
    BY <1>1, BookkeepingInvariant, PTL

\* The expect and the assert of try_unsuspend_block never fail, whatever the
\* blocks, the commits and the order they arrive in.
THEOREM UnsuspendSafe == Spec => []UnsuspendNeverPanics
<1>1. Bookkeeping => UnsuspendNeverPanics
    BY DEF Bookkeeping, RegisteredWaits, UnsuspendNeverPanics, WaitingFor
<1> QED
    BY <1>1, BookkeepingInvariant, PTL

\* Between calls, what is fetched is exactly what is waited for and not here.
THEOREM MissingBlocksAreExact == Spec => []MissingBlocksExact
<1>1. Bookkeeping => MissingBlocksExact
    BY DEF Bookkeeping, MissingExact, MissingBlocksExact, Idle
<1> QED
    BY <1>1, BookkeepingInvariant, PTL

\* Between calls, no block of the DAG is still waited for.
THEOREM AcceptedAreReleased == Spec => []NobodyWaitsForAccepted
<1>1. Bookkeeping => NobodyWaitsForAccepted
    BY DEF Bookkeeping, KeysAbsent, NobodyWaitsForAccepted, Idle
<1> QED
    BY <1>1, BookkeepingInvariant, PTL

\* The assert of try_unsuspend_blocks_for_latest_gc_round never fails.
THEOREM GcAssertHolds == Spec => []GcNeverMeetsSuspended
<1>1. Bookkeeping => GcNeverMeetsSuspended
    BY FirstMissingNotSuspended DEF GcNeverMeetsSuspended
<1> QED
    BY <1>1, BookkeepingInvariant, PTL

-----------------------------------------------------------------------------
(* Causal completeness, when this node signed one block per slot            *)

\* The hypothesis under which accept_block drops nothing.
OwnSlotsUnique ==
    \A b \in Blocks : \A c \in Blocks :
        Author[b] = OwnIndex /\ SameSlot(b, c) => b = c

\* a lies above the collected round, the one a pending certified commit is
\* about to collect included.
Above(a) ==
    Round[a] > gc_round /\ \A l \in leader : Round[a] > GcRoundOf(Round[l])

\* What is in the DAG, or about to be written to it by the running call.
Held == dag \cup to_accept

LeaderAhead ==
    \A l \in leader : Round[l] > last_commit_round /\ leader = {l}

HeldClosed ==
    \A b \in Held : \A a \in Ancestors[b] : Above(a) => a \in Held

SuspendedClosed ==
    \A s \in Suspended : \A a \in Ancestors[s] :
        Above(a) => a \in suspended[s] \cup Held

CertifiedClosed ==
    \A b \in certified : \A a \in Ancestors[b] :
        Above(a) => a \in certified \cup dag

ProcessedHeld == \A x \in to_process : Above(x) => x \in Held

Closure ==
    LeaderAhead /\ HeldClosed /\ SuspendedClosed /\ CertifiedClosed /\ ProcessedHeld

\* With unique own slots, accept_blocks keeps every block it is given.
LEMMA AcceptBlocksKeepsAll ==
    ASSUME OwnSlotsUnique, dag \in SUBSET Blocks,
           NEW S \in SUBSET Blocks, AcceptBlocks(S)
    PROVE  dag' = dag \cup S
<1>1. PICK kept \in SUBSET S :
          /\ \A b \in S \ kept : OwnSlotTaken(b, dag \cup kept)
          /\ dag' = dag \cup kept
    BY DEF AcceptBlocks
<1>2. \A b \in S : ~ OwnSlotTaken(b, dag \cup kept)
    BY DEF OwnSlotsUnique, OwnSlotTaken
<1> QED
    BY <1>1, <1>2

\* Above depends only on the last commit and on the pending leader.
LEMMA AboveUnchanged ==
    ASSUME UNCHANGED <<last_commit_round, leader>>, NEW a
    PROVE  Above(a)' <=> Above(a)
BY DEF Above, gc_round, GcRoundOf, SaturatingSub

\* A step that raises the collected round, or announces the round it will be
\* raised to, asks for less: Closure survives it if nothing else changes.
LEMMA ClosureWeakens ==
    ASSUME Closure,
           UNCHANGED <<dag, suspended, to_process, to_accept, certified>>,
           LeaderAhead', \A a \in Blocks : Above(a)' => Above(a), TypeOK
    PROVE  Closure'
<1>1. \A b \in Blocks : Ancestors[b] \subseteq Blocks
    BY BlocksAssumption
<1> QED
    BY <1>1 DEF Closure, HeldClosed, SuspendedClosed, CertifiedClosed,
                ProcessedHeld, Held, Suspended, TypeOK

\* Initially the DAG is the genesis, which has no ancestors.
LEMMA InitClosure == Init => Closure
<1> SUFFICES ASSUME Init PROVE Closure
    OBVIOUS
<1>1. \A b \in Genesis : Ancestors[b] = {}
    <2> SUFFICES ASSUME NEW b \in Genesis, NEW a \in Ancestors[b] PROVE FALSE
        OBVIOUS
    <2>1. Round[b] = 0 /\ a \in Blocks /\ Round[a] < Round[b] /\ Round[a] \in Nat
        BY BlocksAssumption DEF Genesis, GENESIS_ROUND
    <2> QED
        BY <2>1
<1>2. Suspended = {}
    BY DEF Init, Suspended
<1> QED
    BY <1>1, <1>2
       DEF Init, Closure, LeaderAhead, HeldClosed, SuspendedClosed,
           CertifiedClosed, ProcessedHeld, Held

\* A received block is suspended on, or accepted with, every ancestor above
\* the collected round.
LEMMA TryAcceptOneBlockClosure ==
    ASSUME Bookkeeping, Closure, NEW b \in Blocks, TryAcceptOneBlock(b)
    PROVE  Closure'
<1>1. UNCHANGED <<dag, last_commit_round, certified, leader>> /\ leader = {}
      /\ to_process = {} /\ to_accept = {}
    BY DEF TryAcceptOneBlock, SuspendBlock, AcceptBlock, Idle, dagVars, locals
<1>2. \A a : Above(a)' <=> Above(a)
    BY <1>1, AboveUnchanged
<1>3. \A a \in Ancestors[b] : Above(a) => a \in RequiredAncestors(b)
    BY DEF Above, RequiredAncestors
<1>4. CASE SuspendBlock(b)
    <2>1. /\ UNCHANGED <<to_process, to_accept>>
          /\ suspended' = [c \in Suspended \cup {b} |->
                               IF c = b THEN RequiredAncestors(b) \ dag
                                        ELSE suspended[c]]
        BY <1>4 DEF SuspendBlock, locals
    <2>2. DOMAIN suspended' = Suspended \cup {b}
        BY <2>1
    <2>3. SuspendedClosed'
        BY <1>1, <1>2, <1>3, <2>1, <2>2
           DEF Closure, SuspendedClosed, Held, Suspended
    <2> QED
        BY <1>1, <1>2, <2>1, <2>3
           DEF Closure, LeaderAhead, HeldClosed, CertifiedClosed,
               ProcessedHeld, Held
<1>5. CASE AcceptBlock(b)
    <2>1. /\ to_process' = {b} /\ to_accept' = {b} /\ suspended' = suspended
          /\ RequiredAncestors(b) \subseteq dag
        BY <1>5 DEF AcceptBlock
    <2> QED
        BY <1>1, <1>2, <1>3, <2>1
           DEF Closure, LeaderAhead, HeldClosed, SuspendedClosed,
               CertifiedClosed, ProcessedHeld, Held, Suspended
<1> QED
    BY <1>4, <1>5 DEF TryAcceptOneBlock

\* A block is freed when the last ancestor it waits for is held or collected.
LEMMA UnsuspendChildrenClosure ==
    ASSUME Bookkeeping, Closure, NEW x \in to_process, UnsuspendChildren(x)
    PROVE  Closure'
<1> DEFINE children == WaitingFor(x)
           left(c) == IF c \in children THEN suspended[c] \ {x} ELSE suspended[c]
           freed == {c \in children : left(c) = {}}
<1>1. /\ suspended' = [c \in Suspended \ freed |-> left(c)]
      /\ to_process' = (to_process \ {x}) \cup freed
      /\ to_accept' = to_accept \cup freed
      /\ UNCHANGED <<dag, last_commit_round, certified, leader>>
    BY DEF UnsuspendChildren, dagVars
<1>2. \A c \in children : c \in Suspended /\ x \in suspended[c]
    BY DEF WaitingFor, Bookkeeping, RegisteredWaits
<1>3. \A c \in freed : c \in Suspended /\ suspended[c] = {x}
    BY <1>2
<1>4. \A c \in Suspended \ freed : suspended[c] \subseteq suspended'[c] \cup {x}
    BY <1>1
<1>5. DOMAIN suspended' = Suspended \ freed
    BY <1>1
<1> HIDE DEF freed, children, left
<1>6. \A a : Above(a)' <=> Above(a)
    BY <1>1, AboveUnchanged
<1>7. Above(x) => x \in Held
    BY DEF Closure, ProcessedHeld
<1>8. Held' = Held \cup freed
    BY <1>1 DEF Held
<1>9. HeldClosed'
    BY <1>3, <1>6, <1>7, <1>8 DEF Closure, HeldClosed, SuspendedClosed
<1>10. SuspendedClosed'
    BY <1>4, <1>5, <1>6, <1>7, <1>8 DEF Closure, SuspendedClosed, Suspended
<1>11. ProcessedHeld'
    BY <1>1, <1>6, <1>8 DEF Closure, ProcessedHeld
<1> QED
    BY <1>1, <1>6, <1>9, <1>10, <1>11
       DEF Closure, LeaderAhead, CertifiedClosed

\* The released blocks are all written, so what is held stays the same.
LEMMA AcceptUnsuspendedClosure ==
    ASSUME OwnSlotsUnique, Bookkeeping, Closure, AcceptUnsuspended
    PROVE  Closure'
<1>1. dag' = dag \cup to_accept
    BY AcceptBlocksKeepsAll DEF AcceptUnsuspended, Bookkeeping, TypeOK
<1>2. /\ to_accept' = {} /\ to_process = {}
      /\ UNCHANGED <<last_commit_round, suspended, to_process, certified, leader>>
    BY DEF AcceptUnsuspended, maps
<1>3. Held' = Held
    BY <1>1, <1>2 DEF Held
<1>4. \A a : Above(a)' <=> Above(a)
    BY <1>2, AboveUnchanged
<1> QED
    BY <1>1, <1>2, <1>3, <1>4
       DEF Closure, LeaderAhead, HeldClosed, SuspendedClosed, CertifiedClosed,
           ProcessedHeld, Suspended

\* The ancestors of the certified block of lowest round are not among the
\* certified blocks any more: those above the collected round are in the DAG.
LEMMA CommittedBlockClosure ==
    ASSUME OwnSlotsUnique, Bookkeeping, Closure,
           NEW b \in certified, TryAcceptOneCommittedBlock(b)
    PROVE  Closure'
<1>1. /\ to_process = {} /\ to_accept = {}
      /\ certified' = certified \ {b}
      /\ UNCHANGED <<last_commit_round, to_accept, leader>>
    BY DEF TryAcceptOneCommittedBlock
<1>2. \A a : Above(a)' <=> Above(a)
    BY <1>1, AboveUnchanged
<1>3. b \in Blocks
    BY DEF Bookkeeping, TypeOK
<1>4. CASE b \in dag
    <2>1. UNCHANGED <<dag, suspended, to_process>>
        BY <1>4 DEF TryAcceptOneCommittedBlock, maps
    <2> QED
        BY <1>1, <1>2, <1>4, <2>1
           DEF Closure, LeaderAhead, HeldClosed, SuspendedClosed,
               CertifiedClosed, ProcessedHeld, Held, Suspended
<1>5. CASE b \notin dag
    <2>1. /\ suspended' = [c \in Suspended \ {b} |-> suspended[c]]
          /\ AcceptBlocks({b})
          /\ to_process' = {b}
        BY <1>5 DEF TryAcceptOneCommittedBlock
    <2>2. dag' = dag \cup {b}
        BY <1>3, <2>1, AcceptBlocksKeepsAll DEF Bookkeeping, TypeOK
    <2>3. /\ DOMAIN suspended' = Suspended \ {b}
          /\ \A c \in Suspended \ {b} : suspended'[c] = suspended[c]
        BY <2>1
    <2>4. \A a \in Ancestors[b] : a \notin certified
        <3> SUFFICES ASSUME NEW a \in Ancestors[b], a \in certified PROVE FALSE
            OBVIOUS
        <3>1. Round[b] <= Round[a]
            BY DEF TryAcceptOneCommittedBlock
        <3>2. Round[a] < Round[b] /\ Round[a] \in Nat /\ Round[b] \in Nat
            BY <1>3, BlocksAssumption
        <3> QED
            BY <3>1, <3>2
    <2>5. \A a \in Ancestors[b] : Above(a) => a \in dag
        BY <2>4 DEF Closure, CertifiedClosed
    <2>6. Held = dag /\ Held' = dag \cup {b}
        BY <1>1, <2>2 DEF Held
    <2>7. HeldClosed' /\ ProcessedHeld'
        BY <1>2, <2>1, <2>5, <2>6 DEF Closure, HeldClosed, ProcessedHeld
    <2>8. SuspendedClosed'
        BY <1>2, <2>3, <2>6 DEF Closure, SuspendedClosed, Suspended
    <2>9. CertifiedClosed' /\ LeaderAhead'
        BY <1>1, <1>2, <2>2 DEF Closure, CertifiedClosed, LeaderAhead
    <2> QED
        BY <2>7, <2>8, <2>9 DEF Closure
<1> QED
    BY <1>4, <1>5

\* The collected ancestor is not above the collected round.
LEMMA GcUnsuspendClosure ==
    ASSUME Bookkeeping, Closure, NEW k \in DOMAIN missing_ancestors, GcUnsuspend(k)
    PROVE  Closure'
<1>1. /\ to_process' = {k} /\ Round[k] <= gc_round
      /\ UNCHANGED <<dag, last_commit_round, suspended, to_accept, certified, leader>>
    BY DEF GcUnsuspend, dagVars
<1>2. \A a : Above(a)' <=> Above(a)
    BY <1>1, AboveUnchanged
<1>3. ~ Above(k)
    <2>1. Round[k] \in Nat /\ gc_round \in Nat
        BY BlocksAssumption, GcRoundMonotone DEF Bookkeeping, TypeOK, gc_round
    <2> QED
        BY <1>1, <2>1 DEF Above
<1> QED
    BY <1>1, <1>2, <1>3
       DEF Closure, LeaderAhead, HeldClosed, SuspendedClosed, CertifiedClosed,
           ProcessedHeld, Held, Suspended

\* The certified blocks are closed down to the round their commit collects.
LEMMA AddCertifiedCommitsClosure ==
    ASSUME Bookkeeping, Closure, NEW S \in SUBSET (Blocks \ dag), NEW l \in S,
           AddCertifiedCommits(l, S)
    PROVE  Closure'
<1>1. /\ leader = {} /\ leader' = {l} /\ certified' = S
      /\ Round[l] > last_commit_round
      /\ UNCHANGED <<dag, last_commit_round, suspended, to_process, to_accept>>
    BY DEF AddCertifiedCommits, Idle, dagVars, maps
<1>2. gc_round' = gc_round
    BY <1>1 DEF gc_round, GcRoundOf, SaturatingSub
<1>3. \A a : Above(a)' => Above(a) /\ Round[a] > GcRoundOf(Round[l])
    BY <1>1, <1>2 DEF Above, GcRoundOf, SaturatingSub
<1>4. CertifiedClosed'
    BY <1>1, <1>3 DEF AddCertifiedCommits, CertifiedClosed
<1> QED
    BY <1>1, <1>3, <1>4
       DEF Closure, LeaderAhead, HeldClosed, SuspendedClosed, ProcessedHeld,
           Held, Suspended

\* A commit raises the collected round.
LEMMA CommitClosure ==
    ASSUME Bookkeeping, Closure, NEW l \in Blocks,
           Round[l] > last_commit_round, last_commit_round' = Round[l],
           leader = {} \/ leader = {l}, leader' = {},
           UNCHANGED <<dag, suspended, to_process, to_accept, certified>>
    PROVE  Closure'
<1>1. last_commit_round \in Nat /\ Round[l] \in Nat
    BY BlocksAssumption DEF Bookkeeping, TypeOK
<1>2. gc_round' = GcRoundOf(Round[l])
    BY DEF gc_round, GcRoundOf, SaturatingSub
<1>3. /\ gc_round <= GcRoundOf(Round[l])
      /\ gc_round \in Nat /\ GcRoundOf(Round[l]) \in Nat
    BY <1>1, GcRoundMonotone DEF gc_round
<1>4. \A a \in Blocks : Above(a)' => Above(a)
    <2> SUFFICES ASSUME NEW a \in Blocks, Above(a)' PROVE Above(a)
        OBVIOUS
    <2>1. Round[a] \in Nat /\ Round[a] > GcRoundOf(Round[l])
        BY <1>2, BlocksAssumption DEF Above
    <2> QED
        BY <1>3, <2>1 DEF Above
<1>5. LeaderAhead'
    BY DEF LeaderAhead
<1> QED
    BY <1>4, <1>5, ClosureWeakens DEF Bookkeeping

\* Every step preserves Closure, given Bookkeeping.
LEMMA NextClosure ==
    ASSUME OwnSlotsUnique, Bookkeeping, Closure, [Next]_vars
    PROVE  Closure'
<1>1. CASE \E b \in Blocks : TryAcceptOneBlock(b)
    BY <1>1, TryAcceptOneBlockClosure
<1>2. ASSUME UNCHANGED <<dag, last_commit_round, suspended, to_process,
                         to_accept, certified, leader>>
      PROVE  Closure'
    <2>1. \A a : Above(a)' <=> Above(a)
        BY <1>2, AboveUnchanged
    <2> QED
        BY <1>2, <2>1, ClosureWeakens DEF Closure, LeaderAhead, Bookkeeping
<1>3. CASE \E b \in Blocks : TryFindBlocks(b)
    BY <1>2, <1>3 DEF TryFindBlocks, dagVars, locals
<1>4. CASE \E S \in SUBSET (Blocks \ dag) : \E l \in S : AddCertifiedCommits(l, S)
    BY <1>4, AddCertifiedCommitsClosure
<1>5. CASE \E l \in dag : CommitLocal(l)
    <2>1. PICK l \in dag : CommitLocal(l)
        BY <1>5
    <2>2. l \in Blocks
        BY DEF Bookkeeping, TypeOK
    <2> QED
        BY <2>1, <2>2, CommitClosure DEF CommitLocal, Idle, maps
<1>6. CASE \E x \in to_process : UnsuspendChildren(x)
    BY <1>6, UnsuspendChildrenClosure
<1>7. CASE AcceptUnsuspended
    BY <1>7, AcceptUnsuspendedClosure
<1>8. CASE \E b \in certified : TryAcceptOneCommittedBlock(b)
    BY <1>8, CommittedBlockClosure
<1>9. CASE CommitCertified
    <2>1. PICK l \in leader : last_commit_round' = Round[l]
        BY <1>9 DEF CommitCertified
    <2>2. l \in Blocks /\ Round[l] > last_commit_round /\ leader = {l}
        BY DEF Bookkeeping, TypeOK, Closure, LeaderAhead
    <2> QED
        BY <1>9, <2>1, <2>2, CommitClosure DEF CommitCertified, maps
<1>10. CASE \E k \in DOMAIN missing_ancestors : GcUnsuspend(k)
    BY <1>10, GcUnsuspendClosure
<1>11. CASE GcDone
    BY <1>2, <1>11 DEF GcDone, dagVars, maps
<1>12. CASE UNCHANGED vars
    BY <1>2, <1>12 DEF vars
<1> QED
    BY <1>1, <1>3, <1>4, <1>5, <1>6, <1>7, <1>8, <1>9, <1>10, <1>11, <1>12
       DEF Next, Continue

\* With one own block per slot, the DAG contains between calls every ancestor
\* above the collected round of every block it contains: what DagState::flush
\* requires holds for every DAG and every order of arrival.
THEOREM DagCausallyComplete ==
    ASSUME OwnSlotsUnique
    PROVE  Spec => []CausallyComplete
<1>1. Bookkeeping /\ Closure /\ [Next]_vars => Closure'
    BY NextClosure
<1>2. Closure => CausallyComplete
    <2> SUFFICES ASSUME Closure, Idle PROVE \A b \in dag : \A a \in Ancestors[b] :
                     Round[a] > gc_round => a \in dag
        BY DEF CausallyComplete
    <2>1. \A a : Above(a) <=> Round[a] > gc_round
        BY DEF Idle, Above
    <2>2. Held = dag
        BY DEF Idle, Held
    <2> QED
        BY <2>1, <2>2 DEF Closure, HeldClosed
<1> QED
    BY <1>1, <1>2, InitClosure, BookkeepingInvariant, PTL DEF Spec

====
