-------------------------- MODULE CommitRuleProofs --------------------------
(***************************************************************************)
(* Quorum intersection in the commit rule, for every committee and every   *)
(* network: two nodes with different views of the same blocks cannot       *)
(* certify two blocks of a leader slot, and cannot commit and skip a       *)
(* leader directly.  CommitRule has no state; the facts are about its      *)
(* operators, over views of one universe.                                  *)
(***************************************************************************)
EXTENDS CommitRule, TLAPS

(***************************************************************************)
(* What block verification and the protocol guarantee of the blocks of a   *)
(* network: references point to lower rounds (block_verifier.rs), and an   *)
(* honest authority makes one block per round.                             *)
(***************************************************************************)
Blocks == Nat \X Authorities \X Nat

WellFormed(anc) ==
    /\ DOMAIN anc \subseteq Blocks
    /\ \A b \in DOMAIN anc : anc[b] \in Seq(Blocks)
    /\ \A b \in DOMAIN anc : \A i \in DOMAIN anc[b] : Round(anc[b][i]) < Round(b)
    /\ \A b, c \in DOMAIN anc :
           Slot(b) = Slot(c) /\ Author(b) \in Honest => b = c

\* A node's view of the universe anc.
ViewOf(d, anc) ==
    /\ d.anc = anc
    /\ d.recent \subseteq DOMAIN anc /\ d.stored \subseteq DOMAIN anc

\* A leader block that may be decided: genesis blocks are not.
Leader(l) == l \in Blocks /\ Round(l) >= 1

-----------------------------------------------------------------------------
(***************************************************************************)
(* Every vote a certificate counts is cast by a block of the round after   *)
(* the leader's that references the leader, and in every view the same     *)
(* block votes for the same leader (find_supported_block reads nothing but *)
(* the block).                                                             *)
(***************************************************************************)
LEMMA VoteLinks ==
    ASSUME NEW anc, WellFormed(anc), NEW d, ViewOf(d, anc),
           NEW b \in DOMAIN anc, NEW l, Leader(l), Round(b) = Round(l) + 2,
           NEW a \in AncestorSet(d, b), Has(d, a), IsVote(d, a, l)
    PROVE  /\ a \in DOMAIN anc
           /\ l \in AncestorSet(d, a)
           /\ Round(a) = Round(l) + 1
           /\ l = CHOOSE x \in AncestorSet(d, a) : Slot(x) = Slot(l)
<1>1. /\ Round(a) >= Slot(l)[1]
      /\ \E x \in AncestorSet(d, a) : Slot(x) = Slot(l)
      /\ l = CHOOSE x \in AncestorSet(d, a) : Slot(x) = Slot(l)
  <2>1. l # NotFound
    <3>1. PICK r \in Nat, x \in Authorities, v \in Nat : l = <<r, x, v>>
      BY DEF Leader, Blocks
    <3>2. Len(<<r, x, v>>) = 3 /\ Len(<<>>) = 0
      OBVIOUS
    <3> QED BY <3>1, <3>2 DEF NotFound
  <2>2. FindSupportedBlock(d, Slot(l), a) = l
    BY DEF IsVote
  <2> QED BY <2>1, <2>2 DEF FindSupportedBlock
<1>2. Slot(l)[1] = Round(l) /\ Round(l) \in Nat
  BY DEF Slot, Round, Leader, Blocks
<1>3. Round(a) < Round(b) /\ a \in Blocks
  BY DEF AncestorSet, WellFormed, ViewOf
<1>4. Round(a) \in Nat /\ Round(b) \in Nat
  BY <1>3 DEF Blocks, Round, WellFormed
<1>5. a \in DOMAIN anc
  BY <1>1, <1>2, <1>4 DEF Has, GENESIS_ROUND, ViewOf, Leader
<1>6. l \in AncestorSet(d, a)
  BY <1>1
<1>7. Round(l) < Round(a)
  BY <1>5, <1>6 DEF AncestorSet, WellFormed, ViewOf
<1> QED BY <1>1, <1>2, <1>3, <1>4, <1>5, <1>6, <1>7

(***************************************************************************)
(* A voter that a certificate counts has such a block.                     *)
(***************************************************************************)
LEMMA VoterBlock ==
    ASSUME NEW anc, WellFormed(anc), NEW d, ViewOf(d, anc),
           NEW b \in DOMAIN anc, NEW l, Leader(l), Round(b) = Round(l) + 2,
           NEW h \in VotersIn(d, b, l, Len(d.anc[b]))
    PROVE  /\ h \in Authorities
           /\ \E a \in DOMAIN anc :
                 /\ Author(a) = h /\ Slot(a) = <<Round(l) + 1, h>>
                 /\ l \in AncestorSet(d, a)
                 /\ l = CHOOSE x \in AncestorSet(d, a) : Slot(x) = Slot(l)
<1>1. PICK a \in {d.anc[b][i] : i \in 1..Len(d.anc[b])} :
          Author(a) = h /\ Has(d, a) /\ IsVote(d, a, l)
  BY DEF VotersIn, Authors
<1>2. a \in AncestorSet(d, b)
  <2>1. d.anc[b] \in Seq(Blocks)
    BY DEF ViewOf, WellFormed
  <2>2. DOMAIN d.anc[b] = 1..Len(d.anc[b])
    BY <2>1
  <2> QED BY <1>1, <2>2 DEF AncestorSet
<1>3. /\ a \in DOMAIN anc
      /\ l \in AncestorSet(d, a)
      /\ Round(a) = Round(l) + 1
      /\ l = CHOOSE x \in AncestorSet(d, a) : Slot(x) = Slot(l)
  BY <1>1, <1>2, VoteLinks
<1>4. a \in Blocks
  BY <1>3 DEF WellFormed
<1>5. Author(a) \in Authorities /\ Slot(a) = <<Round(a), Author(a)>>
  BY <1>4 DEF Blocks, Author, Slot, Round
<1> QED BY <1>1, <1>3, <1>5

-----------------------------------------------------------------------------
(***************************************************************************)
(* At most one block of a leader slot can be certified, whichever nodes    *)
(* look at it: try_direct_decide and decide_leader_from_anchor never meet  *)
(* the two certified leaders they panic on, and no two nodes commit        *)
(* different blocks for a slot.                                            *)
(***************************************************************************)
THEOREM OneCertifiedLeader ==
    ASSUME NEW anc, WellFormed(anc),
           NEW d1, ViewOf(d1, anc), NEW d2, ViewOf(d2, anc),
           NEW l1, Leader(l1), NEW l2, Leader(l2), Slot(l1) = Slot(l2),
           NEW b1 \in DOMAIN anc, Round(b1) = Round(l1) + 2, IsCertificate(d1, b1, l1),
           NEW b2 \in DOMAIN anc, Round(b2) = Round(l2) + 2, IsCertificate(d2, b2, l2)
    PROVE  l1 = l2
<1> DEFINE V1 == VotersIn(d1, b1, l1, Len(d1.anc[b1]))
           V2 == VotersIn(d2, b2, l2, Len(d2.anc[b2]))
<1>1. V1 \subseteq Authorities /\ V2 \subseteq Authorities
  BY VoterBlock
<1>2. ReachedQuorum(V1) /\ ReachedQuorum(V2)
  BY DEF IsCertificate
<1> HIDE DEF V1, V2
<1>3. PICK h \in V1 \cap V2 : h \in Honest
  BY <1>1, <1>2, QuorumsIntersect
<1>4. PICK a1 \in DOMAIN anc :
          /\ Author(a1) = h /\ Slot(a1) = <<Round(l1) + 1, h>>
          /\ l1 = CHOOSE x \in AncestorSet(d1, a1) : Slot(x) = Slot(l1)
  BY <1>3, VoterBlock DEF V1
<1>5. PICK a2 \in DOMAIN anc :
          /\ Author(a2) = h /\ Slot(a2) = <<Round(l2) + 1, h>>
          /\ l2 = CHOOSE x \in AncestorSet(d2, a2) : Slot(x) = Slot(l2)
  BY <1>3, VoterBlock DEF V2
<1>6. Round(l1) = Round(l2)
  BY DEF Slot, Round
<1>7. a1 = a2
  BY <1>3, <1>4, <1>5, <1>6 DEF WellFormed
<1>8. AncestorSet(d1, a1) = AncestorSet(d2, a2)
  BY <1>7 DEF AncestorSet, ViewOf
<1> QED BY <1>4, <1>5, <1>8

(***************************************************************************)
(* A leader one node commits directly, with a quorum of certificates, no   *)
(* node skips directly: enough_leader_support and enough_leader_blame      *)
(* exclude each other across views.                                        *)
(***************************************************************************)
THEOREM DirectCommitExcludesDirectSkip ==
    ASSUME NEW anc, WellFormed(anc),
           NEW d1, ViewOf(d1, anc), NEW d2, ViewOf(d2, anc),
           NEW l, Leader(l),
           NEW b \in DOMAIN anc, Round(b) = Round(l) + 2, IsCertificate(d1, b, l)
    PROVE  ~ EnoughLeaderBlame(d2, Slot(l))
<1> SUFFICES ASSUME EnoughLeaderBlame(d2, Slot(l)) PROVE FALSE
  OBVIOUS
<1> DEFINE V == VotersIn(d1, b, l, Len(d1.anc[b]))
           B == {c \in BlocksAtRound(d2, Slot(l)[1] + 1) :
                    Slot(l)[2] \notin Authors(AncestorSet(d2, c))}
<1>1. V \subseteq Authorities /\ ReachedQuorum(V)
  BY VoterBlock DEF IsCertificate
<1>2. B \subseteq DOMAIN anc /\ \A c \in B : Round(c) = Round(l) + 1
  BY DEF BlocksAtRound, ViewOf, Slot, Round
<1>3. Authors(B) \subseteq Authorities /\ ReachedQuorum(Authors(B))
  <2>1. ReachedQuorum(Authors(B))
    BY DEF EnoughLeaderBlame
  <2>2. \A c \in B : Author(c) \in Authorities
    BY <1>2 DEF WellFormed, Blocks, Author
  <2> QED BY <2>1, <2>2 DEF Authors
<1>4. \A c \in B : l \notin AncestorSet(d2, c)
  BY DEF Authors, Slot, Author
<1> HIDE DEF V, B
<1>5. PICK h \in V \cap Authors(B) : h \in Honest
  BY <1>1, <1>3, QuorumsIntersect
<1>6. PICK a \in DOMAIN anc : /\ Author(a) = h /\ Slot(a) = <<Round(l) + 1, h>>
                              /\ l \in AncestorSet(d1, a)
  BY <1>5, VoterBlock DEF V
<1>7. PICK c \in B : Author(c) = h
  BY <1>5 DEF Authors
<1>8. Slot(c) = <<Round(l) + 1, h>>
  BY <1>2, <1>7 DEF Slot, Round, Author
<1>9. a = c
  BY <1>2, <1>5, <1>6, <1>7, <1>8 DEF WellFormed
<1>10. AncestorSet(d1, a) = AncestorSet(d2, c)
  BY <1>9 DEF AncestorSet, ViewOf
<1> QED BY <1>4, <1>6, <1>7, <1>10

(***************************************************************************)
(* A leader that some node commits directly is certified in the history of *)
(* every block of the following wave that references a quorum of the       *)
(* leader's decision round, as every valid block does: an anchor decides   *)
(* the same (decide_leader_from_anchor).                                   *)
(***************************************************************************)
THEOREM DirectCommitReachesAnchors ==
    ASSUME NEW anc, WellFormed(anc),
           NEW d1, ViewOf(d1, anc), NEW d2, ViewOf(d2, anc),
           NEW l, Leader(l), EnoughLeaderSupport(d1, l),
           NEW b \in DOMAIN anc,
           ReachedQuorum(Authors({p \in AncestorSet(d2, b) \cap DOMAIN anc :
                                     Round(p) = Round(l) + 2}))
    PROVE  \E p \in AncestorSet(d2, b) : IsCertificate(d1, p, l)
<1> DEFINE C == Certificates(d1, l)
           P == {p \in AncestorSet(d2, b) \cap DOMAIN anc : Round(p) = Round(l) + 2}
<1>1. C \subseteq DOMAIN anc /\ \A c \in C : Round(c) = Round(l) + 2 /\ IsCertificate(d1, c, l)
  BY DEF Certificates, BlocksAtRound, ViewOf
<1>2. P \subseteq DOMAIN anc /\ \A p \in P : Round(p) = Round(l) + 2 /\ p \in AncestorSet(d2, b)
  OBVIOUS
<1>3. ReachedQuorum(Authors(C)) /\ ReachedQuorum(Authors(P))
  BY DEF EnoughLeaderSupport
<1> HIDE DEF C, P
<1>4. Authors(C) \subseteq Authorities /\ Authors(P) \subseteq Authorities
  <2>1. \A x \in DOMAIN anc : Author(x) \in Authorities
    BY DEF WellFormed, Blocks, Author
  <2> QED BY <1>1, <1>2, <2>1 DEF Authors
<1>5. PICK h \in Authors(C) \cap Authors(P) : h \in Honest
  BY <1>3, <1>4, QuorumsIntersect
<1>6. PICK c \in C : Author(c) = h
  BY <1>5 DEF Authors
<1>7. PICK p \in P : Author(p) = h
  BY <1>5 DEF Authors
<1>8. Slot(c) = Slot(p)
  BY <1>1, <1>2, <1>6, <1>7 DEF Slot, Round, Author
<1>9. c = p
  BY <1>1, <1>2, <1>5, <1>6, <1>8 DEF WellFormed
<1> QED BY <1>1, <1>2, <1>6, <1>7, <1>9
=============================================================================
