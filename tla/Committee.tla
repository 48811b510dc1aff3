------------------------------ MODULE Committee ------------------------------
(***************************************************************************)
(* The committee of an epoch (meta-consensus/config/src/committee.rs) and  *)
(* the stake aggregator that counts votes against it                       *)
(* (core/src/stake_aggregator.rs).  The aggregator counts an authority     *)
(* once however often it votes, so its state is the set of voters.         *)
(***************************************************************************)
EXTENDS Naturals, FiniteSets, FiniteSetsExt

CONSTANTS Authorities,   \* the authorities of the epoch
          Stake,         \* Stake[a]: the voting power of authority a
          Honest         \* the authorities that sign one block per round

StakeOf(S) == MapThenSumSet(LAMBDA a : Stake[a], S)

TotalStake == StakeOf(Authorities)

\* Integer f faults are tolerated when the total stake is 3f + 1.
FaultTolerance == (TotalStake - 1) \div 3

QuorumThreshold == TotalStake - FaultTolerance

\* StakeAggregator<QuorumThreshold>: S are the authorities that were added.
ReachedQuorum(S) == StakeOf(S) >= QuorumThreshold

(***************************************************************************)
(* The BFT assumption of the protocol: two quorums share an authority that *)
(* does not equivocate.  Committee::new asserts the arithmetic of it.      *)
(***************************************************************************)
ASSUME QuorumsIntersect ==
    \A P, Q \in SUBSET Authorities :
        ReachedQuorum(P) /\ ReachedQuorum(Q) => P \cap Q \cap Honest # {}
=============================================================================
